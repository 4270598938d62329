-------------------------------- MODULE Gui --------------------------------
(***************************************************************************)
(* The graphical front end: one button that connects and disconnects, and  *)
(* the events by which the threads of a client run give it back.  A thread *)
(* posts an event under event_mutex and leaves a callback with the main    *)
(* loop of the toolkit; the callback tries the mutex, and is gone if it    *)
(* does not get it.                                                        *)
(*                                                                         *)
(* Of the client (module UdpClient) there is what the front end can see:   *)
(* the threads that post, the static variables the runs of one process     *)
(* share, and the signals a run sends its own threads as it ends.          *)
(***************************************************************************)
EXTENDS Integers, Sequences, FiniteSets

CONSTANTS Worker,    \* the workers of a run
          MaxRuns,   \* bound on the runs
          MaxLive,   \* bound on the runs that are not over at one time
          MaxQueue   \* bound on the callbacks that wait for the main loop

ASSUME GuiAssumption == "main" \notin Worker /\ {MaxRuns, MaxLive, MaxQueue} \subseteq Nat

Run    == 1..MaxRuns
Thread == {"main"} \cup Worker
Agent  == Run \X Thread
Nobody == <<0, "main">>

VARIABLES label, sensitive,    \* the button
          client_event_type,
          event_mutex,         \* who holds it
          callbacks,           \* the idle callbacks, with their data
          runs,                \* the runs begun
          pc,                  \* where each thread is
          release_sub_thread, g_state,   \* shared by the runs
          stop, sig, freed,    \* the runs asked to stop, signalled, freed
          crashed,             \* a callback read its null data
          lost,                \* history: the last event was never shown
          silent,              \* history: a run began to end without an event
          settled              \* history: runs begun when all others were over

ui_vars  == <<label, sensitive>>
evt_vars == <<client_event_type, event_mutex, callbacks, crashed, lost>>
run_vars == <<runs, pc, release_sub_thread, g_state, stop, sig, freed, silent, settled>>
vars     == <<ui_vars, evt_vars, run_vars>>

(* init_client_callbacks(); CLIENT_ON_CONNECT is zero.                     *)
Init == /\ label = "Connect" /\ sensitive = TRUE
        /\ client_event_type = "connect" /\ event_mutex = Nobody
        /\ callbacks = <<>> /\ crashed = FALSE /\ lost = FALSE
        /\ runs = 0 /\ pc = [a \in Agent |-> "off"]
        /\ release_sub_thread = FALSE /\ g_state = 0
        /\ stop = {} /\ sig = {} /\ freed = {}
        /\ silent = FALSE /\ settled = {}

Over(r) == \A t \in Thread : pc[r, t] \in {"off", "gone"}
AllOver == callbacks = <<>> /\ event_mutex = Nobody /\ \A r \in Run : Over(r)

MayConnect == runs < MaxRuns /\ Cardinality({r \in Run : ~Over(r)}) < MaxLive

-----------------------------------------------------------------------------
(* btn_connect_callback()                                                  *)

(* A slip: the button stays sensitive while it connects.                   *)
ClickConnect_StaysSensitive ==
    /\ ~crashed /\ sensitive /\ label = "Connect" /\ MayConnect
    /\ \/ /\ runs' = runs + 1 /\ pc' = [pc EXCEPT ![<<runs + 1, "main">>] = "config"]
          /\ settled' = IF AllOver THEN settled \cup {runs + 1} ELSE settled
          /\ UNCHANGED silent
       \/ silent' = TRUE /\ UNCHANGED <<runs, pc, settled>>
    /\ UNCHANGED <<sensitive, label, evt_vars, release_sub_thread, g_state, stop, sig, freed>>

(* When pthread_create() fails nothing gives the button back.              *)
ClickConnect ==
    /\ ~crashed /\ sensitive /\ label = "Connect" /\ MayConnect
    /\ sensitive' = FALSE
    /\ \/ /\ runs' = runs + 1 /\ pc' = [pc EXCEPT ![<<runs + 1, "main">>] = "config"]
          /\ settled' = IF AllOver THEN settled \cup {runs + 1} ELSE settled
          /\ UNCHANGED silent
       \/ silent' = TRUE /\ UNCHANGED <<runs, pc, settled>>
    /\ UNCHANGED <<label, evt_vars, release_sub_thread, g_state, stop, sig, freed>>

(* teavpn2_client_udp_stop() follows g_state, which nobody resets.         *)
ClickDisconnect ==
    /\ ~crashed /\ sensitive /\ label = "Disconnect"
    /\ sensitive' = FALSE
    /\ stop' = IF g_state # 0 THEN stop \cup {g_state} ELSE stop
    /\ UNCHANGED <<label, evt_vars, runs, pc, release_sub_thread, g_state, sig, freed,
                   silent, settled>>

-----------------------------------------------------------------------------
(* client_callback_event_loop(), for the oldest callback                   *)

CallbackDrops ==
    /\ callbacks # <<>> /\ event_mutex # Nobody /\ ~crashed
    /\ callbacks' = Tail(callbacks)
    /\ lost' = (Len(callbacks) = 1)
    /\ UNCHANGED <<ui_vars, client_event_type, event_mutex, crashed, run_vars>>

(* An error is shown with the data of whatever event left this callback:   *)
(* null for the other kinds.  The value is not used, so that an optimising *)
(* build drops the read and another one ends here.                         *)
CallbackShows ==
    /\ callbacks # <<>> /\ event_mutex = Nobody /\ ~crashed
    /\ callbacks' = Tail(callbacks)
    /\ \/ /\ label' = IF client_event_type = "connect" THEN "Disconnect" ELSE "Connect"
          /\ sensitive' = TRUE /\ UNCHANGED crashed
       \/ /\ client_event_type = "error" /\ Head(callbacks) = "null"
          /\ crashed' = TRUE /\ UNCHANGED ui_vars
    /\ UNCHANGED <<client_event_type, event_mutex, lost, run_vars>>

-----------------------------------------------------------------------------
(* invoke_client_on_connect(), _on_error() and _on_disconnect(), posted by *)
(* a thread that stands at one of these places.                            *)
EventAt == [connect |-> "connect", error |-> "error", fail |-> "error",
            disconnect |-> "disconnect"]

Post(a) ==
    /\ ~crashed /\ pc[a] \in DOMAIN EventAt /\ event_mutex = Nobody
    /\ Len(callbacks) < MaxQueue
    /\ event_mutex' = a
    /\ client_event_type' = EventAt[pc[a]]
    /\ callbacks' = Append(callbacks, IF EventAt[pc[a]] = "error" THEN "code" ELSE "null")
    /\ lost' = FALSE
    /\ UNCHANGED <<ui_vars, crashed, run_vars>>

Goto(a, place) == pc' = [pc EXCEPT ![a] = place]

(* The main thread releases the workers after it announced the connection. *)
Posted(a) ==
    /\ ~crashed /\ event_mutex = a /\ event_mutex' = Nobody
    /\ Goto(a, CASE pc[a] = "connect" -> "loop"
                 [] pc[a] = "error" -> "free"
                 [] pc[a] = "fail" -> "disconnect"
                 [] pc[a] = "disconnect" -> IF a[2] = "main" THEN "kill" ELSE "gone")
    /\ release_sub_thread' = (release_sub_thread \/ pc[a] = "connect")
    /\ UNCHANGED <<ui_vars, client_event_type, callbacks, crashed, lost, runs, g_state, stop,
                   sig, freed, silent, settled>>

-----------------------------------------------------------------------------
(* A slip: g_state is set by the first run only.                           *)
Configure_KeepsState(r) ==
    /\ ~crashed /\ pc[r, "main"] = "config"
    /\ \/ /\ Goto(<<r, "main">>, "init") /\ UNCHANGED <<sensitive, silent>>
          /\ g_state' = IF g_state = 0 THEN r ELSE g_state
       \/ Goto(<<r, "main">>, "gone") /\ sensitive' = TRUE /\ UNCHANGED <<g_state, silent>>
    /\ UNCHANGED <<label, evt_vars, runs, release_sub_thread, stop, sig, freed, settled>>

(* run_teavpn2() of run r, up to init_state().  A bad file or socket type  *)
(* gives the button back from this thread; out of memory, nothing does.    *)
Configure(r) ==
    /\ ~crashed /\ pc[r, "main"] = "config"
    /\ \/ Goto(<<r, "main">>, "init") /\ g_state' = r /\ UNCHANGED <<sensitive, silent>>
       \/ Goto(<<r, "main">>, "gone") /\ sensitive' = TRUE /\ UNCHANGED <<g_state, silent>>
       \/ Goto(<<r, "main">>, "gone") /\ silent' = TRUE /\ UNCHANGED <<g_state, sensitive>>
    /\ UNCHANGED <<label, evt_vars, runs, release_sub_thread, stop, sig, freed, settled>>

(* From init_state() to the threads: an error that is announced, one that  *)
(* is not because skip_invoke_cerr is set, a thread that cannot be created *)
(* or detached after others were, or all of them (the last one may be up   *)
(* and not detached).  stop is cleared before the threads.                 *)
Connects(r) ==
    /\ ~crashed /\ pc[r, "main"] = "init"
    /\ \/ Goto(<<r, "main">>, "error") /\ UNCHANGED <<stop, silent>>
       \/ Goto(<<r, "main">>, "free") /\ silent' = TRUE /\ UNCHANGED stop
       \/ /\ stop' = stop \ {r}
          /\ \E up \in SUBSET Worker, next \in {"ready", "kill"} :
               /\ next = "ready" => up = Worker
               /\ pc' = [a \in Agent |->
                           IF a = <<r, "main">> THEN next
                           ELSE IF a[1] = r /\ a[2] \in up THEN "wait" ELSE pc[a]]
               /\ silent' = (silent \/ next = "kill")
    /\ UNCHANGED <<ui_vars, evt_vars, runs, release_sub_thread, g_state, sig, freed, settled>>

(* thread_wait()                                                           *)
MainReady(r) ==
    /\ ~crashed /\ pc[r, "main"] = "ready"
    /\ \/ (\A w \in Worker : pc[r, w] # "gone") /\ Goto(<<r, "main">>, "connect")
       \/ r \in stop /\ Goto(<<r, "main">>, "loop")
    /\ UNCHANGED <<ui_vars, evt_vars, runs, release_sub_thread, g_state, stop, sig, freed,
                   silent, settled>>

WorkerReady(r, w) ==
    /\ ~crashed /\ pc[r, w] = "wait" /\ (release_sub_thread \/ r \in stop)
    /\ Goto(<<r, w>>, "loop")
    /\ UNCHANGED <<ui_vars, evt_vars, runs, release_sub_thread, g_state, stop, sig, freed,
                   silent, settled>>

(* The server's CLOSE or the timer.                                        *)
Stops(r) ==
    /\ ~crashed /\ pc[r, "main"] \in {"ready", "connect", "loop"}
    /\ stop' = stop \cup {r}
    /\ UNCHANGED <<ui_vars, evt_vars, runs, pc, release_sub_thread, g_state, sig, freed,
                   silent, settled>>

(* A slip: only the thread that failed announces the end.                  *)
LeaveLoop_Silently(a) ==
    /\ ~crashed /\ pc[a] = "loop"
    /\ \/ a[1] \notin stop /\ stop' = stop \cup {a[1]} /\ Goto(a, "fail")
       \/ /\ a[1] \in stop /\ UNCHANGED stop
          /\ Goto(a, IF a[2] = "main" THEN "kill" ELSE "gone")
    /\ UNCHANGED <<ui_vars, evt_vars, runs, release_sub_thread, g_state, sig, freed, silent,
                   settled>>

(* client_udp_epoll_run_event_loop() fails in a thread, or sees stop.      *)
LeaveLoop(a) ==
    /\ ~crashed /\ pc[a] = "loop"
    /\ \/ a[1] \notin stop /\ stop' = stop \cup {a[1]} /\ Goto(a, "fail")
       \/ a[1] \in stop /\ UNCHANGED stop /\ \E place \in {"fail", "disconnect"} : Goto(a, place)
    /\ UNCHANGED <<ui_vars, evt_vars, runs, release_sub_thread, g_state, sig, freed, silent,
                   settled>>

(* wait_for_threads_to_exit(): the handler of the signals sent to the      *)
(* threads of this run stops the run g_state names, once.  No signal is    *)
(* sent when no thread is left.                                            *)
Kill(r) ==
    /\ ~crashed /\ pc[r, "main"] = "kill"
    /\ Goto(<<r, "main">>, "reap")
    /\ \/ /\ sig' = sig \cup {g_state}
          /\ stop' = IF g_state \in sig THEN stop ELSE stop \cup {g_state}
       \/ (\A w \in Worker : pc[r, w] \in {"off", "gone"}) /\ UNCHANGED <<sig, stop>>
    /\ UNCHANGED <<ui_vars, evt_vars, runs, release_sub_thread, g_state, freed, silent,
                   settled>>

(* The state is freed, unless threads would not end.                       *)
EndRun(r) ==
    /\ ~crashed
    /\ \/ /\ \/ pc[r, "main"] = "free"
             \/ pc[r, "main"] = "reap" /\ \A w \in Worker : pc[r, w] \in {"off", "gone"}
          /\ freed' = freed \cup {r} /\ stop' = stop \ {r} /\ sig' = sig \ {r}
       \/ /\ pc[r, "main"] = "reap" /\ \E w \in Worker : pc[r, w] \notin {"off", "gone"}
          /\ UNCHANGED <<freed, stop, sig>>
    /\ Goto(<<r, "main">>, "gone")
    /\ UNCHANGED <<ui_vars, evt_vars, runs, release_sub_thread, g_state, silent, settled>>

Next == \/ ClickConnect \/ ClickDisconnect \/ CallbackDrops \/ CallbackShows
        \/ \E a \in Agent : Post(a) \/ Posted(a) \/ LeaveLoop(a)
        \/ \E r \in Run : \/ Configure(r) \/ Connects(r) \/ MainReady(r) \/ Stops(r)
                          \/ Kill(r) \/ EndRun(r)
                          \/ \E w \in Worker : WorkerReady(r, w)

Spec == Init /\ [][Next]_vars

-----------------------------------------------------------------------------
(* A run of which no thread has begun to announce the end.                 *)
Running(r) == /\ pc[r, "main"] \in {"config", "init", "ready", "connect", "loop"}
              /\ \A w \in Worker : pc[r, w] \in {"off", "wait", "loop"}

(* When no run is left and every callback has run, the button can connect  *)
(* again.  Two things may have kept it: the callback of the last event ran *)
(* while that event was still being posted, or a run ended without one.    *)
ButtonComesBack == AllOver /\ ~crashed /\ ~lost /\ ~silent => sensitive /\ label = "Connect"

(* A run begun when all others were over has the process to itself until   *)
(* it announces its end: the button starts no second one beside it.        *)
OneRunAtATime ==
    \A r \in settled : Running(r) => runs = r

(* The button stops the run that is on: the state of a run that had the    *)
(* process to itself when it began is written to after it is gone only     *)
(* while the news of its end is on its way, or was lost.                   *)
StopFindsItsRun ==
    [][\A r \in freed : r \in stop' \ stop => callbacks # <<>> \/ lost \/ r \notin settled]_vars
=============================================================================
