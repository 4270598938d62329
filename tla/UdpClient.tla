----------------------------- MODULE UdpClient -----------------------------
(***************************************************************************)
(* The UDP client: teavpn2_client_udp_run() initialises its state, shakes  *)
(* hands with the server and authenticates, both with retries, and brings  *)
(* the interface up; teavpn2_udp_client_epoll() runs the event loops of    *)
(* the main thread and of the workers next to a timer thread that asks a   *)
(* silent server for signs of life and disconnects in the end; then the    *)
(* threads are waited for and the state is destroyed.  The graphical front *)
(* end may start another run in the same process.                          *)
(*                                                                         *)
(* The server is the environment: any packet may arrive at any time.       *)
(***************************************************************************)
EXTENDS Integers, FiniteSets, SequencesExt

CONSTANTS Worker,       \* the worker threads (thread_num - 1 of them)
          MaxTry,       \* max_try of do_handshake()
          AuthTry,      \* max_try of do_auth()
          ResetTry,     \* resets do_handshake() puts up with
          SyncEvery,    \* UDP_LOOP_C_DEADLINE
          Timeout,      \* UDP_SESS_TIMEOUT, in ticks of the clock
          MaxSignals,   \* bound on the signals from outside
          MaxRuns       \* bound on the runs in one process

ASSUME ClientAssumption ==
    /\ IsFiniteSet(Worker) /\ "main" \notin Worker
    /\ {MaxTry, AuthTry, ResetTry, SyncEvery, MaxRuns} \subseteq Nat \ {0}
    /\ {Timeout, MaxSignals} \subseteq Nat

VARIABLES main,         \* the next step of the main thread
          timer,        \* the timer thread
          worker,       \* the workers
          n_on_threads,
          released,     \* release_sub_thread, a static variable
          stop,
          sig,          \* state->sig is not -1
          tries,        \* try_count
          idle,         \* now - last_t, at most IdleBound
          loop_c,
          open,         \* open descriptors: "udp", "tun", "epoll"
          field,        \* the descriptors recorded in the state
          iface,        \* the interface on the host
          need_remove_iff,
          threads_wont_exit,
          event,        \* the last event of this run told to the front end
          sent,         \* the packets sent by the last step
          signals, runs

thread_vars == <<timer, worker, n_on_threads, released>>
time_vars   == <<idle, loop_c>>
res_vars    == <<open, field, iface, need_remove_iff, threads_wont_exit>>
ctl_vars    == <<stop, sig>>
env_vars    == <<signals, runs>>
vars == <<main, tries, event, sent, thread_vars, time_vars, res_vars, ctl_vars,
          env_vars>>

IdleBound == Timeout + 1

Init == /\ main = "init_state"
        /\ timer = "none" /\ worker = [w \in Worker |-> "none"] /\ n_on_threads = 0
        /\ released = FALSE
        /\ stop = FALSE /\ sig = FALSE
        /\ tries = 0 /\ idle = 0 /\ loop_c = 0
        /\ open = {} /\ field = {}
        /\ iface = "down" /\ need_remove_iff = FALSE
        /\ threads_wont_exit = FALSE
        /\ event = "none" /\ sent = <<>>
        /\ signals = 0 /\ runs = 1

Quiet == sent' = <<>>

-----------------------------------------------------------------------------
(* signal_intr_handler(), from outside or by pthread_kill(): only the      *)
(* first signal of a run counts.                                           *)
signal_intr_handler == /\ sig' = TRUE
                       /\ stop' = (stop \/ ~sig)

Signal ==
    /\ main \notin {"init_state", "exited", "no_state"}
    /\ signals < MaxSignals /\ signals' = signals + 1
    /\ signal_intr_handler
    /\ Quiet /\ UNCHANGED <<main, tries, event, thread_vars, time_vars, res_vars, runs>>

(* The button of the front end, labelled "Disconnect" after the event.     *)
teavpn2_client_udp_stop ==
    /\ event = "connect"
    /\ stop' = TRUE
    /\ Quiet /\ UNCHANGED <<main, tries, event, sig, thread_vars, time_vars, res_vars,
                            env_vars>>

-----------------------------------------------------------------------------
(* Initialisation and connection, before there is another thread.          *)

Alone == UNCHANGED <<thread_vars, time_vars, ctl_vars, threads_wont_exit, env_vars>>
SameResources == UNCHANGED <<open, field, iface, need_remove_iff>>

Fails == /\ main' = "out" /\ event' = "error"
         /\ UNCHANGED tries

(* init_state(), init_socket(), init_iface(): each one closes what it      *)
(* opened when it fails.                                                   *)
Initialises(step, next, fds) ==
    /\ main = step
    /\ \/ /\ main' = next
          /\ open' = open \cup fds /\ field' = field \cup fds
          /\ UNCHANGED <<tries, event, iface, need_remove_iff>>
       \/ Fails /\ SameResources
    /\ Quiet /\ Alone

(* No memory for the state: teavpn2_client_udp_run() returns at once,      *)
(* without an event.                                                       *)
NoState ==
    /\ main = "init_state" /\ main' = "no_state"
    /\ Quiet /\ Alone /\ SameResources /\ UNCHANGED <<tries, event>>

InitStep == \/ NoState
            \/ Initialises("init_state", "init_socket", {})
            \/ Initialises("init_socket", "init_iface", {"udp"})
            \/ Initialises("init_iface", "close_stale", {"tun"})

(* do_handshake() first closes a stale session; the result of the send is  *)
(* not looked at.                                                          *)
CloseStale ==
    /\ main = "close_stale"
    /\ main' = "handshake" /\ tries' = 0
    /\ sent' \in {<<"CLOSE">>, <<>>}
    /\ UNCHANGED event /\ SameResources /\ Alone

(* A slip: the tries are not counted.                                      *)
SendHandshake_Uncounted ==
    /\ main = "handshake"
    /\ \/ /\ main' = "handshake_wait" /\ sent' = <<"HANDSHAKE">>
          /\ UNCHANGED <<tries, event>>
       \/ Fails /\ Quiet
    /\ SameResources /\ Alone

(* _do_handshake()                                                         *)
SendHandshake ==
    /\ main = "handshake"
    /\ \/ /\ main' = "handshake_wait" /\ tries' = tries + 1
          /\ sent' = <<"HANDSHAKE">> /\ UNCHANGED event
       \/ Fails /\ Quiet
    /\ SameResources /\ Alone

(* wait_for_handshake_response() and the decisions of do_handshake(): no   *)
(* answer within the timeout, CLOSE, a good answer, or anything else, an   *)
(* interrupted poll() that finds stop included.                            *)
HandshakeResult(res) ==
    LET again == \/ res = "timeout" /\ tries < MaxTry
                 \/ res = "reset" /\ tries < ResetTry
    IN  /\ main = "handshake_wait"
        /\ \/ /\ res = "ok"
              /\ main' = "auth" /\ tries' = 0 /\ UNCHANGED event
           \/ /\ again
              /\ main' = "handshake" /\ UNCHANGED <<tries, event>>
           \/ res # "ok" /\ ~again /\ Fails
        /\ Quiet /\ SameResources /\ Alone

WaitHandshake == \E res \in {"ok", "timeout", "reset", "bad"} : HandshakeResult(res)

(* _do_auth()                                                              *)
SendAuth ==
    /\ main = "auth"
    /\ \/ main' = "auth_wait" /\ sent' = <<"AUTH">> /\ UNCHANGED <<tries, event>>
       \/ Fails /\ Quiet
    /\ SameResources /\ Alone

(* Slips: a failure returns without destroy_state(); need_remove_iff is    *)
(* left to the event loop.                                                 *)
AuthResult_Returns(res) ==
    LET again == res = "timeout" /\ tries < AuthTry
    IN  /\ main = "auth_wait"
        /\ \/ /\ res = "ok"
              /\ main' = "init_epoll" /\ iface' = "up" /\ need_remove_iff' = TRUE
              /\ UNCHANGED <<tries, event>>
           \/ /\ again
              /\ main' = "auth" /\ tries' = tries + 1
              /\ UNCHANGED <<event, iface, need_remove_iff>>
           \/ /\ ~again
              /\ main' = "exited" /\ event' = "error"
              /\ UNCHANGED <<tries, iface, need_remove_iff>>
        /\ Quiet /\ Alone /\ UNCHANGED <<open, field>>

AuthResult_Forgets(res) ==
    LET again == res = "timeout" /\ tries < AuthTry
    IN  /\ main = "auth_wait"
        /\ \/ /\ res = "ok"
              /\ main' = "init_epoll" /\ iface' = "up"
              /\ UNCHANGED <<tries, event, need_remove_iff>>
           \/ /\ again
              /\ main' = "auth" /\ tries' = tries + 1
              /\ UNCHANGED <<event, iface, need_remove_iff>>
           \/ /\ ~again /\ Fails
              /\ iface' \in IF res = "ok" THEN {iface, "partial"} ELSE {iface}
              /\ UNCHANGED need_remove_iff
        /\ Quiet /\ Alone /\ UNCHANGED <<open, field>>

(* wait_for_auth_response() and the decisions of do_auth(): AUTH_OK, upon  *)
(* which bring_up_iface() succeeds or fails half-way, no answer within the *)
(* timeout, or anything else.                                              *)
AuthResult(res) ==
    LET again == res = "timeout" /\ tries < AuthTry
    IN  /\ main = "auth_wait"
        /\ \/ /\ res = "ok"
              /\ main' = "init_epoll" /\ iface' = "up" /\ need_remove_iff' = TRUE
              /\ UNCHANGED <<tries, event>>
           \/ /\ again
              /\ main' = "auth" /\ tries' = tries + 1
              /\ UNCHANGED <<event, iface, need_remove_iff>>
           \/ /\ ~again /\ Fails
              /\ iface' \in IF res = "ok" THEN {iface, "partial"} ELSE {iface}
              /\ UNCHANGED need_remove_iff
        /\ Quiet /\ Alone /\ UNCHANGED <<open, field>>

WaitAuth == \E res \in {"ok", "timeout", "bad"} : AuthResult(res)

(* init_epoll_thread_array(): what it opened before it failed is recorded. *)
(* The error is not announced.  "out" is the unsupported io_uring.         *)
InitEpoll ==
    /\ main = "init_epoll"
    /\ \/ /\ main' \in {"clear_stop", "kill_timer"}
          /\ open' = open \cup {"epoll"} /\ field' = field \cup {"epoll"}
       \/ /\ main' \in {"kill_timer", "out"}
          /\ UNCHANGED <<open, field>>
    /\ Quiet /\ Alone /\ UNCHANGED <<tries, event, iface, need_remove_iff>>

(* stop = false and last_t = now, before run_event_loop().                 *)
ClearStop ==
    /\ main = "clear_stop"
    /\ stop' = FALSE /\ idle' = 0
    /\ main' = "spawn_timer"
    /\ Quiet /\ UNCHANGED <<tries, event, sig, loop_c, thread_vars, res_vars, env_vars>>

-----------------------------------------------------------------------------
(* Threads are started.  With pthread_detach() failing, the thread runs    *)
(* already.                                                                *)

MainOnly == Quiet /\ UNCHANGED <<tries, time_vars, res_vars, env_vars>>

SpawnTimer ==
    /\ main = "spawn_timer"
    /\ \/ timer' = "spawned" /\ main' \in {"spawn_worker", "kill_timer"}
       \/ timer' = timer /\ main' = "kill_timer"
    /\ MainOnly /\ UNCHANGED <<event, worker, n_on_threads, released, ctl_vars>>

SpawnWorker ==
    /\ main = "spawn_worker"
    /\ \E w \in Worker :
         /\ worker[w] = "none"
         /\ \/ /\ worker' = [worker EXCEPT ![w] = "spawned"]
               /\ main' \in {"spawn_worker", "kill_timer"}
            \/ worker' = worker /\ main' = "kill_timer"
    /\ MainOnly /\ UNCHANGED <<event, timer, n_on_threads, released, ctl_vars>>

EnterLoop == IF stop THEN "leave" ELSE "loop"

MainOnline ==
    /\ main = "spawn_worker" /\ \A w \in Worker : worker[w] # "none"
    /\ n_on_threads' = n_on_threads + 1
    /\ main' = "wait"
    /\ MainOnly /\ UNCHANGED <<event, timer, worker, released, ctl_vars>>

(* thread_wait() of the main thread and the first test of its loop.        *)
MainReleases ==
    /\ main = "wait"
    /\ \/ /\ n_on_threads = Cardinality(Worker) + 1
          /\ event' = "connect" /\ released' = TRUE
       \/ stop /\ UNCHANGED <<event, released>>
    /\ main' = EnterLoop
    /\ MainOnly /\ UNCHANGED <<timer, worker, n_on_threads, ctl_vars>>

WorkerStep(w, from, to) == /\ worker[w] = from
                           /\ worker' = [worker EXCEPT ![w] = to]
                           /\ UNCHANGED <<main, timer, released>>

WorkerOnline(w) == /\ WorkerStep(w, "spawned", "online")
                   /\ MainOnly /\ UNCHANGED <<event, n_on_threads, ctl_vars>>

WorkerCounts(w) == /\ WorkerStep(w, "online", "wait")
                   /\ n_on_threads' = n_on_threads + 1
                   /\ MainOnly /\ UNCHANGED <<event, ctl_vars>>

WorkerReleased(w) == /\ WorkerStep(w, "wait", EnterLoop)
                     /\ released \/ stop
                     /\ MainOnly /\ UNCHANGED <<event, n_on_threads, ctl_vars>>

-----------------------------------------------------------------------------
(* The event loops.                                                        *)

Looping(t) == IF t = "main" THEN main = "loop" ELSE worker[t] = "loop"

Breaks(t) == IF t = "main"
             THEN main' = "leave" /\ UNCHANGED worker
             ELSE worker' = [worker EXCEPT ![t] = "leave"] /\ UNCHANGED main

(* The end of handle_event(): every SyncEvery-th event counts as a sign of *)
(* life.  Threads increment loop_c without a lock.                         *)
CountEvent(now) ==
    /\ loop_c' \in IF Worker = {} THEN {(loop_c + 1) % SyncEvery} ELSE 0..(SyncEvery - 1)
    /\ idle' = IF loop_c = 0 THEN 0 ELSE now

(* The loop goes on, or ends with an error that stops the client.          *)
Handled(t, ok) ==
    \/ ok /\ UNCHANGED <<main, worker, stop, event>>
    \/ ~ok /\ Breaks(t) /\ stop' = TRUE /\ event' = "error"

LoopOnly == UNCHANGED <<tries, sig, timer, n_on_threads, released, res_vars, env_vars>>

(* handle_event_udp(): what needs no answer, a SYNC, a REQSYNC, CLOSE, and *)
(* a bad packet or a failed receive.  A write or a send may fail.          *)
RecvData ==
    /\ Looping("main")
    /\ CountEvent(idle)
    /\ \E ok \in BOOLEAN : Handled("main", ok)
    /\ Quiet /\ LoopOnly

RecvSync ==
    /\ Looping("main")
    /\ CountEvent(0)
    /\ Handled("main", TRUE)
    /\ Quiet /\ LoopOnly

RecvReqsync ==
    /\ Looping("main")
    /\ CountEvent(0)
    /\ \E ok \in BOOLEAN : /\ Handled("main", ok)
                            /\ sent' = IF ok THEN <<"SYNC">> ELSE <<>>
    /\ LoopOnly

(* A slip: CLOSE is ignored like the other control packets.                *)
RecvClose_Ignored ==
    /\ Looping("main")
    /\ CountEvent(idle)
    /\ Quiet /\ LoopOnly /\ UNCHANGED <<main, worker, event, stop>>

RecvClose ==
    /\ Looping("main")
    /\ CountEvent(idle)
    /\ stop' = TRUE
    /\ Quiet /\ LoopOnly /\ UNCHANGED <<main, worker, event>>

(* handle_event_tun() of a worker, or of the only thread.                  *)
ForwardTun(t) ==
    /\ Looping(t) /\ (t = "main" => Worker = {})
    /\ CountEvent(idle)
    /\ \E ok \in BOOLEAN : /\ Handled(t, ok)
                            /\ sent' \in IF ok THEN {<<"TUN_DATA">>, <<>>} ELSE {<<>>}
    /\ LoopOnly

(* epoll_wait() fails.                                                     *)
WaitFails(t) ==
    /\ Looping(t)
    /\ Handled(t, FALSE)
    /\ Quiet /\ LoopOnly /\ UNCHANGED time_vars

(* A slip: the loop ends for a signal only.                                *)
LoopEnds_OnSignal(t) ==
    /\ Looping(t) /\ stop /\ sig
    /\ Breaks(t)
    /\ Quiet /\ LoopOnly /\ UNCHANGED <<event, stop, time_vars>>

LoopEnds(t) ==
    /\ Looping(t) /\ stop
    /\ Breaks(t)
    /\ Quiet /\ LoopOnly /\ UNCHANGED <<event, stop, time_vars>>

(* A slip: only the workers announce the end.                              *)
MainLeaves_Silently ==
    /\ main = "leave"
    /\ n_on_threads' = n_on_threads - 1
    /\ main' = "kill_timer"
    /\ MainOnly /\ UNCHANGED <<event, timer, worker, released, ctl_vars>>

MainLeaves ==
    /\ main = "leave"
    /\ event' = "disconnect"
    /\ n_on_threads' = n_on_threads - 1
    /\ main' = "kill_timer"
    /\ MainOnly /\ UNCHANGED <<timer, worker, released, ctl_vars>>

WorkerLeaves(w) == /\ WorkerStep(w, "leave", "offline")
                   /\ event' = "disconnect"
                   /\ MainOnly /\ UNCHANGED <<n_on_threads, ctl_vars>>

WorkerUncounts(w) == /\ WorkerStep(w, "offline", "gone")
                     /\ n_on_threads' = n_on_threads - 1
                     /\ MainOnly /\ UNCHANGED <<event, ctl_vars>>

-----------------------------------------------------------------------------
(* The timer thread.                                                       *)

TimerOnly == UNCHANGED <<main, tries, event, sig, worker, n_on_threads, released,
                         time_vars, res_vars, env_vars>>

TimerOnline ==
    /\ timer = "spawned" /\ timer' = "loop"
    /\ Quiet /\ TimerOnly /\ UNCHANGED stop

TimerSleeps ==
    /\ timer = "loop" /\ ~stop /\ timer' = "sleep"
    /\ Quiet /\ TimerOnly /\ UNCHANGED stop

TimerEnds ==
    /\ timer = "loop" /\ stop /\ timer' = "gone"
    /\ Quiet /\ TimerOnly /\ UNCHANGED stop

(* The bursts of _run_timer_thread(), by fifths of the timeout.            *)
Burst == CASE idle > (Timeout * 4) \div 5 -> 7
           [] idle <= (Timeout * 4) \div 5 /\ idle > (Timeout * 3) \div 5 -> 5
           [] idle <= (Timeout * 3) \div 5 /\ idle > (Timeout * 2) \div 5 -> 3
           [] idle <= (Timeout * 2) \div 5 /\ idle > Timeout \div 5 -> 1
           [] OTHER -> 0

(* A slip: the timeout is compared with what the clock cannot exceed.      *)
TimerChecks_OffByOne ==
    /\ timer = "sleep" /\ timer' = "loop"
    /\ IF idle > Timeout + 1
       THEN stop' = TRUE /\ Quiet
       ELSE sent' \in {[i \in 1..k |-> "REQSYNC"] : k \in {0, Burst}} /\ UNCHANGED stop
    /\ TimerOnly

(* _run_timer_thread(), after the sleep and without another look at stop.  *)
(* The sends may fail.                                                     *)
TimerChecks ==
    /\ timer = "sleep" /\ timer' = "loop"
    /\ IF idle > Timeout
       THEN stop' = TRUE /\ Quiet
       ELSE sent' \in {[i \in 1..k |-> "REQSYNC"] : k \in {0, Burst}} /\ UNCHANGED stop
    /\ TimerOnly

Tick ==
    /\ main \in {"wait", "loop"} /\ idle < IdleBound
    /\ idle' = idle + 1
    /\ Quiet /\ UNCHANGED <<main, tries, event, loop_c, thread_vars, res_vars, ctl_vars,
                            env_vars>>

-----------------------------------------------------------------------------
(* destroy_epoll() and destroy_state().                                    *)

TimerIsOnline == timer \in {"loop", "sleep"}
IsOnline(w) == worker[w] \in {"online", "wait", "loop", "leave"}

MainWaits == Quiet /\ UNCHANGED <<tries, event, thread_vars, time_vars, env_vars>>

(* A slip: the timer is told to end and not waited for.                    *)
KillTimer_NoWait ==
    /\ main = "kill_timer"
    /\ main' = "kill_workers"
    /\ IF TimerIsOnline THEN signal_intr_handler ELSE UNCHANGED ctl_vars
    /\ MainWaits /\ UNCHANGED res_vars

(* wait_for_threads_to_exit(): a thread that is not online is not waited   *)
(* for.                                                                    *)
KillTimer ==
    /\ main = "kill_timer"
    /\ IF TimerIsOnline
       THEN main' = "wait_timer" /\ signal_intr_handler
       ELSE main' = "kill_workers" /\ UNCHANGED ctl_vars
    /\ MainWaits /\ UNCHANGED res_vars

WaitTimer ==
    /\ main = "wait_timer" /\ ~TimerIsOnline
    /\ main' = "kill_workers"
    /\ MainWaits /\ UNCHANGED <<res_vars, ctl_vars>>

KillWorkers ==
    /\ main = "kill_workers"
    /\ main' = IF n_on_threads = 0 THEN "close_fds" ELSE "wait_workers"
    /\ IF n_on_threads # 0 /\ \E w \in Worker : IsOnline(w)
       THEN signal_intr_handler
       ELSE UNCHANGED ctl_vars
    /\ MainWaits /\ UNCHANGED res_vars

WaitWorkers ==
    /\ main = "wait_workers" /\ n_on_threads = 0
    /\ main' = "close_fds"
    /\ MainWaits /\ UNCHANGED <<res_vars, ctl_vars>>

(* Both waits give up after 1000 rounds.                                   *)
GiveUp ==
    /\ \/ main = "wait_timer" /\ TimerIsOnline
       \/ main = "wait_workers" /\ n_on_threads # 0
    /\ main' = "out" /\ threads_wont_exit' = TRUE
    /\ MainWaits /\ UNCHANGED <<ctl_vars, open, field, iface, need_remove_iff>>

(* close_epoll_fds() and the freeing of the threads' buffers.              *)
CloseFds ==
    /\ main = "close_fds"
    /\ main' = "out"
    /\ open' = open \ {"epoll"}
    /\ MainWaits /\ UNCHANGED <<ctl_vars, field, iface, need_remove_iff, threads_wont_exit>>

(* The end of teavpn2_client_udp_run(), with destroy_state(): CLOSE for    *)
(* the server, the interface goes down, the socket is closed.  The TUN     *)
(* queues are not.                                                         *)
Out ==
    /\ main = "out"
    /\ main' = "exited"
    /\ sent' \in IF "udp" \in field THEN {<<"CLOSE">>, <<>>} ELSE {<<>>}
    /\ iface' \in IF need_remove_iff THEN {"down", "partial"} ELSE {iface}
    /\ open' = IF threads_wont_exit THEN open ELSE open \ {"udp"}
    /\ UNCHANGED <<tries, event, field, need_remove_iff, threads_wont_exit, thread_vars,
                   time_vars, ctl_vars, env_vars>>

(* The button, labelled "Connect" again: run_teavpn2() with a new state.   *)
Reconnect ==
    /\ main = "exited" /\ event \in {"error", "disconnect"}
    /\ timer \in {"none", "gone"} /\ \A w \in Worker : worker[w] \in {"none", "gone"}
    /\ runs < MaxRuns /\ runs' = runs + 1
    /\ main' = "init_state"
    /\ timer' = "none" /\ worker' = [w \in Worker |-> "none"] /\ n_on_threads' = 0
    /\ stop' = FALSE /\ sig' = FALSE
    /\ tries' = 0 /\ idle' = 0 /\ loop_c' = 0
    /\ field' = {} /\ need_remove_iff' = FALSE /\ threads_wont_exit' = FALSE
    /\ event' = "none"
    /\ Quiet /\ UNCHANGED <<released, open, iface, signals>>

-----------------------------------------------------------------------------
Thread == Worker \cup {"main"}

MainStep == \/ InitStep \/ CloseStale \/ SendHandshake \/ WaitHandshake
            \/ SendAuth \/ WaitAuth \/ InitEpoll \/ ClearStop
            \/ SpawnTimer \/ SpawnWorker \/ MainOnline \/ MainReleases
            \/ LoopEnds("main") \/ MainLeaves
            \/ KillTimer \/ WaitTimer \/ KillWorkers \/ WaitWorkers \/ GiveUp
            \/ CloseFds \/ Out

WorkerRuns(w) == \/ WorkerOnline(w) \/ WorkerCounts(w) \/ WorkerReleased(w)
                 \/ LoopEnds(w) \/ WorkerLeaves(w) \/ WorkerUncounts(w)

TimerStep == TimerOnline \/ TimerSleeps \/ TimerEnds \/ TimerChecks

Packets == \/ RecvData \/ RecvSync \/ RecvReqsync \/ RecvClose
           \/ \E t \in Thread : ForwardTun(t) \/ WaitFails(t)

Next == \/ MainStep \/ TimerStep
        \/ \E w \in Worker : WorkerRuns(w)
        \/ Packets \/ Tick
        \/ Signal \/ teavpn2_client_udp_stop \/ Reconnect

(* Threads keep running, and poll() returns after its timeout.  Packets,   *)
(* the clock, signals and the user owe nothing.                            *)
Spec == /\ Init /\ [][Next]_vars
        /\ WF_vars(MainStep)
        /\ WF_vars(TimerStep)
        /\ \A w \in Worker : WF_vars(WorkerRuns(w))

-----------------------------------------------------------------------------
Connecting == {"init_state", "init_socket", "init_iface", "close_stale", "handshake",
               "handshake_wait", "auth", "auth_wait", "init_epoll", "clear_stop"}

(* However the client ends, even with threads that would not, the          *)
(* interface it brought up does not stay up.                               *)
InterfaceComesDown == main \in {"exited", "no_state"} => iface # "up"

(* A run that ends has told the front end, with a word that gives the      *)
(* Connect button back, with two exceptions: there was no memory for its   *)
(* state, or the event loop could not be set up.                           *)
EndIsAnnounced ==
    main \in {"exited", "no_state"} =>
        \/ event \in {"error", "disconnect"}
        \/ main = "no_state" /\ event = "none"
        \/ main = "exited" /\ event = "none" /\ need_remove_iff

(* In a first run whose threads all came up nothing follows the final      *)
(* CLOSE: no timer and no worker makes the server think the client is      *)
(* still there.                                                            *)
SilentAfterClose ==
    [][main = "exited" /\ main' = "exited" /\ runs = 1 /\ released /\ ~threads_wont_exit
         => sent' = <<>>]_vars

(* However the server answers, or does not, connecting comes to an end.    *)
ConnectEnds == main = "handshake" ~> main \in {"loop", "exited"}

(* Whoever asks the running client to stop, it ends.                       *)
StopEndsClient == stop /\ main \notin Connecting ~> main = "exited"

(* A client that got no sign of life for longer than the timeout ends,     *)
(* unless one arrives after all.                                           *)
SilenceEndsClient == main = "loop" /\ idle > Timeout ~> main = "exited" \/ idle <= Timeout
=============================================================================
