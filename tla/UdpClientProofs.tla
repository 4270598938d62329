-------------------------- MODULE UdpClientProofs --------------------------
(***************************************************************************)
(* Proofs about UdpClient, for every number of workers, tries, signals and *)
(* runs and for every timeout.                                             *)
(***************************************************************************)
EXTENDS UdpClient, FiniteSetTheorems, TLAPS

-----------------------------------------------------------------------------
(* The invariants.                                                         *)

(* The main thread gets from one of these sets to the next, and may leave  *)
(* the first one for "out".                                                *)
Starting == Connecting \cup {"spawn_timer", "spawn_worker", "wait"}
Leaving  == {"leave", "kill_timer", "wait_timer", "kill_workers", "wait_workers",
             "close_fds", "out", "exited"}
Stopping == Leaving \ {"leave"}
TimerDone == Stopping \ {"kill_timer", "wait_timer"}
AllDone   == {"close_fds", "out", "exited"}

(* An interface that is up is one the end of the run takes down.           *)
IfaceInv == iface = "up" => /\ need_remove_iff
                             /\ main \notin {"init_state", "exited", "no_state"}

(* "connect" is told only by the main thread on its way into the loop, the *)
(* way out of which is by "disconnect"; who has told nothing has brought   *)
(* the interface up.                                                       *)
EventInv == /\ event \in {"none", "connect", "error", "disconnect"}
            /\ main \notin {"loop", "leave"} => event # "connect"
            /\ main \in Stopping \cup {"init_epoll", "clear_stop", "spawn_timer",
                                       "spawn_worker", "wait"} =>
                   (event = "none" => need_remove_iff)

WorkerPlace == {"none", "spawned", "online", "wait", "loop", "leave", "offline", "gone"}

Typed == /\ main \in Starting \cup {"loop"} \cup Leaving \cup {"no_state"}
         /\ timer \in {"none", "spawned", "loop", "sleep", "gone"}
         /\ worker \in [Worker -> WorkerPlace]
         /\ n_on_threads \in Nat /\ runs \in Nat \ {0}
         /\ released \in BOOLEAN /\ stop \in BOOLEAN /\ threads_wont_exit \in BOOLEAN

(* The threads between their increment and decrement of n_on_threads.      *)
Counted == {w \in Worker : worker[w] \in {"wait", "loop", "leave", "offline"}}
MainCounted == IF main \in {"wait", "loop", "leave"} THEN 1 ELSE 0

CountInv == n_on_threads = Cardinality(Counted) + MainCounted

(* In a run whose threads came up: nobody leaves the loop without stop, no *)
(* timer sleeps once it was waited for, and no worker is counted once they *)
(* were.                                                                   *)
FirstRunInv ==
    runs = 1 =>
        /\ main \in Starting => ~released
        /\ released =>
              /\ \A w \in Worker : worker[w] \notin {"none", "spawned", "online"}
              /\ main \in Leaving => stop
              /\ ~threads_wont_exit =>
                    /\ main \in TimerDone => timer # "sleep"
                    /\ main \in AllDone => n_on_threads = 0

QuietInv == Typed /\ CountInv /\ FirstRunInv

-----------------------------------------------------------------------------
(* What the steps do, in groups.                                           *)

ConnectStep == \/ InitStep \/ CloseStale \/ SendHandshake \/ WaitHandshake \/ SendAuth
               \/ WaitAuth \/ InitEpoll \/ ClearStop

(* The start of the threads.                                               *)
SpawnStep == SpawnTimer \/ SpawnWorker \/ MainOnline

(* The wait for the threads.                                               *)
WaitStep == KillTimer \/ WaitTimer \/ KillWorkers \/ WaitWorkers \/ GiveUp \/ CloseFds

WorkerStarts(w) == WorkerOnline(w) \/ WorkerCounts(w) \/ WorkerReleased(w)
WorkerEnds(w)   == WorkerLeaves(w) \/ WorkerUncounts(w)

LoopStep(t) == LoopEnds(t) \/ ForwardTun(t) \/ WaitFails(t)

RecvStep == RecvData \/ RecvSync \/ RecvReqsync \/ RecvClose

LEMMA Groups ==
    Next <=> \/ ConnectStep \/ SpawnStep \/ MainReleases \/ MainLeaves \/ WaitStep \/ Out
             \/ TimerStep \/ RecvStep \/ Tick
             \/ \E w \in Worker : WorkerStarts(w) \/ WorkerEnds(w)
             \/ \E t \in Thread : LoopStep(t)
             \/ Signal \/ teavpn2_client_udp_stop \/ Reconnect
<1>1. Thread = Worker \cup {"main"}
    BY DEF Thread
<1> QED
    BY <1>1 DEF Next, MainStep, ConnectStep, SpawnStep, WaitStep, WorkerRuns, WorkerStarts,
           WorkerEnds, LoopStep, RecvStep, Packets

(* Connecting ends in the event loop, or with an error, or without a word  *)
(* if there is no state or the event loop cannot be set up.                *)
LEMMA ConnectEffect ==
    ASSUME ConnectStep
    PROVE  /\ main \in Connecting
           /\ main' \in (Connecting \ {"init_state"})
                          \cup {"spawn_timer", "kill_timer", "out", "no_state"}
           /\ UNCHANGED <<timer, worker, n_on_threads, released, threads_wont_exit, runs>>
           /\ stop' \in {stop, FALSE}
           /\ main' = "no_state" => main = "init_state" /\ UNCHANGED <<iface, event>>
           /\ \/ main' = "out" /\ event' = "error"
              \/ main' = "no_state"
              \/ main' \in Connecting \ {"init_epoll", "clear_stop"} /\ event' = event
              \/ main = "auth_wait" /\ main' = "init_epoll" /\ need_remove_iff' = TRUE /\ event' = event
              \/ /\ main \in {"init_epoll", "clear_stop"}
                 /\ UNCHANGED <<need_remove_iff, event>>
           /\ \/ iface' = "up" /\ need_remove_iff' = TRUE
              \/ iface' = "partial" /\ need_remove_iff' = need_remove_iff
              \/ iface' = iface /\ need_remove_iff' = need_remove_iff
<1> USE DEF Connecting, Quiet, Alone, SameResources, Fails, thread_vars, time_vars, ctl_vars,
        env_vars, res_vars
<1>1. CASE InitStep
    BY <1>1 DEF InitStep, Initialises, NoState
<1>2. CASE CloseStale
    BY <1>2 DEF CloseStale
<1>3. CASE SendHandshake
    BY <1>3 DEF SendHandshake
<1>4. CASE WaitHandshake
    BY <1>4 DEF WaitHandshake, HandshakeResult
<1>5. CASE SendAuth
    BY <1>5 DEF SendAuth
<1>6. CASE WaitAuth
    BY <1>6 DEF WaitAuth, AuthResult
<1>7. CASE InitEpoll
    BY <1>7 DEF InitEpoll
<1>8. CASE ClearStop
    BY <1>8 DEF ClearStop
<1> QED
    BY <1>1, <1>2, <1>3, <1>4, <1>5, <1>6, <1>7, <1>8 DEF ConnectStep

(* The steps after that do not touch the interface until destroy_state(),  *)
(* and the main thread does not exit before.                               *)
LEMMA LaterEffect ==
    ASSUME \/ SpawnStep \/ MainReleases \/ MainLeaves \/ WaitStep \/ TimerStep \/ RecvStep \/ Tick
           \/ \E w \in Worker : WorkerStarts(w) \/ WorkerEnds(w)
           \/ \E t \in Thread : LoopStep(t)
           \/ Signal \/ teavpn2_client_udp_stop
    PROVE  /\ UNCHANGED <<iface, need_remove_iff, runs>>
           /\ main' = main \/ main' \in {"spawn_worker", "wait", "loop"} \cup (Leaving \ {"exited"})
<1> USE DEF Leaving, res_vars, env_vars, ctl_vars
<1>1. CASE SpawnStep
    BY <1>1 DEF SpawnStep, SpawnTimer, SpawnWorker, MainOnline, MainOnly
<1>2. CASE MainReleases \/ MainLeaves
    BY <1>2 DEF MainReleases, MainLeaves, MainOnly, EnterLoop
<1>3. CASE WaitStep
    BY <1>3 DEF WaitStep, KillTimer, WaitTimer, KillWorkers, WaitWorkers, GiveUp, CloseFds,
                MainWaits
<1>4. CASE TimerStep
    BY <1>4 DEF TimerStep, TimerOnline, TimerSleeps, TimerEnds, TimerChecks, TimerOnly
<1>5. CASE RecvStep
    BY <1>5 DEF RecvStep, RecvData, RecvSync, RecvReqsync, RecvClose, Handled, Breaks, LoopOnly
<1>6. CASE \E w \in Worker : WorkerStarts(w) \/ WorkerEnds(w)
    BY <1>6 DEF WorkerStarts, WorkerEnds, WorkerOnline, WorkerCounts, WorkerReleased,
                WorkerLeaves, WorkerUncounts, WorkerStep, MainOnly
<1>7. CASE \E t \in Thread : LoopStep(t)
    BY <1>7 DEF LoopStep, LoopEnds, ForwardTun, WaitFails, Handled, Breaks, LoopOnly
<1>8. CASE Tick \/ Signal \/ teavpn2_client_udp_stop
    BY <1>8 DEF Tick, Signal, teavpn2_client_udp_stop
<1> QED
    BY <1>1, <1>2, <1>3, <1>4, <1>5, <1>6, <1>7, <1>8

-----------------------------------------------------------------------------
(* The interface.                                                          *)

LEMMA IfaceStep == IfaceInv /\ [Next]_vars => IfaceInv'
<1> SUFFICES ASSUME IfaceInv, [Next]_vars PROVE IfaceInv'
    OBVIOUS
<1>1. CASE ConnectStep
    <2>1. main' \notin {"exited", "init_state"}
        BY <1>1, ConnectEffect DEF Connecting
    <2>2. CASE main' = "no_state"
        BY <1>1, <2>2, ConnectEffect DEF IfaceInv
    <2>3. CASE main' # "no_state"
        BY <1>1, <2>1, <2>3, ConnectEffect DEF IfaceInv
    <2> QED
        BY <2>2, <2>3
<1>2. CASE Out
    BY <1>2 DEF Out, IfaceInv
<1>3. CASE Reconnect
    BY <1>3 DEF Reconnect, IfaceInv
<1>4. ASSUME UNCHANGED <<iface, need_remove_iff>>,
             main' = main \/ main' \notin {"init_state", "exited", "no_state"}
      PROVE  IfaceInv'
    BY <1>4 DEF IfaceInv
<1>5. CASE UNCHANGED vars
    BY <1>4, <1>5 DEF vars, res_vars
<1> QED
    BY <1>1, <1>2, <1>3, <1>4, <1>5, LaterEffect, Groups DEF Leaving

(* However the client ends, even with threads that would not, the          *)
(* interface it brought up does not stay up, in any number of runs.        *)
THEOREM InterfaceDown == Spec => []InterfaceComesDown
<1>1. Init => IfaceInv
    BY DEF Init, IfaceInv
<1>2. IfaceInv => InterfaceComesDown
    BY DEF IfaceInv, InterfaceComesDown
<1> QED
    BY <1>1, <1>2, IfaceStep, PTL DEF Spec

-----------------------------------------------------------------------------
(* The events told to the front end.                                       *)

LEMMA EventEffect ==
    ASSUME \/ SpawnStep \/ MainReleases \/ MainLeaves \/ WaitStep \/ TimerStep \/ RecvStep \/ Tick
           \/ \E w \in Worker : WorkerStarts(w) \/ WorkerEnds(w)
           \/ \E t \in Thread : LoopStep(t)
           \/ Signal \/ teavpn2_client_udp_stop
    PROVE  \/ main = "wait" /\ main' \in {"loop", "leave"} /\ event' \in {"connect", event}
           \/ main = "leave" /\ main' = "kill_timer" /\ event' = "disconnect"
           \/ main = "loop" /\ main' = "leave" /\ event' \in {event, "error"}
           \/ main' = main /\ event' \in {event, "error", "disconnect"}
           \/ /\ main \in {"spawn_timer", "spawn_worker"} \cup Stopping
              /\ main' \in {"spawn_worker", "wait"} \cup Stopping
              /\ event' = event
<1> USE DEF Leaving, Stopping
<1>1. CASE SpawnStep
    BY <1>1 DEF SpawnStep, SpawnTimer, SpawnWorker, MainOnline
<1>2. CASE MainReleases \/ MainLeaves
    BY <1>2 DEF MainReleases, MainLeaves, EnterLoop
<1>3. CASE WaitStep
    BY <1>3 DEF WaitStep, KillTimer, WaitTimer, KillWorkers, WaitWorkers, GiveUp, CloseFds,
                MainWaits
<1>4. CASE TimerStep
    BY <1>4 DEF TimerStep, TimerOnline, TimerSleeps, TimerEnds, TimerChecks, TimerOnly
<1>5. CASE RecvStep
    BY <1>5 DEF RecvStep, RecvData, RecvSync, RecvReqsync, RecvClose, Handled, Breaks, Looping
<1>6. CASE \E w \in Worker : WorkerStarts(w) \/ WorkerEnds(w)
    BY <1>6 DEF WorkerStarts, WorkerEnds, WorkerOnline, WorkerCounts, WorkerReleased,
                WorkerLeaves, WorkerUncounts, WorkerStep
<1>7. CASE \E t \in Thread : LoopStep(t)
    BY <1>7 DEF LoopStep, LoopEnds, ForwardTun, WaitFails, Handled, Breaks, Looping
<1>8. CASE Tick \/ Signal \/ teavpn2_client_udp_stop
    BY <1>8 DEF Tick, Signal, teavpn2_client_udp_stop
<1> QED
    BY <1>1, <1>2, <1>3, <1>4, <1>5, <1>6, <1>7, <1>8

LEMMA EventStep == EventInv /\ [Next]_vars => EventInv'
<1> SUFFICES ASSUME EventInv, [Next]_vars PROVE EventInv'
    OBVIOUS
<1> USE DEF Leaving, Stopping
<1>1. CASE ConnectStep
    BY <1>1, ConnectEffect DEF EventInv, Connecting
<1>2. CASE Out
    BY <1>2 DEF Out, EventInv
<1>3. CASE Reconnect
    BY <1>3 DEF Reconnect, EventInv
<1>4. CASE \/ SpawnStep \/ MainReleases \/ MainLeaves \/ WaitStep \/ TimerStep \/ RecvStep
           \/ Tick \/ \E w \in Worker : WorkerStarts(w) \/ WorkerEnds(w)
           \/ \E t \in Thread : LoopStep(t)
           \/ Signal \/ teavpn2_client_udp_stop
    <2>1. need_remove_iff' = need_remove_iff
        BY <1>4, LaterEffect
    <2>2. \/ main = "wait" /\ main' \in {"loop", "leave"} /\ event' \in {"connect", event}
          \/ main = "leave" /\ main' = "kill_timer" /\ event' = "disconnect"
          \/ main = "loop" /\ main' = "leave" /\ event' \in {event, "error"}
          \/ main' = main /\ event' \in {event, "error", "disconnect"}
          \/ /\ main \in {"spawn_timer", "spawn_worker"} \cup Stopping
             /\ main' \in {"spawn_worker", "wait"} \cup Stopping
             /\ event' = event
        BY <1>4, EventEffect
    <2> QED
        BY <2>1, <2>2 DEF EventInv
<1>5. CASE UNCHANGED vars
    BY <1>5 DEF vars, res_vars, EventInv
<1> QED
    BY <1>1, <1>2, <1>3, <1>4, <1>5, Groups

(* A run that ends has told the front end with "error" or "disconnect",    *)
(* unless there was no memory for its state or the event loop could not be *)
(* set up: no callback of a thread that is still running takes the button  *)
(* back to "Disconnect".                                                   *)
THEOREM EndAnnounced == Spec => []EndIsAnnounced
<1>1. Init => EventInv
    BY DEF Init, EventInv, Stopping, Leaving
<1>2. EventInv => EndIsAnnounced
    BY DEF EventInv, EndIsAnnounced, Stopping, Leaving
<1> QED
    BY <1>1, <1>2, EventStep, PTL DEF Spec

-----------------------------------------------------------------------------
(* The count of the threads.                                               *)

LEMMA CountedFinite == IsFiniteSet(Counted) /\ Cardinality(Counted) \in Nat
<1>1. Counted \subseteq Worker
    BY DEF Counted
<1>2. IsFiniteSet(Worker)
    BY ClientAssumption
<1>3. IsFiniteSet(Counted)
    BY <1>1, <1>2, FS_Subset
<1> QED
    BY <1>3, FS_CardinalityType

(* When as many workers as there are have counted themselves, all have.    *)
LEMMA AllCounted == Cardinality(Counted) = Cardinality(Worker) => Counted = Worker
<1>1. Counted \subseteq Worker /\ IsFiniteSet(Worker)
    BY ClientAssumption DEF Counted
<1> QED
    BY <1>1, FS_Subset

LEMMA NoneCounted == Cardinality(Counted) = 0 => Counted = {}
BY CountedFinite, FS_EmptySet

(* What a pass through the loop does to the threads.                       *)
LEMMA LoopEffect ==
    ASSUME RecvStep \/ \E t \in Thread : LoopStep(t), stop \in BOOLEAN
    PROVE  /\ UNCHANGED <<timer, n_on_threads, released, runs, threads_wont_exit>>
           /\ stop' \in BOOLEAN /\ (stop => stop')
           /\ \/ UNCHANGED <<main, worker>>
              \/ main = "loop" /\ main' = "leave" /\ worker' = worker /\ stop'
              \/ /\ main' = main
                 /\ \E w \in Worker : /\ worker[w] = "loop"
                                      /\ worker' = [worker EXCEPT ![w] = "leave"]
<1> USE DEF res_vars, env_vars, LoopOnly
<1>1. CASE RecvStep
    BY <1>1 DEF RecvStep, RecvData, RecvSync, RecvReqsync, RecvClose, Handled, Breaks, Looping
<1>2. ASSUME NEW t \in Thread, LoopStep(t)
      PROVE  /\ UNCHANGED <<timer, n_on_threads, released, runs, threads_wont_exit>>
             /\ stop' \in BOOLEAN /\ (stop => stop')
             /\ UNCHANGED <<main, worker>> \/ (Looping(t) /\ Breaks(t) /\ stop')
    <2>1. CASE LoopEnds(t)
        BY <2>1 DEF LoopEnds
    <2>2. CASE ForwardTun(t) \/ WaitFails(t)
        <3>1. Looping(t) /\ LoopOnly /\ \E ok \in BOOLEAN : Handled(t, ok)
            BY <2>2 DEF ForwardTun, WaitFails
        <3>2. UNCHANGED <<main, worker, stop>> \/ (Breaks(t) /\ stop' = TRUE)
            BY <3>1 DEF Handled
        <3>3. UNCHANGED <<timer, n_on_threads, released, runs, threads_wont_exit>>
            BY <3>1
        <3>4. CASE UNCHANGED <<main, worker, stop>>
            BY <3>3, <3>4
        <3>5. CASE Breaks(t) /\ stop' = TRUE
            <4>1. stop' /\ stop' \in BOOLEAN
                BY <3>5
            <4> QED
                BY <3>1, <3>3, <3>5, <4>1
        <3> QED
            BY <3>2, <3>4, <3>5
    <2> QED
        BY <1>2, <2>1, <2>2 DEF LoopStep
<1>3. ASSUME NEW t \in Thread, Looping(t), Breaks(t)
      PROVE  \/ main = "loop" /\ main' = "leave" /\ worker' = worker
             \/ /\ main' = main
                /\ \E w \in Worker : /\ worker[w] = "loop"
                                     /\ worker' = [worker EXCEPT ![w] = "leave"]
    BY <1>3 DEF Looping, Breaks, Thread
<1> QED
    BY <1>1, <1>2, <1>3

(* What the wait for the threads does.                                     *)
LEMMA WaitEffect ==
    ASSUME WaitStep, stop \in BOOLEAN
    PROVE  /\ UNCHANGED <<timer, worker, n_on_threads, released, runs>>
           /\ stop' \in BOOLEAN /\ (stop => stop')
           /\ main \in Stopping \ {"exited"} /\ main' \in Stopping \ {"exited"}
           /\ \/ threads_wont_exit' = TRUE
              \/ /\ threads_wont_exit' = threads_wont_exit
                 /\ main' \in TimerDone => main \in TimerDone \/ timer # "sleep"
                 /\ main' \in AllDone => main \in AllDone \/ n_on_threads = 0
<1> USE DEF Leaving, Stopping, TimerDone, AllDone, res_vars, env_vars, thread_vars, ctl_vars,
        MainWaits, signal_intr_handler, TimerIsOnline
<1>1. CASE KillTimer \/ WaitTimer
    BY <1>1 DEF KillTimer, WaitTimer
<1>2. CASE KillWorkers \/ WaitWorkers
    BY <1>2 DEF KillWorkers, WaitWorkers
<1>3. CASE GiveUp \/ CloseFds
    BY <1>3 DEF GiveUp, CloseFds
<1> QED
    BY <1>1, <1>2, <1>3 DEF WaitStep

LEMMA TimerEffect ==
    ASSUME TimerStep, stop \in BOOLEAN
    PROVE  /\ UNCHANGED <<main, worker, n_on_threads, released, runs, threads_wont_exit>>
           /\ stop' \in BOOLEAN /\ (stop => stop')
           /\ timer' \in {"loop", "sleep", "gone"}
           /\ timer' = "sleep" => ~stop
BY DEF TimerStep, TimerOnline, TimerSleeps, TimerEnds, TimerChecks, TimerOnly, res_vars, env_vars

-----------------------------------------------------------------------------
(* Silence after the end of the run.                                       *)

LEMMA QuietStep == QuietInv /\ [Next]_vars => QuietInv'
<1> SUFFICES ASSUME QuietInv, [Next]_vars PROVE QuietInv'
    OBVIOUS
<1> USE DEF Starting, Connecting, Leaving, Stopping, TimerDone, AllDone
<1>0. /\ main \in Starting \cup {"loop"} \cup Leaving \cup {"no_state"}
      /\ timer \in {"none", "spawned", "loop", "sleep", "gone"}
      /\ worker \in [Worker -> WorkerPlace]
      /\ n_on_threads \in Nat /\ runs \in Nat \ {0}
      /\ released \in BOOLEAN /\ stop \in BOOLEAN /\ threads_wont_exit \in BOOLEAN
    BY DEF QuietInv, Typed
<1>a. n_on_threads = Cardinality(Counted) + MainCounted
    BY DEF QuietInv, CountInv
<1>b. Cardinality(Counted) \in Nat /\ IsFiniteSet(Counted)
    BY CountedFinite
<1>c. ASSUME runs = 1
      PROVE  /\ main \in Starting => ~released
             /\ released =>
                  /\ \A w \in Worker : worker[w] \notin {"none", "spawned", "online"}
                  /\ main \in Leaving => stop
                  /\ ~threads_wont_exit =>
                        /\ main \in TimerDone => timer # "sleep"
                        /\ main \in AllDone => n_on_threads = 0
    BY <1>c DEF QuietInv, FirstRunInv
(* Steps that count no thread.                                             *)
<1>1. ASSUME UNCHANGED <<worker, n_on_threads>>,
             main \in {"wait", "loop", "leave"} <=> main' \in {"wait", "loop", "leave"}
      PROVE  CountInv'
    <2>1. Counted' = Counted /\ MainCounted' = MainCounted
        BY <1>1 DEF Counted, MainCounted
    <2> QED
        BY <1>1, <1>a, <2>1 DEF CountInv
<1>2. CASE ConnectStep
    <2>1. /\ main \in Connecting
          /\ main' \in Connecting \cup {"spawn_timer", "kill_timer", "out", "no_state"}
          /\ UNCHANGED <<timer, worker, n_on_threads, released, threads_wont_exit, runs>>
          /\ stop' \in {stop, FALSE}
        BY <1>2, ConnectEffect
    <2>2. CountInv'
        BY <1>1, <2>1
    <2>3. stop' \in BOOLEAN
        BY <1>0, <2>1
    <2>4. Typed'
        BY <1>0, <2>1, <2>3 DEF Typed
    <2>5. FirstRunInv'
        BY <1>c, <2>1 DEF FirstRunInv
    <2> QED
        BY <2>2, <2>4, <2>5 DEF QuietInv
<1>3. CASE SpawnTimer
    <2>1. /\ main = "spawn_timer" /\ main' \in {"spawn_worker", "kill_timer"}
          /\ timer' \in {timer, "spawned"}
          /\ UNCHANGED <<worker, n_on_threads, released, stop, threads_wont_exit, runs>>
        BY <1>3 DEF SpawnTimer, MainOnly, ctl_vars, res_vars, env_vars
    <2>2. CountInv'
        BY <1>1, <2>1
    <2>3. Typed'
        BY <1>0, <2>1 DEF Typed
    <2>4. FirstRunInv'
        BY <1>c, <2>1 DEF FirstRunInv
    <2> QED
        BY <2>2, <2>3, <2>4 DEF QuietInv
<1>4. CASE SpawnWorker
    <2>1. PICK w \in Worker :
              /\ worker[w] = "none"
              /\ worker' \in {worker, [worker EXCEPT ![w] = "spawned"]}
        BY <1>4 DEF SpawnWorker
    <2>2. /\ main = "spawn_worker" /\ main' \in {"spawn_worker", "kill_timer"}
          /\ UNCHANGED <<timer, n_on_threads, released, stop, threads_wont_exit, runs>>
        BY <1>4 DEF SpawnWorker, MainOnly, ctl_vars, res_vars, env_vars
    <2>3. Counted' = Counted /\ MainCounted' = MainCounted
        BY <1>0, <2>1, <2>2 DEF Counted, MainCounted
    <2>4. worker' \in [Worker -> WorkerPlace]
        BY <1>0, <2>1 DEF WorkerPlace
    <2>5. Typed'
        BY <1>0, <2>2, <2>4 DEF Typed
    <2>6. FirstRunInv'
        BY <1>c, <2>2 DEF FirstRunInv
    <2> QED
        BY <1>a, <2>2, <2>3, <2>5, <2>6 DEF QuietInv, CountInv
(* The main thread comes and goes.                                         *)
<1>5. CASE MainOnline \/ MainLeaves
    <2>1. /\ UNCHANGED <<timer, worker, released, stop, threads_wont_exit, runs>>
          /\ \/ main = "spawn_worker" /\ main' = "wait" /\ n_on_threads' = n_on_threads + 1
             \/ main = "leave" /\ main' = "kill_timer" /\ n_on_threads' = n_on_threads - 1
        BY <1>5 DEF MainOnline, MainLeaves, MainOnly, ctl_vars, res_vars, env_vars
    <2>2. Counted' = Counted
        BY <2>1 DEF Counted
    <2>3. n_on_threads' = Cardinality(Counted) + MainCounted' /\ n_on_threads' \in Nat
        BY <1>0, <1>a, <1>b, <2>1 DEF MainCounted
    <2>4. Typed'
        BY <1>0, <2>1, <2>3 DEF Typed
    <2>5. FirstRunInv'
        BY <1>c, <2>1 DEF FirstRunInv
    <2> QED
        BY <2>2, <2>3, <2>4, <2>5 DEF QuietInv, CountInv
<1>6. CASE MainReleases
    <2>1. /\ UNCHANGED <<timer, worker, n_on_threads, stop, threads_wont_exit, runs>>
          /\ main = "wait" /\ main' = IF stop THEN "leave" ELSE "loop"
          /\ \/ n_on_threads = Cardinality(Worker) + 1 /\ released' = TRUE
             \/ released' = released
        BY <1>6 DEF MainReleases, EnterLoop, MainOnly, ctl_vars, res_vars, env_vars
    <2>2. CountInv'
        BY <1>1, <2>1
    <2>3. released' \in BOOLEAN /\ main' \in {"leave", "loop"}
        BY <1>0, <2>1
    <2>4. Typed'
        BY <1>0, <2>1, <2>3 DEF Typed
    <2>5. ASSUME n_on_threads = Cardinality(Worker) + 1, NEW w \in Worker
          PROVE  worker[w] \notin {"none", "spawned", "online"}
        <3>1. Cardinality(Worker) \in Nat
            BY ClientAssumption, FS_CardinalityType
        <3>2. MainCounted = 1
            BY <2>1 DEF MainCounted
        <3>3. Cardinality(Counted) = Cardinality(Worker)
            BY <1>a, <1>b, <2>5, <3>1, <3>2
        <3> QED
            BY <2>5, <3>3, AllCounted DEF Counted
    <2>6. ASSUME runs = 1, released'
          PROVE  \A w \in Worker : worker[w] \notin {"none", "spawned", "online"}
        BY <1>c, <2>1, <2>5, <2>6
    <2>7. main' \in Leaving => main' = "leave" /\ stop
        BY <2>1
    <2>8. FirstRunInv'
        BY <2>1, <2>3, <2>6, <2>7 DEF FirstRunInv
    <2> QED
        BY <2>2, <2>4, <2>8 DEF QuietInv
<1>7. CASE WaitStep
    <2>1. /\ UNCHANGED <<timer, worker, n_on_threads, released, runs>>
          /\ stop' \in BOOLEAN /\ (stop => stop')
          /\ main \in Stopping \ {"exited"} /\ main' \in Stopping \ {"exited"}
          /\ \/ threads_wont_exit' = TRUE
             \/ /\ threads_wont_exit' = threads_wont_exit
                /\ main' \in TimerDone => main \in TimerDone \/ timer # "sleep"
                /\ main' \in AllDone => main \in AllDone \/ n_on_threads = 0
        BY <1>0, <1>7, WaitEffect
    <2>2. CountInv'
        BY <1>1, <2>1
    <2>3. threads_wont_exit' \in BOOLEAN
        BY <1>0, <2>1
    <2>4. Typed'
        BY <1>0, <2>1, <2>3 DEF Typed
    <2>5. FirstRunInv'
        BY <1>c, <2>1 DEF FirstRunInv
    <2> QED
        BY <2>2, <2>4, <2>5 DEF QuietInv
<1>8. CASE TimerStep
    <2>1. /\ UNCHANGED <<main, worker, n_on_threads, released, runs, threads_wont_exit>>
          /\ stop' \in BOOLEAN /\ (stop => stop')
          /\ timer' \in {"loop", "sleep", "gone"}
          /\ timer' = "sleep" => ~stop
        BY <1>0, <1>8, TimerEffect
    <2>2. CountInv'
        BY <1>1, <2>1
    <2>3. Typed'
        BY <1>0, <2>1 DEF Typed
    <2>4. FirstRunInv'
        BY <1>c, <2>1 DEF FirstRunInv
    <2> QED
        BY <2>2, <2>3, <2>4 DEF QuietInv
<1>9. CASE Tick \/ Signal \/ teavpn2_client_udp_stop \/ UNCHANGED vars
    <2>1. /\ UNCHANGED <<main, timer, worker, n_on_threads, released, runs, threads_wont_exit>>
          /\ stop' \in BOOLEAN /\ (stop => stop')
        BY <1>0, <1>9 DEF Tick, Signal, signal_intr_handler, teavpn2_client_udp_stop, vars,
                          thread_vars, res_vars, ctl_vars, env_vars
    <2>2. CountInv'
        BY <1>1, <2>1
    <2>3. Typed'
        BY <1>0, <2>1 DEF Typed
    <2>4. FirstRunInv'
        BY <1>c, <2>1 DEF FirstRunInv
    <2> QED
        BY <2>2, <2>3, <2>4 DEF QuietInv
<1>10. CASE Out
    <2>1. /\ main = "out" /\ main' = "exited"
          /\ UNCHANGED <<timer, worker, n_on_threads, released, runs, stop, threads_wont_exit>>
        BY <1>10 DEF Out, thread_vars, ctl_vars, env_vars
    <2>2. CountInv'
        BY <1>1, <2>1
    <2>3. Typed'
        BY <1>0, <2>1 DEF Typed
    <2>4. FirstRunInv'
        BY <1>c, <2>1 DEF FirstRunInv
    <2> QED
        BY <2>2, <2>3, <2>4 DEF QuietInv
(* Another run has no threads yet.                                         *)
<1>11. CASE Reconnect
    <2>1. /\ main' = "init_state" /\ timer' = "none" /\ worker' = [w \in Worker |-> "none"]
          /\ n_on_threads' = 0 /\ runs' = runs + 1 /\ released' = released
          /\ stop' = FALSE /\ threads_wont_exit' = FALSE
        BY <1>11 DEF Reconnect
    <2>2. Counted' = {} /\ MainCounted' = 0
        BY <2>1 DEF Counted, MainCounted
    <2>3. Cardinality({}) = 0
        BY FS_EmptySet
    <2>4. CountInv'
        BY <2>1, <2>2, <2>3 DEF CountInv
    <2>5. worker' \in [Worker -> WorkerPlace] /\ stop' \in BOOLEAN /\ threads_wont_exit' \in BOOLEAN
        BY <2>1 DEF WorkerPlace
    <2>6. Typed' /\ runs' # 1
        BY <1>0, <2>1, <2>5 DEF Typed
    <2> QED
        BY <2>4, <2>6 DEF QuietInv, FirstRunInv
(* The loops and the workers.                                              *)
<1>12. ASSUME NEW w \in Worker, NEW x \in WorkerPlace \ {"none"}, NEW y \in WorkerPlace,
              worker[w] = x, worker' = [worker EXCEPT ![w] = y],
              UNCHANGED <<main, timer, released, runs, threads_wont_exit>>,
              stop' \in BOOLEAN, stop => stop',
              y \notin {"none", "spawned", "online"} \/ x = "spawned",
              n_on_threads' \in Nat, n_on_threads' = Cardinality(Counted') + MainCounted,
              n_on_threads' # 0 => n_on_threads # 0 \/ x = "online"
       PROVE  QuietInv'
    <2>1. /\ worker' \in [Worker -> WorkerPlace] /\ worker'[w] = y
          /\ \A v \in Worker : v # w => worker'[v] = worker[v]
        BY <1>0, <1>12
    <2>2. MainCounted' = MainCounted
        BY <1>12 DEF MainCounted
    <2>3. Typed'
        BY <1>0, <1>12, <2>1 DEF Typed
    <2>4. ASSUME runs = 1, released
          PROVE  /\ \A v \in Worker : worker'[v] \notin {"none", "spawned", "online"}
                 /\ n_on_threads' # 0 => n_on_threads # 0
        BY <1>c, <1>12, <2>1, <2>4
    <2>5. FirstRunInv'
        BY <1>c, <1>12, <2>4 DEF FirstRunInv
    <2> QED
        BY <1>12, <2>2, <2>3, <2>5 DEF QuietInv, CountInv
<1>13. CASE RecvStep \/ \E t \in Thread : LoopStep(t)
    <2>1. /\ UNCHANGED <<timer, n_on_threads, released, runs, threads_wont_exit>>
          /\ stop' \in BOOLEAN /\ (stop => stop')
          /\ \/ UNCHANGED <<main, worker>>
             \/ main = "loop" /\ main' = "leave" /\ worker' = worker /\ stop'
             \/ /\ main' = main
                /\ \E w \in Worker : /\ worker[w] = "loop"
                                     /\ worker' = [worker EXCEPT ![w] = "leave"]
        BY <1>0, <1>13, LoopEffect
    <2>2. CASE \/ UNCHANGED <<main, worker>>
               \/ main = "loop" /\ main' = "leave" /\ worker' = worker /\ stop'
        <3>1. CountInv'
            BY <1>1, <2>1, <2>2
        <3>2. Typed'
            BY <1>0, <2>1, <2>2 DEF Typed
        <3>3. FirstRunInv'
            BY <1>c, <2>1, <2>2 DEF FirstRunInv
        <3> QED
            BY <3>1, <3>2, <3>3 DEF QuietInv
    <2>3. ASSUME main' = main, NEW w \in Worker, worker[w] = "loop",
                 worker' = [worker EXCEPT ![w] = "leave"]
          PROVE  QuietInv'
        <3>1. Counted' = Counted
            BY <1>0, <2>3 DEF Counted
        <3> QED
            BY <1>0, <1>a, <1>12, <2>1, <2>3, <3>1 DEF WorkerPlace
    <2> QED
        BY <2>1, <2>2, <2>3
<1>14. ASSUME NEW w \in Worker, WorkerCounts(w) PROVE QuietInv'
    <2>1. /\ worker[w] = "online" /\ worker' = [worker EXCEPT ![w] = "wait"]
          /\ n_on_threads' = n_on_threads + 1
          /\ UNCHANGED <<main, timer, released, runs, stop, threads_wont_exit>>
        BY <1>14 DEF WorkerCounts, WorkerStep, MainOnly, ctl_vars, res_vars, env_vars
    <2>2. Counted' = Counted \cup {w} /\ w \notin Counted
        BY <1>0, <2>1 DEF Counted
    <2>3. Cardinality(Counted \cup {w}) = Cardinality(Counted) + 1
        BY <1>b, <2>2, FS_AddElement
    <2>4. n_on_threads' = Cardinality(Counted') + MainCounted /\ n_on_threads' \in Nat
        BY <1>0, <1>a, <1>b, <2>1, <2>2, <2>3 DEF MainCounted
    <2> QED
        BY <1>0, <1>12, <2>1, <2>4 DEF WorkerPlace
<1>15. ASSUME NEW w \in Worker, WorkerUncounts(w) PROVE QuietInv'
    <2>1. /\ worker[w] = "offline" /\ worker' = [worker EXCEPT ![w] = "gone"]
          /\ n_on_threads' = n_on_threads - 1
          /\ UNCHANGED <<main, timer, released, runs, stop, threads_wont_exit>>
        BY <1>15 DEF WorkerUncounts, WorkerStep, MainOnly, ctl_vars, res_vars, env_vars
    <2>2. Counted' = Counted \ {w} /\ w \in Counted
        BY <1>0, <2>1 DEF Counted
    <2>3. Cardinality(Counted \ {w}) = Cardinality(Counted) - 1
        BY <1>b, <2>2, FS_RemoveElement
    <2>4. Cardinality(Counted') \in Nat
        BY <1>b, <2>2, FS_RemoveElement, FS_CardinalityType
    <2>5. /\ n_on_threads' = Cardinality(Counted') + MainCounted /\ n_on_threads' \in Nat
          /\ n_on_threads # 0
        BY <1>0, <1>a, <1>b, <2>1, <2>2, <2>3, <2>4 DEF MainCounted
    <2> QED
        BY <1>0, <1>12, <2>1, <2>5 DEF WorkerPlace
<1>16. ASSUME NEW w \in Worker, WorkerOnline(w) \/ WorkerReleased(w) \/ WorkerLeaves(w)
       PROVE  QuietInv'
    <2>1. PICK x \in {"spawned", "wait", "leave"}, y \in {"online", "loop", "leave", "offline"} :
              /\ WorkerStep(w, x, y)
              /\ x = "spawned" <=> y = "online"
        BY <1>16 DEF WorkerOnline, WorkerReleased, WorkerLeaves, EnterLoop
    <2>2. UNCHANGED <<main, timer, n_on_threads, released, runs, stop, threads_wont_exit>>
        BY <1>16 DEF WorkerOnline, WorkerReleased, WorkerLeaves, WorkerStep, MainOnly, ctl_vars,
                     res_vars, env_vars
    <2>3. worker[w] = x /\ worker' = [worker EXCEPT ![w] = y]
        BY <2>1 DEF WorkerStep
    <2>4. Counted' = Counted
        BY <1>0, <2>1, <2>3 DEF Counted
    <2> QED
        BY <1>0, <1>a, <1>12, <2>1, <2>2, <2>3, <2>4 DEF WorkerPlace
<1> QED
    BY <1>2, <1>3, <1>4, <1>5, <1>6, <1>7, <1>8, <1>9, <1>10, <1>11, <1>13, <1>14, <1>15,
       <1>16, Groups DEF SpawnStep, WorkerStarts, WorkerEnds

LEMMA InitQuiet == Init => QuietInv
<1> SUFFICES ASSUME Init PROVE QuietInv
    OBVIOUS
<1>1. /\ main = "init_state" /\ timer = "none" /\ worker = [w \in Worker |-> "none"]
      /\ n_on_threads = 0 /\ runs = 1
    BY DEF Init
<1>2. released \in BOOLEAN /\ ~released /\ stop \in BOOLEAN /\ threads_wont_exit \in BOOLEAN
    BY DEF Init
<1>3. Typed
    BY <1>1, <1>2 DEF Typed, Starting, Connecting, WorkerPlace
<1>4. Counted = {} /\ MainCounted = 0
    BY <1>1 DEF Counted, MainCounted
<1>5. Cardinality({}) = 0
    BY FS_EmptySet
<1>6. CountInv
    BY <1>1, <1>4, <1>5 DEF CountInv
<1> QED
    BY <1>2, <1>3, <1>6 DEF QuietInv, FirstRunInv

(* In a first run whose threads all came up, for any number of them, the   *)
(* CLOSE that ends the run is the last packet of the client, unless it     *)
(* gave up on a thread.                                                    *)
THEOREM SilenceAfterClose == Spec => SilentAfterClose
<1>1. QuietInv /\ [Next]_vars =>
          [main = "exited" /\ main' = "exited" /\ runs = 1 /\ released /\ ~threads_wont_exit
             => sent' = <<>>]_vars
    <2> SUFFICES ASSUME QuietInv, Next, main = "exited", main' = "exited", runs = 1, released,
                        ~threads_wont_exit
                 PROVE  sent' = <<>>
        OBVIOUS
    <2> USE DEF Quiet
    <2>1. /\ timer # "sleep" /\ n_on_threads = 0
          /\ \A w \in Worker : worker[w] \notin {"none", "spawned", "online"}
        BY DEF QuietInv, FirstRunInv, TimerDone, Stopping, Leaving, AllDone
    <2>2. \A w \in Worker : worker[w] # "loop"
        <3>1. MainCounted = 0 /\ Cardinality(Counted) = n_on_threads
            BY CountedFinite DEF QuietInv, CountInv, MainCounted
        <3>2. Counted = {}
            BY <2>1, <3>1, NoneCounted
        <3> QED
            BY <3>2 DEF Counted
    <2>3. CASE TimerStep
        BY <2>1, <2>3 DEF TimerStep, TimerOnline, TimerSleeps, TimerEnds, TimerChecks
    <2>4. CASE \E w \in Worker : WorkerStarts(w) \/ WorkerEnds(w)
        BY <2>4 DEF WorkerStarts, WorkerEnds, WorkerOnline, WorkerCounts, WorkerReleased,
                    WorkerLeaves, WorkerUncounts, MainOnly
    <2>5. CASE RecvStep \/ \E t \in Thread : LoopStep(t)
        BY <2>2, <2>5 DEF RecvStep, RecvData, RecvSync, RecvReqsync, RecvClose, LoopStep,
                          LoopEnds, ForwardTun, WaitFails, Looping, Thread
    <2>6. CASE Tick \/ Signal \/ teavpn2_client_udp_stop
        BY <2>6 DEF Tick, Signal, teavpn2_client_udp_stop
    <2>7. ~ConnectStep /\ ~Out
        BY ConnectEffect DEF Connecting, Out
    <2>8. ~SpawnStep /\ ~MainReleases /\ ~MainLeaves /\ ~WaitStep
        BY DEF SpawnStep, SpawnTimer, SpawnWorker, MainOnline, MainReleases, MainLeaves,
               WaitStep, KillTimer, WaitTimer, KillWorkers, WaitWorkers, GiveUp, CloseFds
    <2>9. ~Reconnect
        BY DEF Reconnect
    <2> QED
        BY <2>3, <2>4, <2>5, <2>6, <2>7, <2>8, <2>9, Groups
<1> QED
    BY <1>1, InitQuiet, QuietStep, PTL DEF Spec, SilentAfterClose
=============================================================================
