-------------------------- MODULE ServerLifecycle --------------------------
(***************************************************************************)
(* The life of the server process: teavpn2_server_udp_run() initialises    *)
(* the state step by step, teavpn2_udp_server_epoll() spawns the zombie    *)
(* reaper and the TUN workers, the threads wait for each other, run their  *)
(* loops and are waited for, and the state is destroyed.  Signals arrive   *)
(* at any time after their handler is installed.                           *)
(*                                                                         *)
(* What the loops do is the subject of UdpServer; here they only end, by   *)
(* stop or by an error.                                                    *)
(***************************************************************************)
EXTENDS Integers, FiniteSets, SequencesExt

CONSTANTS Worker,       \* TUN worker threads (thread_num - 1 of them)
          MaxSignals    \* bound on the signals from outside

ASSUME LifecycleAssumption == IsFiniteSet(Worker) /\ MaxSignals \in Nat

VARIABLES main,         \* the next step of the main thread
          zr,           \* the zombie reaper
          worker,       \* the workers
          n_on_threads,
          released,     \* release_sub_thread
          stop,
          sig,          \* state->sig is not -1
          open,         \* open file descriptors
          field,        \* the descriptors recorded in the state
          threads_wont_exit,
          signals       \* signals sent from outside so far

vars == <<main, zr, worker, n_on_threads, released, stop, sig, open, field,
          threads_wont_exit, signals>>

thread_vars == <<zr, worker, n_on_threads, released>>
fd_vars == <<open, field>>

(* The steps of teavpn2_server_udp_run() and teavpn2_udp_server_epoll()    *)
(* that can fail.                                                          *)
InitSeq == <<"init_state", "init_socket", "init_iface", "init_session_array",
             "init_session_map", "init_session_stack", "init_ipv4_map",
             "init_epoll">>

InitSteps == ToSet(InitSeq)

AfterInit(step) == IF step = Last(InitSeq) THEN "clear_stop"
                   ELSE InitSeq[1 + CHOOSE k \in 1..Len(InitSeq) : InitSeq[k] = step]

(* The descriptors a step opens: one TUN queue and one epoll instance for  *)
(* each thread.                                                            *)
Tun   == {<<"tun", w>> : w \in Worker \cup {"main"}}
Epoll == {<<"epoll", w>> : w \in Worker \cup {"main"}}
Opens(step) == CASE step = "init_socket" -> {<<"udp", "main">>}
                 [] step = "init_iface"  -> Tun
                 [] step = "init_epoll"  -> Epoll
                 [] OTHER                -> {}

Init == /\ main = Head(InitSeq)
        /\ zr = "none"
        /\ worker = [w \in Worker |-> "none"]
        /\ n_on_threads = 0
        /\ released = FALSE
        /\ stop = FALSE /\ sig = FALSE
        /\ open = {} /\ field = {}
        /\ threads_wont_exit = FALSE
        /\ signals = 0

-----------------------------------------------------------------------------
(* signal_intr_handler(), from outside or by pthread_kill(): only the      *)
(* first signal counts.                                                    *)
signal_intr_handler == /\ sig' = TRUE
                       /\ stop' = (stop \/ ~sig)

Signal ==
    /\ main \notin {"init_state", "exited"}
    /\ signals < MaxSignals
    /\ signal_intr_handler
    /\ signals' = signals + 1
    /\ UNCHANGED <<main, fd_vars, thread_vars, threads_wont_exit>>

-----------------------------------------------------------------------------
(* Initialisation.                                                         *)

InitOk ==
    /\ main \in InitSteps
    /\ main' = AfterInit(main)
    /\ open' = open \cup Opens(main)
    /\ field' = field \cup Opens(main)
    /\ UNCHANGED <<thread_vars, stop, sig, threads_wont_exit, signals>>

(* A slip: the TUN queues opened before the failure are forgotten.         *)
InitFails_Forgets ==
    /\ main \in InitSteps
    /\ main' = IF main = "init_epoll" THEN "kill_zr" ELSE "destroy"
    /\ open' = open \cup Opens(main)
    /\ UNCHANGED <<thread_vars, stop, sig, field, threads_wont_exit, signals>>

(* A failing step closes what it has not recorded: init_socket() and       *)
(* init_iface() close theirs, unless it is the interface that cannot be    *)
(* brought up; init_epoll_thread_array() records each one at once.         *)
InitFails ==
    /\ main \in InitSteps
    /\ main' = IF main = "init_epoll" THEN "kill_zr" ELSE "destroy"
    /\ \E fds \in CASE main = "init_iface" -> {{}, Tun}
                    [] main = "init_epoll" -> SUBSET Epoll
                    [] OTHER               -> {{}} :
         open' = open \cup fds /\ field' = field \cup fds
    /\ UNCHANGED <<thread_vars, stop, sig, threads_wont_exit, signals>>

(* run_server_event_loop() with event_loop = io_uring.                     *)
Unsupported ==
    /\ main = "init_epoll"
    /\ main' = "destroy"
    /\ UNCHANGED <<fd_vars, thread_vars, stop, sig, threads_wont_exit, signals>>

(* stop = false, after initialisation.                                     *)
ClearStop ==
    /\ main = "clear_stop"
    /\ stop' = FALSE
    /\ main' = "spawn_zr"
    /\ UNCHANGED <<fd_vars, thread_vars, sig, threads_wont_exit, signals>>

-----------------------------------------------------------------------------
(* run_event_loop(): pthread_create() or, with the thread running already, *)
(* pthread_detach() may fail.                                              *)

MainOnly == UNCHANGED <<fd_vars, stop, sig, threads_wont_exit, signals>>

SpawnZr ==
    /\ main = "spawn_zr"
    /\ \/ zr' = "spawned" /\ main' \in {"spawn_worker", "kill_zr"}
       \/ zr' = zr /\ main' = "kill_zr"
    /\ UNCHANGED <<worker, n_on_threads, released>>
    /\ MainOnly

SpawnWorker ==
    /\ main = "spawn_worker"
    /\ \E w \in Worker :
         /\ worker[w] = "none"
         /\ \/ /\ worker' = [worker EXCEPT ![w] = "spawned"]
               /\ main' \in {"spawn_worker", "kill_zr"}
            \/ worker' = worker /\ main' = "kill_zr"
    /\ UNCHANGED <<zr, n_on_threads, released>>
    /\ MainOnly

(* server_udp_epoll_run_event_loop() of the main thread.                   *)
MainOnline ==
    /\ main = "spawn_worker" /\ \A w \in Worker : worker[w] # "none"
    /\ n_on_threads' = n_on_threads + 1
    /\ main' = "wait"
    /\ UNCHANGED <<zr, worker, released>>
    /\ MainOnly

(* A slip: the main thread does not count itself.                          *)
MainReleases_Early ==
    /\ main = "wait"
    /\ \/ n_on_threads >= Cardinality(Worker) /\ released' = TRUE
       \/ stop /\ UNCHANGED released
    /\ main' = "loop"
    /\ UNCHANGED <<zr, worker, n_on_threads>>
    /\ MainOnly

(* A slip: the main thread expects the reaper to be counted as well.       *)
MainReleases_Never ==
    /\ main = "wait"
    /\ \/ n_on_threads = Cardinality(Worker) + 2 /\ released' = TRUE
       \/ stop /\ UNCHANGED released
    /\ main' = "loop"
    /\ UNCHANGED <<zr, worker, n_on_threads>>
    /\ MainOnly

(* thread_wait(): all threads are online, or the server is stopping.       *)
MainReleases ==
    /\ main = "wait"
    /\ \/ n_on_threads = Cardinality(Worker) + 1 /\ released' = TRUE
       \/ stop /\ UNCHANGED released
    /\ main' = "loop"
    /\ UNCHANGED <<zr, worker, n_on_threads>>
    /\ MainOnly

(* A slip: the loop looks for a signal instead of stop.                    *)
MainLoopEnds_OnSignal ==
    /\ main = "loop" /\ sig
    /\ n_on_threads' = n_on_threads - 1
    /\ main' = "kill_zr"
    /\ UNCHANGED <<zr, worker, released>>
    /\ MainOnly

(* The loop ends by stop, or by an error that may be a failed wait.        *)
MainLoopEnds ==
    /\ main = "loop" /\ stop
    /\ n_on_threads' = n_on_threads - 1
    /\ main' = "kill_zr"
    /\ UNCHANGED <<zr, worker, released>>
    /\ MainOnly

MainLoopFails ==
    /\ main = "loop"
    /\ n_on_threads' = n_on_threads - 1
    /\ main' = "kill_zr"
    /\ stop' \in {stop, TRUE}
    /\ UNCHANGED <<zr, worker, released, fd_vars, sig, threads_wont_exit, signals>>

-----------------------------------------------------------------------------
(* The other threads.                                                      *)

Idle == UNCHANGED <<main, fd_vars, sig, threads_wont_exit, signals>>

(* The reaper goes online, allocates its buffer (a failure stops the       *)
(* server), and leaves its loop, frees the buffer and goes offline.        *)
ZrOnline ==
    /\ zr = "spawned" /\ zr' = "online"
    /\ Idle /\ UNCHANGED <<worker, n_on_threads, released, stop>>

ZrAllocates ==
    /\ zr = "online" /\ zr' = "loop"
    /\ stop' \in {stop, TRUE}
    /\ Idle /\ UNCHANGED <<worker, n_on_threads, released>>

ZrExits ==
    /\ zr = "loop" /\ stop
    /\ zr' = "gone"
    /\ Idle /\ UNCHANGED <<worker, n_on_threads, released, stop>>

WorkerStep(w, from, to) == /\ worker[w] = from
                           /\ worker' = [worker EXCEPT ![w] = to]
                           /\ Idle /\ UNCHANGED <<zr, released>>

WorkerOnline(w) == /\ WorkerStep(w, "spawned", "online")
                   /\ UNCHANGED <<n_on_threads, stop>>

WorkerCounts(w) == /\ WorkerStep(w, "online", "wait")
                   /\ n_on_threads' = n_on_threads + 1
                   /\ UNCHANGED stop

WorkerReleased(w) == /\ WorkerStep(w, "wait", "loop")
                     /\ released \/ stop
                     /\ UNCHANGED <<n_on_threads, stop>>

WorkerLoopEnds(w) == /\ WorkerStep(w, "loop", "offline")
                     /\ stop
                     /\ UNCHANGED <<n_on_threads, stop>>

WorkerLoopFails(w) == /\ WorkerStep(w, "loop", "offline")
                      /\ stop' \in {stop, TRUE}
                      /\ UNCHANGED n_on_threads

WorkerUncounts(w) == /\ WorkerStep(w, "offline", "gone")
                     /\ n_on_threads' = n_on_threads - 1
                     /\ UNCHANGED stop

-----------------------------------------------------------------------------
(* destroy_epoll() and destroy_state().                                    *)

ZrIsOnline == zr \in {"online", "loop"}
IsOnline(w) == worker[w] \in {"online", "wait", "loop"}

(* wait_for_zr_thread_to_exit(): a reaper that is not online is not        *)
(* waited for.                                                             *)
KillZr ==
    /\ main = "kill_zr"
    /\ IF ZrIsOnline
       THEN main' = "wait_zr" /\ signal_intr_handler
       ELSE main' = "kill_workers" /\ UNCHANGED <<stop, sig>>
    /\ UNCHANGED <<fd_vars, thread_vars, threads_wont_exit, signals>>

WaitZr ==
    /\ main = "wait_zr" /\ ~ZrIsOnline
    /\ main' = "kill_workers"
    /\ UNCHANGED thread_vars
    /\ MainOnly

(* wait_for_tun_wrk_threads_to_exit(): nothing to wait for when no thread  *)
(* has counted itself.                                                     *)
KillWorkers ==
    /\ main = "kill_workers"
    /\ main' = IF n_on_threads = 0 THEN "close_fds" ELSE "wait_workers"
    /\ IF n_on_threads # 0 /\ \E w \in Worker : IsOnline(w)
       THEN signal_intr_handler
       ELSE UNCHANGED <<stop, sig>>
    /\ UNCHANGED <<fd_vars, thread_vars, threads_wont_exit, signals>>

WaitWorkers ==
    /\ main = "wait_workers" /\ n_on_threads = 0
    /\ main' = "close_fds"
    /\ UNCHANGED thread_vars
    /\ MainOnly

(* Both waits give up after 1000 rounds: nothing is freed then.            *)
GiveUp ==
    /\ \/ main = "wait_zr" /\ ZrIsOnline
       \/ main = "wait_workers" /\ n_on_threads # 0
    /\ main' = "destroy"
    /\ threads_wont_exit' = TRUE
    /\ UNCHANGED <<fd_vars, thread_vars, stop, sig, signals>>

(* close_epoll_fds(), close_client_sess(), free_pkt_buffer().              *)
CloseFds ==
    /\ main = "close_fds"
    /\ main' = "destroy"
    /\ open' = open \ (field \cap Epoll)
    /\ UNCHANGED <<field, thread_vars, stop, sig, threads_wont_exit, signals>>

destroy_state ==
    /\ main = "destroy"
    /\ main' = "exited"
    /\ open' = IF threads_wont_exit THEN open ELSE open \ field
    /\ UNCHANGED <<field, thread_vars, stop, sig, threads_wont_exit, signals>>

InitStep == InitOk \/ InitFails \/ Unsupported \/ ClearStop

MainStep == \/ InitStep
            \/ SpawnZr \/ SpawnWorker \/ MainOnline \/ MainReleases \/ MainLoopEnds
            \/ KillZr \/ WaitZr \/ KillWorkers \/ WaitWorkers \/ GiveUp
            \/ CloseFds \/ destroy_state

ZrStep == ZrOnline \/ ZrAllocates \/ ZrExits

WorkerRuns(w) == \/ WorkerOnline(w) \/ WorkerCounts(w) \/ WorkerReleased(w)
                 \/ WorkerLoopEnds(w) \/ WorkerUncounts(w)

Next == \/ MainStep \/ MainLoopFails
        \/ ZrStep
        \/ \E w \in Worker : WorkerRuns(w) \/ WorkerLoopFails(w)
        \/ Signal

(* Threads keep running.  Errors and signals are not owed.                 *)
Spec == /\ Init /\ [][Next]_vars
        /\ WF_vars(MainStep)
        /\ WF_vars(ZrStep)
        /\ \A w \in Worker : WF_vars(WorkerRuns(w))

-----------------------------------------------------------------------------
(* Until it stops, the server lets no worker handle packets before every   *)
(* worker is up: "All threads are ready!" is true when it is printed.      *)
WorkersStartTogether ==
    (\E w \in Worker : worker[w] = "loop") =>
        stop \/ \A w \in Worker : worker[w] \notin {"none", "spawned", "online"}

(* Whatever step fails, a process that does not give up on its threads     *)
(* closes every descriptor it opened.                                      *)
DescriptorsClosed == main = "exited" /\ ~threads_wont_exit => open = {}

(* udp.h, @threads_wont_exit: the resources are not freed while a thread   *)
(* may still use them.                                                     *)
NoThreadOutlivesState ==
    main = "exited" /\ ~threads_wont_exit =>
        zr \in {"none", "gone"} /\ \A w \in Worker : worker[w] \in {"none", "gone"}

(* The threads wait for each other with stop as the only way out: start-up *)
(* always ends.                                                            *)
StartUpEnds == main = Head(InitSeq) ~> main \in {"loop", "exited"}

(* A stop request seen by the running server ends the process.             *)
StopEndsServer == stop /\ main \notin InitSteps \cup {"clear_stop"} ~> main = "exited"
=============================================================================
