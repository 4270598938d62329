----------------------- MODULE ServerLifecycleProofs -----------------------
(***************************************************************************)
(* Proofs about the life of a process: ServerLifecycle, for every number   *)
(* of workers and signals, and, in the second half, Config, which the      *)
(* process goes through first.                                             *)
(***************************************************************************)
EXTENDS ServerLifecycle, Config, FiniteSetTheorems, TLAPS

-----------------------------------------------------------------------------
(* The invariants.                                                         *)

(* Before run_event_loop() there is no worker to be counted or released.   *)
Before == InitSteps \cup {"clear_stop", "spawn_zr"}

MainPlace == Before \cup {"spawn_worker", "wait", "loop", "kill_zr", "wait_zr",
                          "kill_workers", "wait_workers", "close_fds", "destroy", "exited"}

WorkerPlace == {"none", "spawned", "online", "wait", "loop", "offline", "gone"}

Typed == /\ main \in MainPlace
         /\ worker \in [Worker -> WorkerPlace]
         /\ n_on_threads \in Nat
         /\ released \in BOOLEAN /\ stop \in BOOLEAN

(* The workers between atomic_fetch_add() and atomic_fetch_sub().          *)
Counted == {w \in Worker : worker[w] \in {"wait", "loop", "offline"}}
MainCounted == IF main \in {"wait", "loop"} THEN 1 ELSE 0

(* n_on_threads is exact, so the main thread releases the workers when the *)
(* last of them has counted itself, and a worker that handles packets has  *)
(* seen the release or the stop.  stop is cleared for the last time before *)
(* the first worker exists.                                                *)
StartInv == /\ Typed
            /\ n_on_threads = Cardinality(Counted) + MainCounted
            /\ main \in Before => ~released /\ \A w \in Worker : worker[w] = "none"
            /\ released => \A w \in Worker : worker[w] \notin {"none", "spawned", "online"}
            /\ \A w \in Worker : worker[w] = "loop" => stop \/ released

(* What is open is recorded, so destroy_state() finds all of it.           *)
FdInv == open \subseteq field /\ DescriptorsClosed

-----------------------------------------------------------------------------
(* The order of the steps of initialisation.                               *)

LEMMA InitOrder ==
    /\ InitSteps = {"init_state", "init_socket", "init_iface", "init_session_array",
                    "init_session_map", "init_session_stack", "init_ipv4_map", "init_epoll"}
    /\ \A s \in InitSteps : AfterInit(s) \in Before
<1>1. InitSteps = {"init_state", "init_socket", "init_iface", "init_session_array",
                   "init_session_map", "init_session_stack", "init_ipv4_map", "init_epoll"}
    BY DEF InitSteps, InitSeq, ToSet
<1>2. ASSUME NEW s \in InitSteps PROVE AfterInit(s) \in Before
    <2> DEFINE k == CHOOSE k \in 1..Len(InitSeq) : InitSeq[k] = s
    <2>1. \E j \in 1..Len(InitSeq) : InitSeq[j] = s
        BY DEF InitSteps, InitSeq, ToSet
    <2>2. k \in 1..Len(InitSeq) /\ InitSeq[k] = s
        BY <2>1
    <2>3. Len(InitSeq) = 8 /\ Last(InitSeq) = "init_epoll" /\ InitSeq[8] = "init_epoll"
        BY DEF InitSeq, Last
    <2>4. AfterInit(s) = IF s = "init_epoll" THEN "clear_stop" ELSE InitSeq[1 + k]
        BY <2>3 DEF AfterInit
    <2> HIDE DEF k
    <2>5. s # "init_epoll" => 1 + k \in 1..8
        BY <2>2, <2>3
    <2>6. \A j \in 1..8 : InitSeq[j] \in InitSteps
        BY <2>3 DEF InitSteps, ToSet, InitSeq
    <2> QED
        BY <2>4, <2>5, <2>6 DEF Before
<1> QED
    BY <1>1, <1>2

-----------------------------------------------------------------------------
(* The counter.                                                            *)

LEMMA CountedFinite == IsFiniteSet(Counted) /\ Cardinality(Counted) \in Nat
<1>1. Counted \subseteq Worker
    BY DEF Counted
<1>2. IsFiniteSet(Worker)
    BY LifecycleAssumption
<1>3. IsFiniteSet(Counted)
    BY <1>1, <1>2, FS_Subset
<1> QED
    BY <1>3, FS_CardinalityType

(* When as many workers as there are have counted themselves, all have.    *)
LEMMA AllCounted == Cardinality(Counted) = Cardinality(Worker) => Counted = Worker
<1>1. Counted \subseteq Worker /\ IsFiniteSet(Worker)
    BY LifecycleAssumption DEF Counted
<1> QED
    BY <1>1, FS_Subset

-----------------------------------------------------------------------------
(* Every step keeps StartInv.                                              *)

LEMMA StartStep == StartInv /\ [Next]_vars => StartInv'
<1> SUFFICES ASSUME StartInv, [Next]_vars PROVE StartInv'
    OBVIOUS
<1>0. /\ main \in MainPlace
      /\ worker \in [Worker -> WorkerPlace]
      /\ n_on_threads \in Nat
      /\ released \in BOOLEAN /\ stop \in BOOLEAN
      /\ n_on_threads = Cardinality(Counted) + MainCounted
      /\ main \in Before => ~released /\ \A w \in Worker : worker[w] = "none"
      /\ released => \A w \in Worker : worker[w] \notin {"none", "spawned", "online"}
      /\ \A w \in Worker : worker[w] = "loop" => stop \/ released
    BY DEF StartInv, Typed
<1>c. Cardinality(Counted) \in Nat /\ IsFiniteSet(Counted)
    BY CountedFinite
(* Steps of the main thread away from the count, and of the reaper.        *)
<1>1. ASSUME UNCHANGED <<worker, n_on_threads, released>>, main' \in MainPlace,
             stop' \in BOOLEAN, stop => stop' \/ main \in Before,
             main' \in Before => main \in Before,
             main \in {"wait", "loop"} <=> main' \in {"wait", "loop"}
      PROVE  StartInv'
    <2>1. Counted' = Counted /\ MainCounted' = MainCounted
        BY <1>1 DEF Counted, MainCounted
    <2> QED
        BY <1>0, <1>1, <2>1 DEF StartInv, Typed
<1>2. CASE InitStep
    <2>1. UNCHANGED <<worker, n_on_threads, released>> /\ main \in Before /\ stop' \in BOOLEAN
        BY <1>0, <1>2, InitOrder
        DEF InitStep, InitOk, InitFails, Unsupported, ClearStop, thread_vars, Before
    <2>2. main' \in Before \cup {"kill_zr", "destroy"}
        BY <1>0, <1>2, InitOrder
        DEF InitStep, InitOk, InitFails, Unsupported, ClearStop, Before
    <2> QED
        BY <1>1, <2>1, <2>2, InitOrder DEF MainPlace, Before
<1>3. CASE SpawnZr \/ WaitZr \/ WaitWorkers \/ GiveUp \/ CloseFds \/ destroy_state
    <2>1. UNCHANGED <<worker, n_on_threads, released, stop>>
        BY <1>3 DEF SpawnZr, WaitZr, WaitWorkers, GiveUp, CloseFds, destroy_state, MainOnly,
                    thread_vars
    <2>2. /\ main' \in {"spawn_worker", "kill_zr", "kill_workers", "close_fds", "destroy",
                         "exited"}
          /\ main \notin {"wait", "loop"}
        BY <1>3 DEF SpawnZr, WaitZr, WaitWorkers, GiveUp, CloseFds, destroy_state
    <2> QED
        BY <1>0, <1>1, <2>1, <2>2, InitOrder DEF MainPlace, Before
<1>4. CASE KillZr \/ KillWorkers
    <2>1. UNCHANGED <<worker, n_on_threads, released>>
        BY <1>4 DEF KillZr, KillWorkers, thread_vars
    <2>2. stop' \in BOOLEAN /\ (stop => stop')
        BY <1>0, <1>4 DEF KillZr, KillWorkers, signal_intr_handler
    <2>3. /\ main' \in {"wait_zr", "kill_workers", "close_fds", "wait_workers"}
          /\ main \notin {"wait", "loop"}
        BY <1>4 DEF KillZr, KillWorkers
    <2> QED
        BY <1>0, <1>1, <2>1, <2>2, <2>3, InitOrder DEF MainPlace, Before
<1>5. CASE ZrStep \/ Signal
    <2>1. UNCHANGED <<main, worker, n_on_threads, released>>
        BY <1>5 DEF ZrStep, ZrOnline, ZrAllocates, ZrExits, Signal, Idle, thread_vars
    <2>2. stop' \in BOOLEAN /\ (stop => stop')
        BY <1>0, <1>5 DEF ZrStep, ZrOnline, ZrAllocates, ZrExits, Signal, signal_intr_handler
    <2> QED
        BY <1>0, <1>1, <2>1, <2>2
(* The start of the workers, and the main thread in its loop.              *)
<1>6. CASE SpawnWorker
    <2>1. PICK w \in Worker :
              /\ worker[w] = "none"
              /\ worker' \in {worker, [worker EXCEPT ![w] = "spawned"]}
        BY <1>6 DEF SpawnWorker
    <2>2. /\ UNCHANGED <<n_on_threads, released, stop>>
          /\ main = "spawn_worker" /\ main' \in {"spawn_worker", "kill_zr"}
        BY <1>6 DEF SpawnWorker, MainOnly
    <2>3. Counted' = Counted /\ MainCounted' = MainCounted
        BY <1>0, <2>1, <2>2 DEF Counted, MainCounted
    <2>4. worker' \in [Worker -> WorkerPlace]
        BY <1>0, <2>1 DEF WorkerPlace
    <2>5. ~released /\ \A v \in Worker : worker'[v] = "loop" => worker[v] = "loop"
        BY <1>0, <2>1
    <2>6. main' \in MainPlace \ Before
        BY <2>2, InitOrder DEF MainPlace, Before
    <2> QED
        BY <1>0, <2>2, <2>3, <2>4, <2>5, <2>6 DEF StartInv, Typed
<1>7. CASE MainOnline \/ MainLoopEnds \/ MainLoopFails
    <2>1. UNCHANGED <<worker, released>> /\ stop' \in BOOLEAN /\ (stop => stop')
        BY <1>0, <1>7 DEF MainOnline, MainLoopEnds, MainLoopFails, MainOnly
    <2>2. \/ main = "spawn_worker" /\ main' = "wait" /\ n_on_threads' = n_on_threads + 1
          \/ main = "loop" /\ main' = "kill_zr" /\ n_on_threads' = n_on_threads - 1
        BY <1>7 DEF MainOnline, MainLoopEnds, MainLoopFails
    <2>3. Counted' = Counted
        BY <2>1 DEF Counted
    <2>4. n_on_threads' = Cardinality(Counted) + MainCounted' /\ n_on_threads' \in Nat
        BY <1>0, <1>c, <2>2 DEF MainCounted
    <2>5. main' \in MainPlace \ Before
        BY <2>2, InitOrder DEF MainPlace, Before
    <2> QED
        BY <1>0, <2>1, <2>3, <2>4, <2>5 DEF StartInv, Typed
<1>8. CASE MainReleases
    <2>1. /\ UNCHANGED <<worker, n_on_threads, stop>> /\ main = "wait" /\ main' = "loop"
          /\ \/ n_on_threads = Cardinality(Worker) + 1 /\ released' = TRUE
             \/ released' = released
        BY <1>8 DEF MainReleases, MainOnly
    <2>2. Counted' = Counted /\ MainCounted' = MainCounted /\ MainCounted = 1
        BY <2>1 DEF Counted, MainCounted
    <2>3. main' \in MainPlace \ Before
        BY <2>1, InitOrder DEF MainPlace, Before
    <2>4. CASE released' = released
        BY <1>0, <2>1, <2>2, <2>3, <2>4 DEF StartInv, Typed
    <2>5. CASE n_on_threads = Cardinality(Worker) + 1 /\ released' = TRUE
        <3>1. Cardinality(Worker) \in Nat
            BY LifecycleAssumption, FS_CardinalityType
        <3>2. Cardinality(Counted) = Cardinality(Worker)
            BY <1>0, <1>c, <2>2, <2>5, <3>1
        <3>3. \A w \in Worker : worker[w] \notin {"none", "spawned", "online"}
            BY <3>2, AllCounted DEF Counted
        <3> QED
            BY <1>0, <2>1, <2>2, <2>3, <2>5, <3>3 DEF StartInv, Typed
    <2> QED
        BY <2>1, <2>4, <2>5
(* The workers.                                                            *)
<1>9. ASSUME NEW w \in Worker, NEW a \in WorkerPlace \ {"none"}, NEW b \in WorkerPlace,
             WorkerStep(w, a, b), stop' \in BOOLEAN, stop => stop',
             b \notin {"none", "spawned", "online"} \/ a = "spawned",
             b = "loop" => stop \/ released,
             n_on_threads' \in Nat, n_on_threads' = Cardinality(Counted') + MainCounted
      PROVE  StartInv'
    <2>1. /\ worker[w] = a /\ worker' = [worker EXCEPT ![w] = b]
          /\ UNCHANGED <<main, released>>
        BY <1>9 DEF WorkerStep, Idle
    <2>2. MainCounted' = MainCounted
        BY <2>1 DEF MainCounted
    <2>3. worker' \in [Worker -> WorkerPlace] /\ worker'[w] = b
          /\ \A v \in Worker : v # w => worker'[v] = worker[v]
        BY <1>0, <2>1
    <2>4. main \notin Before
        BY <1>0, <1>9, <2>1
    <2>5. released => \A v \in Worker : worker'[v] \notin {"none", "spawned", "online"}
        BY <1>0, <1>9, <2>1, <2>3
    <2>6. \A v \in Worker : worker'[v] = "loop" => stop \/ released
        BY <1>0, <1>9, <2>3
    <2> QED
        BY <1>0, <1>9, <2>1, <2>2, <2>3, <2>4, <2>5, <2>6 DEF StartInv, Typed
<1>10. ASSUME NEW w \in Worker, WorkerCounts(w) PROVE StartInv'
    <2>1. /\ WorkerStep(w, "online", "wait") /\ n_on_threads' = n_on_threads + 1 /\ stop' = stop
          /\ worker[w] = "online" /\ worker' = [worker EXCEPT ![w] = "wait"]
        BY <1>10 DEF WorkerCounts, WorkerStep
    <2>2. Counted' = Counted \cup {w} /\ w \notin Counted
        BY <1>0, <2>1 DEF Counted
    <2>3. Cardinality(Counted \cup {w}) = Cardinality(Counted) + 1
        BY <1>c, <2>2, FS_AddElement
    <2>4. n_on_threads' = Cardinality(Counted') + MainCounted /\ n_on_threads' \in Nat
        BY <1>0, <1>c, <2>1, <2>2, <2>3 DEF MainCounted
    <2> QED
        BY <1>0, <1>9, <2>1, <2>4 DEF WorkerPlace
<1>11. ASSUME NEW w \in Worker, WorkerUncounts(w) PROVE StartInv'
    <2>1. /\ WorkerStep(w, "offline", "gone") /\ n_on_threads' = n_on_threads - 1 /\ stop' = stop
          /\ worker[w] = "offline" /\ worker' = [worker EXCEPT ![w] = "gone"]
        BY <1>11 DEF WorkerUncounts, WorkerStep
    <2>2. Counted' = Counted \ {w} /\ w \in Counted
        BY <1>0, <2>1 DEF Counted
    <2>3. Cardinality(Counted \ {w}) = Cardinality(Counted) - 1
        BY <1>c, <2>2, FS_RemoveElement
    <2>4. Cardinality(Counted') \in Nat
        BY <1>c, <2>2, FS_RemoveElement, FS_CardinalityType
    <2>5. n_on_threads' = Cardinality(Counted') + MainCounted /\ n_on_threads' \in Nat
        BY <1>0, <1>c, <2>1, <2>2, <2>3, <2>4 DEF MainCounted
    <2> QED
        BY <1>0, <1>9, <2>1, <2>5 DEF WorkerPlace
<1>12. ASSUME NEW w \in Worker,
              WorkerOnline(w) \/ WorkerReleased(w) \/ WorkerLoopEnds(w) \/ WorkerLoopFails(w)
       PROVE  StartInv'
    <2>1. PICK a \in {"spawned", "wait", "loop"}, b \in {"online", "loop", "offline"} :
              /\ WorkerStep(w, a, b)
              /\ a = "spawned" <=> b = "online"
              /\ b = "loop" => stop \/ released
        BY <1>12 DEF WorkerOnline, WorkerReleased, WorkerLoopEnds, WorkerLoopFails
    <2>2. n_on_threads' = n_on_threads /\ stop' \in BOOLEAN /\ (stop => stop')
        BY <1>0, <1>12 DEF WorkerOnline, WorkerReleased, WorkerLoopEnds, WorkerLoopFails
    <2>3. Counted' = Counted
        BY <1>0, <2>1 DEF Counted, WorkerStep
    <2> QED
        BY <1>0, <1>9, <2>1, <2>2, <2>3 DEF WorkerPlace
<1>13. CASE UNCHANGED vars
    BY <1>0, <1>1, <1>13 DEF vars
<1> QED
    BY <1>2, <1>3, <1>4, <1>5, <1>6, <1>7, <1>8, <1>10, <1>11, <1>12, <1>13
    DEF Next, MainStep, WorkerRuns

LEMMA InitStart == Init => StartInv
<1> SUFFICES ASSUME Init PROVE StartInv
    OBVIOUS
<1>1. main \in Before /\ main \in MainPlace
    BY InitOrder DEF Init, InitSeq, Before, MainPlace
<1>2. Counted = {} /\ MainCounted = 0
    BY DEF Init, InitSeq, Counted, MainCounted
<1>3. Cardinality({}) = 0
    BY FS_EmptySet
<1>4. n_on_threads = 0 /\ n_on_threads = Cardinality(Counted) + MainCounted
    BY <1>2, <1>3 DEF Init
<1>5. /\ worker \in [Worker -> WorkerPlace] /\ \A w \in Worker : worker[w] = "none"
      /\ \A w \in Worker : worker[w] # "loop"
    BY DEF Init, WorkerPlace
<1>6. ~released /\ released \in BOOLEAN /\ stop \in BOOLEAN
    BY DEF Init
<1>7. Typed
    BY <1>1, <1>4, <1>5, <1>6 DEF Typed
<1> QED
    BY <1>4, <1>5, <1>6, <1>7 DEF StartInv

(* Until it stops, the server lets no worker handle packets before every   *)
(* worker is up, however many there are.                                   *)
THEOREM AllStartTogether == Spec => []WorkersStartTogether
<1>1. StartInv => WorkersStartTogether
    BY DEF StartInv, WorkersStartTogether
<1> QED
    BY <1>1, InitStart, StartStep, PTL DEF Spec

-----------------------------------------------------------------------------
(* The descriptors.                                                        *)

LEMMA FdStep == FdInv /\ [Next]_vars => FdInv'
<1> SUFFICES ASSUME FdInv, [Next]_vars PROVE FdInv'
    OBVIOUS
<1>0. open \subseteq field /\ (main = "exited" /\ ~threads_wont_exit => open = {})
    BY DEF FdInv, DescriptorsClosed
<1>1. ASSUME open' \subseteq field', main' # "exited" PROVE FdInv'
    BY <1>1 DEF FdInv, DescriptorsClosed
<1>2. CASE InitStep
    <2>1. open' \subseteq field'
        <3>1. CASE InitFails
            <4>1. \E fds : open' = open \cup fds /\ field' = field \cup fds
                BY <3>1 DEF InitFails
            <4> QED
                BY <1>0, <4>1
        <3>2. CASE InitOk \/ Unsupported \/ ClearStop
            BY <1>0, <3>2 DEF InitOk, Unsupported, ClearStop, fd_vars
        <3> QED
            BY <1>2, <3>1, <3>2 DEF InitStep
    <2>2. main' # "exited"
        BY <1>2, InitOrder DEF InitStep, InitOk, InitFails, Unsupported, ClearStop, Before
    <2> QED
        BY <1>1, <2>1, <2>2
<1>3. CASE CloseFds
    BY <1>0, <1>1, <1>3 DEF CloseFds
<1>4. CASE destroy_state
    BY <1>0, <1>4 DEF destroy_state, FdInv, DescriptorsClosed
<1>5. CASE SpawnZr \/ SpawnWorker \/ MainOnline \/ MainReleases \/ MainLoopEnds
           \/ MainLoopFails \/ KillZr \/ WaitZr \/ KillWorkers \/ WaitWorkers \/ GiveUp
    <2>1. open' = open /\ field' = field
        BY <1>5 DEF SpawnZr, SpawnWorker, MainOnline, MainReleases, MainLoopEnds,
                    MainLoopFails, KillZr, WaitZr, KillWorkers, WaitWorkers, GiveUp,
                    MainOnly, fd_vars
    <2>2. main' # "exited"
        BY <1>5 DEF SpawnZr, SpawnWorker, MainOnline, MainReleases, MainLoopEnds,
                    MainLoopFails, KillZr, WaitZr, KillWorkers, WaitWorkers, GiveUp
    <2> QED
        BY <1>0, <1>1, <2>1, <2>2
<1>6. CASE UNCHANGED <<main, open, field, threads_wont_exit>>
    BY <1>0, <1>6 DEF FdInv, DescriptorsClosed
<1>7. CASE ZrStep \/ Signal \/ \E w \in Worker : WorkerRuns(w) \/ WorkerLoopFails(w)
    BY <1>6, <1>7 DEF ZrStep, ZrOnline, ZrAllocates, ZrExits, Signal, WorkerRuns,
                      WorkerOnline, WorkerCounts, WorkerReleased, WorkerLoopEnds,
                      WorkerUncounts, WorkerLoopFails, WorkerStep, Idle, fd_vars
<1>8. CASE UNCHANGED vars
    BY <1>6, <1>8 DEF vars
<1> QED
    BY <1>2, <1>3, <1>4, <1>5, <1>7, <1>8 DEF Next, MainStep

(* Whatever step of the initialisation fails, and whatever threads and     *)
(* signals do, a process that does not give up on its threads closes every *)
(* descriptor it opened.                                                   *)
THEOREM NoDescriptorLeaks == Spec => []DescriptorsClosed
<1>1. Init => FdInv
    BY DEF Init, InitSeq, FdInv, DescriptorsClosed
<1>2. FdInv => DescriptorsClosed
    BY DEF FdInv
<1> QED
    BY <1>1, <1>2, FdStep, PTL DEF Spec

-----------------------------------------------------------------------------
(***************************************************************************)
(* Config, for every set of numbers, names and passwords and any number of *)
(* options and lines.                                                      *)
(***************************************************************************)
(* A word as it is read, and the values the words may have.                *)
Val  == Num \cup Dev \cup Pass \cup Types
            \cup {"default", "named", "alice", "10.5.5.2", Empty}
Name == {"t", "D", "m", "s", "c", "u", "p", "encrypt", "help", "thread", "dev", "mtu",
         "sock_type", "username", "password", "ipv4", "other", "unknown", "malformed"}
Word == [name : Name, val : Val]

(* The phases: what has been read when, and which result a phase leaves.   *)
Phased == /\ prog \in Program
          /\ opts \in Seq(Word) /\ lines \in Seq(Word)
          /\ DOMAIN cfg = DOMAIN Zeroed /\ errno \in {"ENOENT", "EACCES"}
          /\ pc # "done" => result = "none" /\ iff = Untouched
          /\ pc = "argv" => prog \in {"server", "client"}
          /\ pc \in {"argv", "open"} => lines = <<>>
          /\ prog \notin {"server", "client"} => opts = <<>> /\ cfg.cfg_file = "default"

(* A run and whoever may still become one have met nothing bad so far.     *)
Clean == /\ result \in {"none", "run"} =>
              \A i \in DOMAIN opts : ~BadOption(opts[i].name, opts[i].val)
         /\ pc = "check" \/ result = "run" =>
              \A i \in DOMAIN lines : ~BadLine(lines[i].name, lines[i].val)
         /\ pc = "lines" => cfg.cfg_file \in opens
         /\ (pc = "check" \/ result = "run") /\ cfg.cfg_file \notin opens =>
              cfg.cfg_file = "default" /\ errno = "ENOENT" /\ prog \in {"server", "client"}
         /\ result = "run" =>
              /\ prog # "auth"
              /\ prog = "client" => Empty \notin {cfg.username, cfg.password}

(* The number of threads is that of the last line, or else of the last     *)
(* option, or else the default, cut to eight bits.                         *)
DefaultThreads == IF prog \in {"server", "client"} THEN 2 ELSE 0

Threads == /\ Given(lines, "thread") =>
                cfg.thread_num = LastOf(lines, {"thread"}, 1) % 256
           /\ ~Given(lines, "thread") /\ result \in {"none", "run"} =>
                IF Given(opts, "t")
                THEN /\ cfg.thread_num = LastOf(opts, {"t"}, 1) % 256
                     /\ LastOf(opts, {"t"}, 1) \in Int /\ LastOf(opts, {"t"}, 1) > 0
                ELSE cfg.thread_num = DefaultThreads

(* The server's two names of the device differ only by an option.          *)
Device == prog = "server" /\ cfg.dev # cfg.iff_dev =>
              Given(opts, "D") /\ ~Given(lines, "dev")

(* A user's file is summed up by its last lines, and is read only after a  *)
(* username that can be part of a file name.                               *)
UserFile == prog = "auth" =>
              /\ cfg.password = LastOf(lines, {"password"}, Empty)
              /\ cfg.iff_mtu = LastOf(lines, {"mtu"}, 0) % 65536
              /\ cfg.ipv4 = LastOf(lines, {"ipv4"}, Empty)
              /\ \A i \in DOMAIN lines : lines[i].name # "sock_type"

UserOpened == prog = "auth" /\ pc \in {"lines", "check"} =>
                  ask.valid /\ "default" \in opens

ConfigInv == /\ Phased /\ Clean /\ Threads /\ Device /\ UserFile /\ UserOpened
             /\ AuthIsExact

-----------------------------------------------------------------------------
(* Sequences of words.                                                     *)

(* A set of indices that is not empty has a greatest element.              *)
LEMMA GreatestIndex ==
    ASSUME NEW n \in Nat, NEW T \in SUBSET (1..n), T # {}
    PROVE  Max(T) \in T /\ \A y \in T : Max(T) >= y
<1> DEFINE from(x) == T \cap (x..n)
           F == {from(x) : x \in T}
<1>1. F \subseteq FiniteSubsetsOf(T) /\ F # {}
    <2>1. IsFiniteSet(1..n)
        <3>1. 1 \in Int /\ n \in Int
            OBVIOUS
        <3> QED
            BY <3>1, FS_Interval
    <2> SUFFICES ASSUME NEW x \in T PROVE from(x) \in FiniteSubsetsOf(T)
        OBVIOUS
    <2>2. from(x) \in SUBSET (1..n)
        OBVIOUS
    <2>3. IsFiniteSet(from(x))
        BY <2>1, <2>2, FS_Subset
    <2> QED
        BY <2>3 DEF FiniteSubsetsOf
<1>2. \E A \in F : \A B \in F : ~(<<B, A>> \in StrictSubsetOrdering(T))
    <2>1. IsWellFoundedOn(StrictSubsetOrdering(T), FiniteSubsetsOf(T))
        BY FS_StrictSubsetOrderingWellFounded
    <2> HIDE DEF F
    <2> QED
        BY <1>1, <2>1, WFMin
<1>3. PICK x \in T : \A y \in T : ~(<<from(y), from(x)>> \in StrictSubsetOrdering(T))
    BY <1>2
<1>4. ASSUME NEW y \in T, y > x PROVE FALSE
    <2>1. from(y) \subseteq from(x) /\ x \in from(x) /\ x \notin from(y)
        BY <1>4
    <2>2. from(y) \in SUBSET T /\ from(x) \in SUBSET T
        OBVIOUS
    <2> HIDE DEF from
    <2>3. <<from(y), from(x)>> \in StrictSubsetOrdering(T)
        BY <2>1, <2>2 DEF StrictSubsetOrdering
    <2> QED
        BY <1>3, <2>3
<1>5. \A y \in T : x >= y
    BY <1>4
<1> QED
    BY <1>5 DEF Max

LEMMA AppendFacts ==
    ASSUME NEW S, NEW w \in Seq(S), NEW x \in S
    PROVE  /\ Append(w, x) \in Seq(S)
           /\ Len(w) \in Nat /\ DOMAIN w = 1..Len(w)
           /\ DOMAIN Append(w, x) = 1..(Len(w) + 1)
           /\ \A i \in DOMAIN w : Append(w, x)[i] = w[i]
           /\ Append(w, x)[Len(w) + 1] = x
           /\ \A i \in DOMAIN Append(w, x) : i \in DOMAIN w \/ i = Len(w) + 1
OBVIOUS

(* What a word that is read does to the last word with one of the names,   *)
(* and to whether there is one.                                            *)
LEMMA LastOfAppend ==
    ASSUME NEW S, NEW w \in Seq(S), NEW x \in S, NEW names, NEW default
    PROVE  LastOf(Append(w, x), names, default) =
               IF x.name \in names THEN x.val ELSE LastOf(w, names, default)
<1> DEFINE n   == Len(w)
           a   == Append(w, x)
           old == {i \in DOMAIN w : w[i].name \in names}
           new == {i \in DOMAIN a : a[i].name \in names}
<1>1. /\ n \in Nat /\ DOMAIN w = 1..n /\ DOMAIN a = 1..(n + 1)
      /\ a[n + 1] = x /\ \A i \in 1..n : a[i] = w[i]
    BY AppendFacts
<1>2. /\ LastOf(a, names, default) = IF new = {} THEN default ELSE a[Max(new)].val
      /\ LastOf(w, names, default) = IF old = {} THEN default ELSE w[Max(old)].val
    BY DEF LastOf
<1> HIDE DEF n, a
<1>3. CASE x.name \in names
    <2>1. n + 1 \in new /\ new \in SUBSET (1..(n + 1)) /\ n + 1 \in Nat
        BY <1>1, <1>3
    <2> HIDE DEF new
    <2>2. Max(new) \in new /\ \A y \in new : Max(new) >= y
        BY <2>1, GreatestIndex
    <2>3. Max(new) = n + 1
        <3> DEFINE m == Max(new)
        <3>1. m \in 1..(n + 1) /\ m >= n + 1
            BY <2>1, <2>2
        <3> HIDE DEF m
        <3>2. m = n + 1
            BY <1>1, <3>1
        <3> QED
            BY <3>2 DEF m
    <2> QED
        BY <1>1, <1>2, <1>3, <2>1, <2>3 DEF a
<1>4. CASE x.name \notin names
    <2>1. new = old
        BY <1>1, <1>4
    <2>2. old \in SUBSET (1..n)
        BY <1>1
    <2> HIDE DEF new, old
    <2>3. old # {} => Max(old) \in 1..n
        BY <1>1, <2>2, GreatestIndex
    <2> QED
        BY <1>1, <1>2, <1>4, <2>1, <2>3 DEF a
<1> QED
    BY <1>3, <1>4

LEMMA GivenAppend ==
    ASSUME NEW S, NEW w \in Seq(S), NEW x \in S, NEW name
    PROVE  Given(Append(w, x), name) <=> Given(w, name) \/ x.name = name
<1> DEFINE n == Len(w)
           a == Append(w, x)
<1>1. /\ n \in Nat /\ DOMAIN w = 1..n /\ DOMAIN a = 1..(n + 1)
      /\ a[n + 1] = x /\ \A i \in 1..n : a[i] = w[i]
    BY AppendFacts
<1>2. /\ Given(a, name) <=> \E i \in DOMAIN a : a[i].name = name
      /\ Given(w, name) <=> \E i \in DOMAIN w : w[i].name = name
    BY DEF Given
<1> HIDE DEF n, a
<1> QED
    BY <1>1, <1>2 DEF a

LEMMA NoWords ==
    ASSUME NEW names, NEW name, NEW default
    PROVE  LastOf(<<>>, names, default) = default /\ ~Given(<<>>, name)
BY DEF LastOf, Given

-----------------------------------------------------------------------------
(* What a word does to the structure that is filled.                       *)

LEMMA Casts == 2^8 = 256 /\ 2^16 = 65536
OBVIOUS

LEMMA AssignEffect ==
    ASSUME DOMAIN cfg = DOMAIN Zeroed, NEW fields, NEW val, Assign(fields, val)
    PROVE  /\ DOMAIN cfg' = DOMAIN Zeroed
           /\ cfg'.cfg_file = IF "cfg_file" \in fields THEN val ELSE cfg.cfg_file
           /\ cfg'.thread_num = IF "thread_num" \in fields THEN val % 256 ELSE cfg.thread_num
           /\ cfg'.dev = IF "dev" \in fields THEN val ELSE cfg.dev
           /\ cfg'.iff_dev = IF "iff_dev" \in fields THEN val ELSE cfg.iff_dev
           /\ cfg'.iff_mtu = IF "iff_mtu" \in fields THEN val % 65536 ELSE cfg.iff_mtu
           /\ cfg'.password = IF "password" \in fields THEN val ELSE cfg.password
           /\ cfg'.ipv4 = IF "ipv4" \in fields THEN val ELSE cfg.ipv4
<1> DEFINE F == {"cfg_file", "thread_num", "dev", "iff_dev", "mtu", "iff_mtu", "type",
                 "username", "password", "ipv4"}
<1>1. DOMAIN cfg = F /\ DOMAIN Zeroed = F
    BY DEF Zeroed
<1>2. cfg' = [f \in F |-> IF f \in fields THEN Convert(f, val) ELSE cfg[f]]
    BY <1>1 DEF Assign
<1>3. /\ Convert("thread_num", val) = val % 256
      /\ Convert("iff_mtu", val) = val % 65536
      /\ \A f \in {"cfg_file", "dev", "iff_dev", "password", "ipv4"} : Convert(f, val) = val
    BY Casts DEF Convert
<1> QED
    BY <1>1, <1>2, <1>3

LEMMA ValHas ==
    /\ Num \subseteq Val /\ Dev \subseteq Val /\ Pass \subseteq Val /\ Types \subseteq Val
    /\ Flag \subseteq Val /\ {"default", "named"} \subseteq Val /\ {"alice"} \subseteq Val
    /\ {"10.5.5.2"} \subseteq Val
BY DEF Val, Flag

LEMMA OptionWords ==
    ASSUME NEW name \in DOMAIN Options, NEW val \in Options[name]
    PROVE  name \in Name /\ val \in Val /\ (name = "t" => val \in Num)
<1>1. CASE prog = "server"
    <2>1. DOMAIN Options = {"t", "D", "m", "s", "c", "encrypt", "other", "unknown", "help"}
        BY <1>1 DEF Options, ServerOptions
    <2>2. /\ Options["t"] = Num /\ Options["D"] = Dev /\ Options["m"] = Num
          /\ Options["s"] = Types /\ Options["c"] = {"default", "named"}
          /\ \A n \in {"encrypt", "other", "unknown", "help"} : Options[n] = Flag
        BY <1>1 DEF Options, ServerOptions
    <2>3. \A n \in DOMAIN Options : Options[n] \subseteq Val
        BY <2>1, <2>2, ValHas
    <2>4. DOMAIN Options \subseteq Name
        BY <2>1 DEF Name
    <2> QED
        BY <2>2, <2>3, <2>4
<1>2. CASE prog # "server"
    <2>1. DOMAIN Options = {"t", "D", "s", "c", "u", "p", "encrypt", "other", "unknown",
                                "help"}
        BY <1>2 DEF Options, ClientOptions
    <2>2. /\ Options["t"] = Num /\ Options["D"] = Dev /\ Options["u"] = {"alice"}
          /\ Options["s"] = Types /\ Options["c"] = {"default", "named"}
          /\ Options["p"] = Pass
          /\ \A n \in {"encrypt", "other", "unknown", "help"} : Options[n] = Flag
        BY <1>2 DEF Options, ClientOptions
    <2>3. \A n \in DOMAIN Options : Options[n] \subseteq Val
        BY <2>1, <2>2, ValHas
    <2>4. DOMAIN Options \subseteq Name
        BY <2>1 DEF Name
    <2> QED
        BY <2>2, <2>3, <2>4
<1> QED
    BY <1>1, <1>2

LEMMA LineWords ==
    ASSUME NEW name \in DOMAIN Lines, NEW val \in Lines[name]
    PROVE  name \in Name /\ val \in Val /\ (prog = "auth" => name # "sock_type")
<1>1. CASE prog = "server"
    <2>1. DOMAIN Lines = {"thread", "dev", "mtu", "sock_type", "other", "unknown",
                              "malformed"}
        BY <1>1 DEF Lines, ServerLines
    <2>2. /\ Lines["thread"] = Num /\ Lines["dev"] = Dev /\ Lines["mtu"] = Num
          /\ Lines["sock_type"] = Types
          /\ \A n \in {"other", "unknown", "malformed"} : Lines[n] = Flag
        BY <1>1 DEF Lines, ServerLines
    <2>3. \A n \in DOMAIN Lines : Lines[n] \subseteq Val
        BY <2>1, <2>2, ValHas
    <2>4. DOMAIN Lines \subseteq Name
        BY <2>1 DEF Name
    <2> QED
        BY <1>1, <2>1, <2>3, <2>4
<1>2. CASE prog = "auth"
    <2>1. DOMAIN Lines = {"username", "password", "mtu", "ipv4", "unknown", "malformed"}
        BY <1>2 DEF Lines, UserLines
    <2>2. /\ Lines["username"] = {"alice"} /\ Lines["password"] = Pass
          /\ Lines["mtu"] = Num /\ Lines["ipv4"] = {"10.5.5.2"}
          /\ \A n \in {"unknown", "malformed"} : Lines[n] = Flag
        BY <1>2 DEF Lines, UserLines
    <2>3. \A n \in DOMAIN Lines : Lines[n] \subseteq Val
        BY <2>1, <2>2, ValHas
    <2>4. DOMAIN Lines \subseteq Name
        BY <2>1 DEF Name
    <2> QED
        BY <1>2, <2>1, <2>3, <2>4
<1>3. CASE prog \notin {"server", "auth"}
    <2>1. DOMAIN Lines = {"thread", "dev", "sock_type", "username", "password", "other",
                          "unknown", "malformed"}
        BY <1>3 DEF Lines, ClientLines
    <2>2. /\ Lines["thread"] = Num /\ Lines["dev"] = Dev
          /\ Lines["sock_type"] = Types
          /\ Lines["username"] = {"alice"} /\ Lines["password"] = Pass
          /\ \A n \in {"other", "unknown", "malformed"} : Lines[n] = Flag
        BY <1>3 DEF Lines, ClientLines
    <2>3. \A n \in DOMAIN Lines : Lines[n] \subseteq Val
        BY <2>1, <2>2, ValHas
    <2>4. DOMAIN Lines \subseteq Name
        BY <2>1 DEF Name
    <2> QED
        BY <1>3, <2>1, <2>3, <2>4
<1> QED
    BY <1>1, <1>2, <1>3

(* An option that is read: the run ends there, or the option is good and   *)
(* only the fields it names change.                                        *)
Refused == result' \in {"exit", "crash", "EINVAL"} /\ pc' = "done" /\ cfg' = cfg

LEMMA OptionAssign ==
    ASSUME DOMAIN cfg = DOMAIN Zeroed, NEW name, NEW val,
           Assign(OptionSets(name), val)
    PROVE  /\ DOMAIN cfg' = DOMAIN Zeroed
           /\ cfg'.thread_num = IF name = "t" THEN val % 256 ELSE cfg.thread_num
           /\ cfg'.dev = IF name = "D" THEN val ELSE cfg.dev
           /\ cfg'.iff_dev = cfg.iff_dev
<1> DEFINE fields == OptionSets(name)
<1>1. /\ ("thread_num" \in fields) <=> name = "t"
      /\ ("dev" \in fields) <=> name = "D"
      /\ "iff_dev" \notin fields
    BY DEF OptionSets
<1>2. Assign(fields, val)
    OBVIOUS
<1> HIDE DEF fields
<1>3. /\ DOMAIN cfg' = DOMAIN Zeroed
      /\ cfg'.thread_num = IF "thread_num" \in fields THEN val % 256 ELSE cfg.thread_num
      /\ cfg'.dev = IF "dev" \in fields THEN val ELSE cfg.dev
      /\ cfg'.iff_dev = IF "iff_dev" \in fields THEN val ELSE cfg.iff_dev
    BY <1>2, AssignEffect
<1> QED
    BY <1>1, <1>3

LEMMA OptionEffect ==
    ASSUME Phased, TakeOption
    PROVE  \E w \in Word :
             /\ opts' = Append(opts, w)
             /\ w.name = "t" => w.val \in Int
             /\ \/ Refused
                \/ /\ ~BadOption(w.name, w.val) /\ UNCHANGED <<pc, result>>
                   /\ DOMAIN cfg' = DOMAIN Zeroed
                   /\ cfg'.thread_num = IF w.name = "t" THEN w.val % 256 ELSE cfg.thread_num
                   /\ cfg'.dev = IF w.name = "D" THEN w.val ELSE cfg.dev
                   /\ cfg'.iff_dev = cfg.iff_dev
<1>1. PICK name \in DOMAIN Options : \E val \in Options[name] :
         /\ opts' = Append(opts, [name |-> name, val |-> val])
         /\ \/ name = "help" /\ Done("exit") /\ UNCHANGED cfg
            \/ name = "encrypt" /\ Done("crash") /\ UNCHANGED cfg
            \/ BadOption(name, val) /\ Done("EINVAL") /\ UNCHANGED cfg
            \/ /\ name \notin {"help", "encrypt"} /\ ~BadOption(name, val)
               /\ Assign(OptionSets(name), val)
               /\ UNCHANGED <<pc, result>>
    BY DEF TakeOption
<1>2. PICK val \in Options[name] :
         /\ opts' = Append(opts, [name |-> name, val |-> val])
         /\ \/ name = "help" /\ Done("exit") /\ UNCHANGED cfg
            \/ name = "encrypt" /\ Done("crash") /\ UNCHANGED cfg
            \/ BadOption(name, val) /\ Done("EINVAL") /\ UNCHANGED cfg
            \/ /\ name \notin {"help", "encrypt"} /\ ~BadOption(name, val)
               /\ Assign(OptionSets(name), val)
               /\ UNCHANGED <<pc, result>>
    BY <1>1
<1>3. name \in Name /\ val \in Val /\ (name = "t" => val \in Num)
    BY OptionWords
<1>4. DOMAIN cfg = DOMAIN Zeroed
    BY DEF Phased
<1> DEFINE w == [name |-> name, val |-> val]
<1>5. w \in Word /\ w.name = name /\ w.val = val
    BY <1>3 DEF Word
<1>7. ASSUME Assign(OptionSets(name), val)
      PROVE  /\ DOMAIN cfg' = DOMAIN Zeroed
             /\ cfg'.thread_num = IF name = "t" THEN val % 256 ELSE cfg.thread_num
             /\ cfg'.dev = IF name = "D" THEN val ELSE cfg.dev
             /\ cfg'.iff_dev = cfg.iff_dev
    BY <1>4, <1>7, OptionAssign
<1> w \in Word
    BY <1>5
<1> WITNESS w \in Word
<1> HIDE DEF w
<1>8. opts' = Append(opts, w)
    BY <1>2 DEF w
<1>9. w.name = "t" => w.val \in Int
    BY <1>3, <1>5, ConfigAssumption
<1>10. CASE Refused
    BY <1>5, <1>8, <1>9, <1>10
<1>11. CASE Assign(OptionSets(name), val) /\ ~BadOption(name, val)
            /\ UNCHANGED <<pc, result>>
    BY <1>5, <1>7, <1>8, <1>9, <1>11
<1> QED
    BY <1>2, <1>10, <1>11 DEF Done, Refused

(* A line that is read.                                                    *)
LEMMA LineEffect ==
    ASSUME Phased, ReadLine
    PROVE  \E w \in Word :
             /\ lines' = Append(lines, w)
             /\ prog = "auth" => w.name # "sock_type"
             /\ DOMAIN cfg' = DOMAIN Zeroed
             /\ cfg'.cfg_file = cfg.cfg_file
             /\ cfg'.thread_num = IF w.name = "thread" THEN w.val % 256 ELSE cfg.thread_num
             /\ prog = "server" /\ w.name = "dev" => cfg'.dev = cfg'.iff_dev
             /\ w.name # "dev" => cfg'.dev = cfg.dev /\ cfg'.iff_dev = cfg.iff_dev
             /\ cfg'.password = IF w.name = "password" THEN w.val ELSE cfg.password
             /\ cfg'.iff_mtu = IF w.name = "mtu" THEN w.val % 65536 ELSE cfg.iff_mtu
             /\ cfg'.ipv4 = IF w.name = "ipv4" THEN w.val ELSE cfg.ipv4
<1>1. PICK name \in DOMAIN Lines : \E val \in Lines[name] :
         /\ lines' = Append(lines, [name |-> name, val |-> val])
         /\ IF BadLine(name, val) THEN UNCHANGED cfg
            ELSE Assign(LineSets(name), val)
    BY DEF ReadLine
<1>2. PICK val \in Lines[name] :
         /\ lines' = Append(lines, [name |-> name, val |-> val])
         /\ IF BadLine(name, val) THEN UNCHANGED cfg
            ELSE Assign(LineSets(name), val)
    BY <1>1
<1>3. name \in Name /\ val \in Val /\ (prog = "auth" => name # "sock_type")
    BY LineWords
<1>4. DOMAIN cfg = DOMAIN Zeroed
    BY DEF Phased
<1> DEFINE w == [name |-> name, val |-> val]
           fields == IF BadLine(name, val) THEN {} ELSE LineSets(name)
<1>5. w \in Word /\ w.name = name /\ w.val = val
    BY <1>3 DEF Word
<1>6. /\ ("thread_num" \in fields) <=> name = "thread"
      /\ ("dev" \in fields) <=> name = "dev"
      /\ ("iff_dev" \in fields) <=> name = "dev" /\ prog = "server"
      /\ ("iff_mtu" \in fields) <=> name = "mtu"
      /\ ("password" \in fields) <=> name = "password"
      /\ ("ipv4" \in fields) <=> name = "ipv4"
      /\ "cfg_file" \notin fields
    BY DEF LineSets, BadLine
<1>7. /\ DOMAIN cfg' = DOMAIN Zeroed
      /\ cfg'.cfg_file = cfg.cfg_file
      /\ cfg'.thread_num = IF "thread_num" \in fields THEN val % 256 ELSE cfg.thread_num
      /\ cfg'.dev = IF "dev" \in fields THEN val ELSE cfg.dev
      /\ cfg'.iff_dev = IF "iff_dev" \in fields THEN val ELSE cfg.iff_dev
      /\ cfg'.iff_mtu = IF "iff_mtu" \in fields THEN val % 65536 ELSE cfg.iff_mtu
      /\ cfg'.password = IF "password" \in fields THEN val ELSE cfg.password
      /\ cfg'.ipv4 = IF "ipv4" \in fields THEN val ELSE cfg.ipv4
    <2>1. CASE BadLine(name, val)
        <3>1. cfg' = cfg /\ fields = {}
            BY <1>2, <2>1
        <3> HIDE DEF fields
        <3> QED
            BY <1>4, <3>1
    <2>2. CASE ~BadLine(name, val)
        <3>1. Assign(fields, val)
            BY <1>2, <2>2
        <3> HIDE DEF fields
        <3> QED
            BY <1>4, <1>6, <3>1, AssignEffect
    <2> QED
        BY <2>1, <2>2
<1> HIDE DEF fields
<1> w \in Word
    BY <1>5
<1> WITNESS w \in Word
<1>8. lines' = Append(lines, w)
    BY <1>2
<1> HIDE DEF w
<1> QED
    BY <1>3, <1>5, <1>6, <1>7, <1>8

-----------------------------------------------------------------------------
(* The invariant: one lemma for each word that is read, one for the steps  *)
(* between them.                                                           *)

LEMMA OptionKeeps ==
    ASSUME ConfigInv, TakeOption
    PROVE  ConfigInv'
<1>1. /\ pc = "argv" /\ lines = <<>> /\ result = "none" /\ iff = Untouched
      /\ prog \in {"server", "client"} /\ prog \in Program
      /\ opts \in Seq(Word) /\ lines \in Seq(Word) /\ DOMAIN cfg = DOMAIN Zeroed
      /\ errno \in {"ENOENT", "EACCES"}
    BY DEF TakeOption, ConfigInv, Phased
<1>2. /\ prog' = prog /\ opens' = opens /\ errno' = errno /\ ask' = ask
      /\ lines' = lines /\ iff' = iff
    BY DEF TakeOption
<1>3. PICK w \in Word :
        /\ opts' = Append(opts, w)
        /\ w.name = "t" => w.val \in Int
        /\ \/ Refused
           \/ /\ ~BadOption(w.name, w.val) /\ UNCHANGED <<pc, result>>
              /\ DOMAIN cfg' = DOMAIN Zeroed
              /\ cfg'.thread_num = IF w.name = "t" THEN w.val % 256 ELSE cfg.thread_num
              /\ cfg'.dev = IF w.name = "D" THEN w.val ELSE cfg.dev
              /\ cfg'.iff_dev = cfg.iff_dev
    BY OptionEffect DEF ConfigInv
<1>4. pc' \in {"argv", "done"} /\ (pc' = "argv" => result' = "none")
    BY <1>1, <1>3 DEF Refused
<1>5. result' \in {"none", "run"} =>
        /\ ~BadOption(w.name, w.val)
        /\ cfg'.thread_num = IF w.name = "t" THEN w.val % 256 ELSE cfg.thread_num
    BY <1>3 DEF Refused
<1>6. DOMAIN cfg' = DOMAIN Zeroed
    BY <1>1, <1>3 DEF Refused
<1>7. result' # "run"
    BY <1>1, <1>3 DEF Refused
<1>x. opts \in Seq(Word) /\ w \in Word /\ opts' = Append(opts, w)
    BY <1>1, <1>3
<1>8. /\ opts' \in Seq(Word)
      /\ \A i \in DOMAIN opts' : opts'[i] = w \/ \E j \in DOMAIN opts : opts'[i] = opts[j]
    BY <1>x, AppendFacts
<1>9. \A name : Given(opts', name) <=> Given(opts, name) \/ w.name = name
    BY <1>x, GivenAppend
<1>10. LastOf(opts', {"t"}, 1) = IF w.name = "t" THEN w.val ELSE LastOf(opts, {"t"}, 1)
    <2>1. LastOf(opts', {"t"}, 1) =
            IF w.name \in {"t"} THEN w.val ELSE LastOf(opts, {"t"}, 1)
        BY <1>x, LastOfAppend
    <2> QED
        BY <2>1
<1>11. \A name : ~Given(lines, name)
    BY <1>1, NoWords
<1>12. Phased'
    BY <1>1, <1>2, <1>4, <1>6, <1>8 DEF Phased
<1>13. Clean'
    <2>1. ASSUME result' = "none"
          PROVE  \A i \in DOMAIN opts' : ~BadOption(opts'[i].name, opts'[i].val)
        <3>1. ~BadOption(w.name, w.val)
            BY <1>5, <2>1
        <3>2. \A j \in DOMAIN opts : ~BadOption(opts[j].name, opts[j].val)
            BY <1>1 DEF ConfigInv, Clean
        <3> QED
            BY <1>8, <3>1, <3>2
    <2>2. result' = "none" =>
            (\A i \in DOMAIN opts : ~BadOption(opts[i].name, opts[i].val))'
        BY <1>2, <2>1 DEF BadOption
    <2> QED
        BY <1>4, <1>7, <2>2 DEF Clean
<1>14. Threads'
    <2>1. ASSUME result' \in {"none", "run"}
          PROVE  IF Given(opts', "t")
                 THEN /\ cfg'.thread_num = LastOf(opts', {"t"}, 1) % 256
                      /\ LastOf(opts', {"t"}, 1) \in Int /\ LastOf(opts', {"t"}, 1) > 0
                 ELSE cfg'.thread_num = DefaultThreads
        <3>1. IF Given(opts, "t")
              THEN /\ cfg.thread_num = LastOf(opts, {"t"}, 1) % 256
                   /\ LastOf(opts, {"t"}, 1) \in Int /\ LastOf(opts, {"t"}, 1) > 0
              ELSE cfg.thread_num = DefaultThreads
            BY <1>1, <1>11 DEF ConfigInv, Threads
        <3>2. w.name = "t" => w.val \in Int /\ w.val > 0
            <4>1. w.name = "t" => ~(w.val <= 0)
                BY <1>5, <2>1 DEF BadOption
            <4>2. w.name = "t" => w.val \in Int
                BY <1>3
            <4> QED
                BY <4>1, <4>2
        <3>3. cfg'.thread_num = IF w.name = "t" THEN w.val % 256 ELSE cfg.thread_num
            BY <1>5, <2>1
        <3>4. Given(opts', "t") <=> Given(opts, "t") \/ w.name = "t"
            BY <1>9
        <3>5. CASE w.name = "t"
            BY <1>10, <3>2, <3>3, <3>4, <3>5
        <3>6. CASE w.name # "t"
            BY <1>10, <3>1, <3>3, <3>4, <3>6
        <3> QED
            BY <3>5, <3>6
    <2>2. DefaultThreads' = DefaultThreads
        BY <1>2 DEF DefaultThreads
    <2> QED
        BY <1>2, <1>11, <2>1, <2>2 DEF Threads
<1>15. Device'
    <2>1. Given(opts', "D") <=> Given(opts, "D") \/ w.name = "D"
        BY <1>9
    <2>2. w.name # "D" => cfg'.dev = cfg.dev /\ cfg'.iff_dev = cfg.iff_dev
        BY <1>3 DEF Refused
    <2> QED
        BY <1>2, <1>11, <2>1, <2>2 DEF ConfigInv, Device
<1>16. UserFile' /\ UserOpened' /\ AuthIsExact'
    <2>1. prog' # "auth"
        BY <1>1, <1>2
    <2>2. UserFile' /\ UserOpened'
        BY <2>1 DEF UserFile, UserOpened
    <2>3. AuthIsExact'
        BY <2>1 DEF AuthIsExact
    <2> QED
        BY <2>2, <2>3
<1> QED
    BY <1>12, <1>13, <1>14, <1>15, <1>16 DEF ConfigInv

LEMMA LineKeeps ==
    ASSUME ConfigInv, ReadLine
    PROVE  ConfigInv'
<1>1. /\ pc = "lines" /\ result = "none" /\ iff = Untouched
      /\ lines \in Seq(Word) /\ Phased
    BY DEF ReadLine, ConfigInv, Phased
<1>2. /\ prog' = prog /\ opens' = opens /\ errno' = errno /\ ask' = ask /\ pc' = pc /\ opts' = opts
      /\ result' = result /\ iff' = iff
    BY DEF ReadLine
<1>3. PICK w \in Word :
        /\ lines' = Append(lines, w)
        /\ prog = "auth" => w.name # "sock_type"
        /\ DOMAIN cfg' = DOMAIN Zeroed
        /\ cfg'.cfg_file = cfg.cfg_file
        /\ cfg'.thread_num = IF w.name = "thread" THEN w.val % 256 ELSE cfg.thread_num
        /\ prog = "server" /\ w.name = "dev" => cfg'.dev = cfg'.iff_dev
        /\ w.name # "dev" => cfg'.dev = cfg.dev /\ cfg'.iff_dev = cfg.iff_dev
        /\ cfg'.password = IF w.name = "password" THEN w.val ELSE cfg.password
        /\ cfg'.iff_mtu = IF w.name = "mtu" THEN w.val % 65536 ELSE cfg.iff_mtu
        /\ cfg'.ipv4 = IF w.name = "ipv4" THEN w.val ELSE cfg.ipv4
    BY <1>1, LineEffect
<1>4. /\ lines' \in Seq(Word)
      /\ \A i \in DOMAIN lines' : lines'[i] = w \/ \E j \in DOMAIN lines : lines'[i] = lines[j]
    BY <1>1, <1>3, AppendFacts
<1>5. \A name : Given(lines', name) <=> Given(lines, name) \/ w.name = name
    BY <1>1, <1>3, GivenAppend
<1>6. \A name, default : LastOf(lines', {name}, default) =
                           IF w.name = name THEN w.val ELSE LastOf(lines, {name}, default)
    <2> TAKE name, default
    <2>1. LastOf(lines', {name}, default) =
            IF w.name \in {name} THEN w.val ELSE LastOf(lines, {name}, default)
        BY <1>1, <1>3, LastOfAppend
    <2> QED
        BY <2>1
<1>7. Phased'
    BY <1>1, <1>2, <1>3, <1>4 DEF Phased
<1>8. Clean'
    BY <1>1, <1>2, <1>3 DEF ConfigInv, Clean, BadOption
<1>9. Threads'
    <2>1. Given(lines', "thread") <=> Given(lines, "thread") \/ w.name = "thread"
        BY <1>5
    <2>2. LastOf(lines', {"thread"}, 1) =
            IF w.name = "thread" THEN w.val ELSE LastOf(lines, {"thread"}, 1)
        BY <1>6
    <2>3. cfg'.thread_num = IF w.name = "thread" THEN w.val % 256 ELSE cfg.thread_num
        BY <1>3
    <2>4. DefaultThreads' = DefaultThreads
        BY <1>2 DEF DefaultThreads
    <2>5. CASE w.name = "thread"
        BY <2>1, <2>2, <2>3, <2>5 DEF Threads
    <2>6. CASE w.name # "thread"
        BY <1>2, <2>1, <2>2, <2>3, <2>4, <2>6 DEF ConfigInv, Threads
    <2> QED
        BY <2>5, <2>6
<1>10. Device'
    <2>1. Given(lines', "dev") <=> Given(lines, "dev") \/ w.name = "dev"
        BY <1>5
    <2> QED
        BY <1>2, <1>3, <2>1 DEF ConfigInv, Device
<1>11. UserFile'
    <2> SUFFICES ASSUME prog = "auth" PROVE UserFile'
        BY <1>2 DEF UserFile
    <2>1. /\ cfg.password = LastOf(lines, {"password"}, Empty)
          /\ cfg.iff_mtu = LastOf(lines, {"mtu"}, 0) % 65536
          /\ cfg.ipv4 = LastOf(lines, {"ipv4"}, Empty)
          /\ \A i \in DOMAIN lines : lines[i].name # "sock_type"
        BY <1>1 DEF ConfigInv, UserFile
    <2>2. cfg'.password = LastOf(lines', {"password"}, Empty)
        <3>1. LastOf(lines', {"password"}, Empty) =
                IF w.name = "password" THEN w.val
                ELSE LastOf(lines, {"password"}, Empty)
            BY <1>6
        <3>2. cfg'.password = IF w.name = "password" THEN w.val ELSE cfg.password
            BY <1>3
        <3> QED
            BY <2>1, <3>1, <3>2
    <2>3. cfg'.iff_mtu = LastOf(lines', {"mtu"}, 0) % 65536
        <3>1. LastOf(lines', {"mtu"}, 0) =
                IF w.name = "mtu" THEN w.val ELSE LastOf(lines, {"mtu"}, 0)
            BY <1>6
        <3>2. cfg'.iff_mtu = IF w.name = "mtu" THEN w.val % 65536 ELSE cfg.iff_mtu
            BY <1>3
        <3> QED
            BY <2>1, <3>1, <3>2
    <2>4. cfg'.ipv4 = LastOf(lines', {"ipv4"}, Empty)
        <3>1. LastOf(lines', {"ipv4"}, Empty) =
                IF w.name = "ipv4" THEN w.val ELSE LastOf(lines, {"ipv4"}, Empty)
            BY <1>6
        <3>2. cfg'.ipv4 = IF w.name = "ipv4" THEN w.val ELSE cfg.ipv4
            BY <1>3
        <3> QED
            BY <2>1, <3>1, <3>2
    <2>5. \A i \in DOMAIN lines' : lines'[i].name # "sock_type"
        BY <1>3, <1>4, <2>1
    <2> QED
        BY <1>1, <1>2, <2>1, <2>2, <2>3, <2>4, <2>5 DEF UserFile
<1>12. UserOpened' /\ AuthIsExact'
    <2>1. pc' # "done"
        BY <1>1, <1>2
    <2>2. UserOpened
        BY DEF ConfigInv
    <2>3. UserOpened'
        BY <1>2, <2>2 DEF UserOpened
    <2>4. AuthIsExact'
        BY <2>1 DEF AuthIsExact
    <2> QED
        BY <2>3, <2>4
<1> QED
    BY <1>7, <1>8, <1>9, <1>10, <1>11, <1>12 DEF ConfigInv

(* What a user file says of a login, as AuthIsExact has it.                *)
Admitted == /\ ask.valid /\ "default" \in opens
            /\ ~Given(lines, "malformed")
            /\ ask.pass = LastOf(lines, {"password"}, Empty)

LEMMA RejectIsExact ==
    ASSUME ~Admitted', result' = "reject", iff' = Untouched
    PROVE  AuthIsExact'
BY DEF Admitted, AuthIsExact, Untouched

LEMMA AcceptIsExact ==
    ASSUME Admitted', result' = "accept",
           iff'.mtu = LastOf(lines', {"mtu"}, 0) % 65536,
           iff'.ipv4 = LastOf(lines', {"ipv4"}, Empty)
    PROVE  AuthIsExact'
BY DEF Admitted, AuthIsExact

LEMMA BetweenKeeps ==
    ASSUME ConfigInv, pc # "done", UNCHANGED <<prog, cfg, opens, errno, ask, opts, lines>>
    PROVE  /\ Threads' /\ Device' /\ UserFile'
           /\ Admitted' <=> Admitted
           /\ prog' \in Program /\ opts' \in Seq(Word) /\ lines' \in Seq(Word)
           /\ DOMAIN cfg' = DOMAIN Zeroed /\ errno' \in {"ENOENT", "EACCES"}
           /\ prog' \notin {"server", "client"} => opts' = <<>> /\ cfg'.cfg_file = "default"
           /\ \A i \in DOMAIN opts' : ~BadOption(opts[i].name, opts[i].val)'
           /\ result = "none" /\ iff = Untouched
<1>1. /\ prog' = prog /\ cfg' = cfg /\ opens' = opens /\ errno' = errno /\ ask' = ask /\ opts' = opts
      /\ lines' = lines
    OBVIOUS
<1>2. Phased /\ Clean /\ Threads /\ Device /\ UserFile
    BY DEF ConfigInv
<1>3. result = "none" /\ iff = Untouched
    BY <1>2 DEF Phased
<1>4. Threads'
    BY <1>1, <1>2, <1>3 DEF Threads, DefaultThreads
<1>5. Device' /\ UserFile'
    BY <1>1, <1>2 DEF Device, UserFile
<1>6. Admitted' <=> Admitted
    BY <1>1 DEF Admitted
<1>7. \A i \in DOMAIN opts : ~BadOption(opts[i].name, opts[i].val)
    BY <1>2, <1>3 DEF Clean
<1>8. \A i \in DOMAIN opts' : ~BadOption(opts[i].name, opts[i].val)'
    BY <1>1, <1>7 DEF BadOption
<1> QED
    BY <1>1, <1>2, <1>3, <1>4, <1>5, <1>6, <1>7, <1>8 DEF Phased

(* A line of a user file is refused only if it is malformed.               *)
LEMMA UserLineRefused ==
    ASSUME ConfigInv, prog = "auth"
    PROVE  (\E i \in DOMAIN lines : BadLine(lines[i].name, lines[i].val))
             <=> Given(lines, "malformed")
<1>1. \A i \in DOMAIN lines : lines[i].name # "sock_type"
    BY DEF ConfigInv, UserFile
<1> QED
    BY <1>1 DEF BadLine, Given

LEMMA ArgvKeeps ==
    ASSUME ConfigInv, ArgvEnds
    PROVE  ConfigInv'
<1>1. /\ pc = "argv" /\ pc' = "open" /\ result' = result /\ iff' = iff
      /\ UNCHANGED <<prog, cfg, opens, errno, ask, opts, lines>>
    BY DEF ArgvEnds
<1>2. lines' = <<>>
    BY <1>1 DEF ConfigInv, Phased
<1>3. Phased'
    BY <1>1, <1>2, BetweenKeeps DEF Phased
<1>4. Clean'
    BY <1>1, BetweenKeeps DEF Clean
<1>5. UserOpened' /\ AuthIsExact'
    BY <1>1 DEF UserOpened, AuthIsExact
<1> QED
    BY <1>1, <1>3, <1>4, <1>5, BetweenKeeps DEF ConfigInv

LEMMA OpenKeeps ==
    ASSUME ConfigInv, OpenFile
    PROVE  ConfigInv'
<1>1. /\ pc = "open" /\ iff' = iff
      /\ UNCHANGED <<prog, cfg, opens, errno, ask, opts, lines>>
    BY DEF OpenFile
<1>2. /\ lines = <<>> /\ result = "none" /\ prog \in Program
      /\ prog = "auth" => cfg.cfg_file = "default"
    BY <1>1 DEF ConfigInv, Phased
<1>3. /\ \A i \in DOMAIN lines' : ~BadLine(lines[i].name, lines[i].val)'
      /\ prog' = prog /\ opens' = opens /\ errno' = errno /\ cfg'.cfg_file = cfg.cfg_file
      /\ iff' = Untouched
    <2>1. iff = Untouched
        BY <1>1, BetweenKeeps
    <2> QED
        BY <1>1, <1>2, <2>1
<1>4. CASE pc' = "done" /\ result' \in {"reject", "ENOENT", "EACCES"}
           /\ (prog = "auth" => ~Admitted /\ result' = "reject")
    <2>1. Phased'
        BY <1>1, <1>4, BetweenKeeps DEF Phased
    <2>2. Clean'
        BY <1>1, <1>4, BetweenKeeps DEF Clean
    <2>3. AuthIsExact'
        <3>1. CASE prog = "auth"
            BY <1>1, <1>3, <1>4, <3>1, BetweenKeeps, RejectIsExact
        <3>2. CASE prog # "auth"
            BY <1>3, <3>2 DEF AuthIsExact
        <3> QED
            BY <3>1, <3>2
    <2>4. UserOpened'
        BY <1>4 DEF UserOpened
    <2> QED
        BY <1>1, <2>1, <2>2, <2>3, <2>4, BetweenKeeps DEF ConfigInv
<1>5. CASE /\ pc' \in {"lines", "check"} /\ result' = result
           /\ pc' = "lines" => cfg.cfg_file \in opens
           /\ pc' = "check" =>
                 prog \in {"server", "client"} /\ cfg.cfg_file = "default" /\ errno = "ENOENT"
           /\ prog = "auth" => ask.valid
    <2>1. Phased'
        BY <1>1, <1>2, <1>3, <1>5, BetweenKeeps DEF Phased
    <2>2. Clean'
        <3>1. result' = "none"
            BY <1>2, <1>5
        <3> QED
            BY <1>1, <1>3, <1>5, <3>1, BetweenKeeps DEF Clean
    <2>3. AuthIsExact'
        BY <1>5 DEF AuthIsExact
    <2>4. UserOpened'
        BY <1>1, <1>2, <1>5 DEF UserOpened
    <2> QED
        BY <1>1, <2>1, <2>2, <2>3, <2>4, BetweenKeeps DEF ConfigInv
<1>6. CASE prog = "auth" /\ ~ask.valid /\ Done("reject")
    BY <1>4, <1>6 DEF Admitted, Done
<1>7. CASE (prog = "auth" => ask.valid) /\ cfg.cfg_file \in opens /\ pc' = "lines"
           /\ UNCHANGED result
    BY <1>5, <1>7
<1>8. CASE /\ prog = "auth" => ask.valid
           /\ cfg.cfg_file \notin opens
           /\ IF prog \in {"server", "client"} /\ cfg.cfg_file = "default" /\ errno = "ENOENT"
              THEN pc' = "check" /\ UNCHANGED result
              ELSE Done(IF prog = "auth" THEN "reject" ELSE errno)
    <2>1. CASE prog \in {"server", "client"} /\ cfg.cfg_file = "default" /\ errno = "ENOENT"
        BY <1>5, <1>8, <2>1
    <2>2. CASE ~(prog \in {"server", "client"} /\ cfg.cfg_file = "default" /\ errno = "ENOENT")
        <3>1. prog = "auth" => ~Admitted
            BY <1>2, <1>8 DEF Admitted
        <3>2. errno \in {"ENOENT", "EACCES"}
            BY DEF ConfigInv, Phased
        <3> QED
            BY <1>4, <1>8, <2>2, <3>1, <3>2 DEF Done
    <2> QED
        BY <2>1, <2>2
<1> QED
    BY <1>6, <1>7, <1>8 DEF OpenFile

LEMMA FileKeeps ==
    ASSUME ConfigInv, FileEnds
    PROVE  ConfigInv'
<1>1. /\ pc = "lines" /\ iff' = iff
      /\ UNCHANGED <<prog, cfg, opens, errno, ask, opts, lines>>
    BY DEF FileEnds
<1>2. result = "none" /\ cfg.cfg_file \in opens /\ UserOpened /\ iff = Untouched
    BY <1>1 DEF ConfigInv, Phased, Clean
<1>3. CASE \E i \in DOMAIN lines : BadLine(lines[i].name, lines[i].val)
    <2>1. pc' = "done" /\ result' = IF prog = "auth" THEN "reject" ELSE "EINVAL"
        BY <1>3 DEF FileEnds, Done
    <2>2. Phased'
        BY <1>1, <2>1, BetweenKeeps DEF Phased
    <2>3. Clean'
        BY <1>1, <2>1, BetweenKeeps DEF Clean
    <2>4. AuthIsExact'
        <3>1. CASE prog = "auth"
            <4>1. ~Admitted
                BY <1>3, <3>1, UserLineRefused DEF Admitted
            <4> QED
                BY <1>1, <1>2, <2>1, <3>1, <4>1, BetweenKeeps, RejectIsExact
        <3>2. CASE prog # "auth"
            BY <1>1, <3>2 DEF AuthIsExact
        <3> QED
            BY <3>1, <3>2
    <2>5. UserOpened'
        BY <2>1 DEF UserOpened
    <2> QED
        BY <1>1, <2>2, <2>3, <2>4, <2>5, BetweenKeeps DEF ConfigInv
<1>4. CASE ~\E i \in DOMAIN lines : BadLine(lines[i].name, lines[i].val)
    <2>1. pc' = "check" /\ result' = "none"
        BY <1>2, <1>4 DEF FileEnds
    <2>2. \A i \in DOMAIN lines' : ~BadLine(lines[i].name, lines[i].val)'
        BY <1>1, <1>4 DEF BadLine
    <2>3. Phased'
        BY <1>1, <1>2, <2>1, BetweenKeeps DEF Phased
    <2>4. Clean'
        BY <1>1, <1>2, <2>1, <2>2, BetweenKeeps DEF Clean
    <2>5. AuthIsExact'
        BY <2>1 DEF AuthIsExact
    <2>6. UserOpened'
        BY <1>1, <1>2 DEF UserOpened
    <2> QED
        BY <1>1, <2>3, <2>4, <2>5, <2>6, BetweenKeeps DEF ConfigInv
<1> QED
    BY <1>3, <1>4

LEMMA CheckKeeps ==
    ASSUME ConfigInv, Check
    PROVE  ConfigInv'
<1>1. /\ pc = "check" /\ prog # "auth" /\ pc' = "done"
      /\ UNCHANGED <<prog, cfg, opens, errno, ask, opts, lines>>
    BY DEF Check, Done
<1>2. /\ result' # "none"
      /\ result' = "run" /\ prog = "client" => Empty \notin {cfg.username, cfg.password}
    BY DEF Check, Done
<1>3. /\ \A i \in DOMAIN lines : ~BadLine(lines[i].name, lines[i].val)
      /\ cfg.cfg_file \notin opens =>
             cfg.cfg_file = "default" /\ errno = "ENOENT" /\ prog \in {"server", "client"}
    BY <1>1 DEF ConfigInv, Clean
<1>4. \A i \in DOMAIN lines' : ~BadLine(lines[i].name, lines[i].val)'
    BY <1>1, <1>3 DEF BadLine
<1>5. Phased'
    BY <1>1, BetweenKeeps DEF Phased
<1>6. Clean'
    BY <1>1, <1>2, <1>3, <1>4, BetweenKeeps DEF Clean
<1>7. UserOpened' /\ AuthIsExact'
    BY <1>1 DEF UserOpened, AuthIsExact
<1> QED
    BY <1>1, <1>5, <1>6, <1>7, BetweenKeeps DEF ConfigInv

LEMMA PasswordKeeps ==
    ASSUME ConfigInv, CheckPassword
    PROVE  ConfigInv'
<1>1. /\ pc = "check" /\ prog = "auth" /\ pc' = "done"
      /\ result' = IF ask.pass = cfg.password THEN "accept" ELSE "reject"
      /\ UNCHANGED <<prog, cfg, opens, errno, ask, opts, lines>>
    BY DEF CheckPassword, Done
<1>2. Phased'
    BY <1>1, BetweenKeeps DEF Phased
<1>3. Clean'
    BY <1>1, BetweenKeeps DEF Clean
<1>4. UserOpened'
    BY <1>1 DEF UserOpened
<1>5. /\ cfg.password = LastOf(lines, {"password"}, Empty)
      /\ cfg.iff_mtu = LastOf(lines, {"mtu"}, 0) % 65536
      /\ cfg.ipv4 = LastOf(lines, {"ipv4"}, Empty)
    BY <1>1 DEF ConfigInv, UserFile
<1>6. Admitted <=> ask.pass = cfg.password
    <2>1. ~Given(lines, "malformed")
        <3>1. \A i \in DOMAIN lines : ~BadLine(lines[i].name, lines[i].val)
            BY <1>1 DEF ConfigInv, Clean
        <3> QED
            BY <1>1, <3>1, UserLineRefused
    <2>2. ask.valid /\ "default" \in opens
        BY <1>1 DEF ConfigInv, UserOpened
    <2> QED
        BY <1>5, <2>1, <2>2 DEF Admitted
<1>7. CASE ask.pass = cfg.password
    <2>1. iff' = [mtu |-> cfg.iff_mtu, ipv4 |-> cfg.ipv4]
        BY <1>7 DEF CheckPassword
    <2>2. /\ iff'.mtu = LastOf(lines', {"mtu"}, 0) % 65536
          /\ iff'.ipv4 = LastOf(lines', {"ipv4"}, Empty)
        BY <1>1, <1>5, <2>1
    <2>3. Admitted'
        BY <1>1, <1>6, <1>7, BetweenKeeps
    <2>4. AuthIsExact'
        BY <1>1, <1>7, <2>2, <2>3, AcceptIsExact
    <2> QED
        BY <1>1, <1>2, <1>3, <1>4, <2>4, BetweenKeeps DEF ConfigInv
<1>8. CASE ask.pass # cfg.password
    <2>1. iff' = iff
        BY <1>8 DEF CheckPassword
    <2>2. ~Admitted' /\ iff' = Untouched
        BY <1>1, <1>6, <1>8, <2>1, BetweenKeeps
    <2>3. AuthIsExact'
        BY <1>1, <1>8, <2>2, RejectIsExact
    <2> QED
        BY <1>1, <1>2, <1>3, <1>4, <2>3, BetweenKeeps DEF ConfigInv
<1> QED
    BY <1>7, <1>8

LEMMA ConfigStart == ConfigInit => ConfigInv
<1> SUFFICES ASSUME ConfigInit PROVE ConfigInv
    OBVIOUS
<1>1. /\ prog \in Program /\ opts = <<>> /\ lines = <<>> /\ result = "none"
      /\ iff = Untouched /\ pc = IF prog \in {"server", "client"} THEN "argv" ELSE "open"
      /\ cfg = set_default_config(prog) /\ errno \in {"ENOENT", "EACCES"}
    BY DEF ConfigInit
<1>2. /\ DOMAIN cfg = DOMAIN Zeroed /\ cfg.cfg_file = "default"
      /\ cfg.thread_num = IF prog \in {"server", "client"} THEN 2 ELSE 0
      /\ cfg.dev = cfg.iff_dev
      /\ prog = "auth" => cfg.password = Empty /\ cfg.iff_mtu = 0 /\ cfg.ipv4 = Empty
    BY <1>1 DEF Program, set_default_config, ServerDefaults, ClientDefaults,
                Zeroed
<1>3. \A names, default : LastOf(<<>>, names, default) = default
    BY NoWords
<1>4. \A name : ~Given(<<>>, name)
    BY NoWords
<1>5. Phased
    BY <1>1, <1>2 DEF Phased
<1>6. Clean
    BY <1>1 DEF Clean
<1>7. Threads
    BY <1>1, <1>2, <1>4 DEF Threads, DefaultThreads
<1>8. Device
    BY <1>2 DEF Device
<1>9. UserFile
    BY <1>1, <1>2, <1>3 DEF UserFile
<1>10. UserOpened /\ AuthIsExact
    BY <1>1 DEF UserOpened, AuthIsExact
<1> QED
    BY <1>5, <1>6, <1>7, <1>8, <1>9, <1>10 DEF ConfigInv

LEMMA ConfigStep ==
    ASSUME ConfigInv, [ConfigNext]_config_vars
    PROVE  ConfigInv'
<1>1. CASE UNCHANGED config_vars
    <2>1. /\ prog' = prog /\ cfg' = cfg /\ opens' = opens /\ errno' = errno /\ ask' = ask /\ pc' = pc
          /\ opts' = opts /\ lines' = lines /\ result' = result /\ iff' = iff
        BY <1>1 DEF config_vars
    <2>2. Phased' /\ Clean'
        BY <2>1 DEF ConfigInv, Phased, Clean, BadOption, BadLine
    <2>3. Threads' /\ Device' /\ UserFile'
        BY <2>1 DEF ConfigInv, Threads, DefaultThreads, Device, UserFile
    <2>4. UserOpened' /\ AuthIsExact'
        BY <2>1 DEF ConfigInv, UserOpened, AuthIsExact
    <2> QED
        BY <2>2, <2>3, <2>4 DEF ConfigInv
<1> QED
    BY <1>1, OptionKeeps, ArgvKeeps, OpenKeeps, LineKeeps, FileKeeps, CheckKeeps,
       PasswordKeeps DEF ConfigNext

LEMMA CleanRunHolds == ConfigInv => CleanRun
<1> SUFFICES ASSUME ConfigInv, result = "run" PROVE CleanRun
    BY DEF CleanRun
<1>1. /\ \A i \in DOMAIN opts : ~BadOption(opts[i].name, opts[i].val)
      /\ \A i \in DOMAIN lines : ~BadLine(lines[i].name, lines[i].val)
      /\ cfg.cfg_file \notin opens =>
             cfg.cfg_file = "default" /\ errno = "ENOENT" /\ prog \in {"server", "client"}
      /\ prog = "client" => Empty \notin {cfg.username, cfg.password}
      /\ prog # "auth" /\ prog \in Program
      /\ prog = "gui" => opts = <<>>
    BY DEF ConfigInv, Clean, Phased
<1>2. cfg.thread_num = 0 =>
        \/ prog = "gui" /\ ~Given(lines, "thread")
        \/ Given(lines, "thread") /\ LastOf(lines, {"thread"}, 1) % 256 = 0
        \/ LastOf(opts, {"t"}, 1) >= 256
    <2> DEFINE v == LastOf(opts, {"t"}, 1)
    <2>1. CASE Given(lines, "thread")
        BY <2>1 DEF ConfigInv, Threads
    <2>2. CASE ~Given(lines, "thread") /\ Given(opts, "t")
        <3>1. cfg.thread_num = v % 256 /\ v \in Int /\ v > 0
            BY <2>2 DEF ConfigInv, Threads
        <3> HIDE DEF v
        <3>2. v % 256 = 0 => v >= 256
            BY <3>1
        <3> QED
            BY <3>1, <3>2 DEF v
    <2>3. CASE ~Given(lines, "thread") /\ ~Given(opts, "t")
        <3>1. cfg.thread_num = DefaultThreads
            BY <2>3 DEF ConfigInv, Threads
        <3> QED
            BY <1>1, <2>3, <3>1 DEF DefaultThreads, Program
    <2> QED
        BY <2>1, <2>2, <2>3
<1> QED
    BY <1>1, <1>2 DEF CleanRun

(* The server configures the device it opened: tun_alloc() and ip(8) get   *)
(* the same name after any sequence of options and lines, unless an option *)
(* named it and no line did.                                               *)
THEOREM DeviceConfigured == ConfigSpec => []DeviceIsConfigured
<1>1. ConfigInv /\ [ConfigNext]_config_vars => ConfigInv'
    BY ConfigStep
<1>2. ConfigInv => DeviceIsConfigured
    BY DEF ConfigInv, Device, DeviceIsConfigured
<1> QED
    BY ConfigStart, <1>1, <1>2, PTL DEF ConfigSpec

(* run_server(), run_client() and the front end enter the event loops only *)
(* after input in which nothing was refused, however long it was, and with *)
(* a thread unless the cast to eight bits or the missing default of the    *)
(* front end took it away.                                                 *)
THEOREM RunsAreClean == ConfigSpec => []CleanRun
<1>1. ConfigInv /\ [ConfigNext]_config_vars => ConfigInv'
    BY ConfigStep
<1> QED
    BY ConfigStart, <1>1, CleanRunHolds, PTL DEF ConfigSpec

(* teavpn2_auth() lets a user in exactly with the last password of a user  *)
(* file it could read to the end, whatever else is in the file, and hands  *)
(* out the interface of its last lines or touches nothing.                 *)
THEOREM AuthExact == ConfigSpec => []AuthIsExact
<1>1. ConfigInv /\ [ConfigNext]_config_vars => ConfigInv'
    BY ConfigStep
<1>2. ConfigInv => AuthIsExact
    BY DEF ConfigInv
<1> QED
    BY ConfigStart, <1>1, <1>2, PTL DEF ConfigSpec
=============================================================================
