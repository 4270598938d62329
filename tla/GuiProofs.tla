----------------------------- MODULE GuiProofs -----------------------------
(***************************************************************************)
(* Proofs about Gui, for every number of workers, runs and callbacks.      *)
(***************************************************************************)
EXTENDS Gui, TLAPS

-----------------------------------------------------------------------------
(* The invariants.                                                         *)

(* A main thread that has an end to announce, and the other places.        *)
Begun == {"config", "init", "ready", "connect", "loop", "error", "fail", "disconnect"}
MainPlace == Begun \cup {"off", "kill", "reap", "free", "gone"}
WorkerPlace == {"off", "wait", "loop", "fail", "disconnect", "gone"}
Place == MainPlace \cup WorkerPlace

Typed == /\ label \in {"Connect", "Disconnect"} /\ sensitive \in BOOLEAN
         /\ client_event_type \in {"connect", "error", "disconnect"}
         /\ event_mutex \in Agent \cup {Nobody}
         /\ callbacks \in Seq({"code", "null"})
         /\ crashed \in BOOLEAN /\ lost \in BOOLEAN /\ silent \in BOOLEAN
         /\ runs \in 0..MaxRuns /\ g_state \in 0..runs
         /\ pc \in [Agent -> Place]
         /\ \A r \in Run : pc[r, "main"] \in MainPlace /\ \A w \in Worker : pc[r, w] \in WorkerPlace
         /\ settled \subseteq 1..runs /\ freed \subseteq 1..runs

(* A thread that holds the mutex stands where it posted the event last     *)
(* posted, and unless its callback was dropped it still waits.             *)
MutexInv ==
    event_mutex # Nobody =>
        /\ pc[event_mutex] \in DOMAIN EventAt
        /\ client_event_type = EventAt[pc[event_mutex]]
        /\ callbacks # <<>> \/ lost

(* Main threads that announced a connection and will announce its end.     *)
WillEnd(r) == \/ pc[r, "main"] \in {"loop", "fail", "disconnect"}
              \/ pc[r, "main"] = "connect" /\ event_mutex = <<r, "main">>

(* The button shows the last event when all callbacks have run; if that    *)
(* was a connection, its run is still on.                                  *)
LabelInv ==
    /\ ~crashed /\ callbacks = <<>> /\ ~lost /\ label = "Disconnect" =>
          client_event_type = "connect"
    /\ client_event_type = "connect" =>
          \/ label = "Connect" /\ callbacks = <<>> /\ event_mutex = Nobody
          \/ \E r \in Run : WillEnd(r)

(* A button that was taken away will be given back.                        *)
ButtonInv ==
    ~sensitive /\ ~crashed =>
        \/ silent \/ lost \/ callbacks # <<>>
        \/ \E r \in Run : pc[r, "main"] \in Begun

Early == {"config", "init", "error", "free"}   \* no thread was created

(* Runs not begun, runs without workers, and runs that were freed.         *)
RunInv ==
    /\ \A r \in Run, t \in Thread : r > runs => pc[r, t] = "off"
    /\ \A r \in Run, w \in Worker : pc[r, "main"] \in Early => pc[r, w] = "off"
    /\ \A r \in freed : Over(r)
    /\ \A r \in Run : r =< runs => pc[r, "main"] # "off"

(* What a run that had the process to itself keeps for itself.             *)
AloneInv ==
    \A r \in settled : Running(r) =>
        /\ runs = r /\ \A q \in Run \ {r} : Over(q)
        /\ label = "Connect" => ~sensitive
        /\ callbacks # <<>> \/ event_mutex # Nobody => client_event_type = "connect"

(* g_state names it while no other run has got that far.                   *)
StateInv ==
    g_state \in settled =>
        \A r \in Run \ {g_state} : pc[r, "main"] \in {"off", "config", "gone"}

GuiInv == /\ Typed /\ MutexInv /\ LabelInv /\ ButtonInv /\ RunInv /\ AloneInv /\ StateInv

-----------------------------------------------------------------------------
(* A thread that goes on to another place.                                 *)

MainMove(from, to) ==
    \/ from = "config" /\ to \in {"init", "gone"}
    \/ from = "init" /\ to \in {"error", "free"}
    \/ from = "error" /\ to = "free"
    \/ from = "ready" /\ to \in {"connect", "loop"}
    \/ from = "connect" /\ to = "loop"
    \/ from = "loop" /\ to \in {"fail", "disconnect"}
    \/ from = "fail" /\ to = "disconnect"
    \/ from = "disconnect" /\ to = "kill"
    \/ from = "kill" /\ to = "reap"
    \/ from \in {"free", "reap"} /\ to = "gone"

WorkerMove(from, to) ==
    \/ from = "wait" /\ to = "loop"
    \/ from = "loop" /\ to \in {"fail", "disconnect"}
    \/ from = "fail" /\ to = "disconnect"
    \/ from = "disconnect" /\ to = "gone"

Moves(r, t, to) ==
    /\ pc' = [pc EXCEPT ![<<r, t>>] = to]
    /\ IF t = "main" THEN MainMove(pc[r, t], to) ELSE WorkerMove(pc[r, t], to)

LEMMA Places ==
    ASSUME Typed, NEW r \in Run, NEW t \in Thread, NEW to, Moves(r, t, to)
    PROVE  /\ pc[r, t] \notin {"off", "gone"} /\ to \notin {"off", "config", "wait"}
           /\ pc' \in [Agent -> Place] /\ pc'[r, t] = to
           /\ \A q \in Run, u \in Thread : (q # r \/ u # t) => pc'[q, u] = pc[q, u]
           /\ \A q \in Run : /\ pc'[q, "main"] \in MainPlace
                            /\ \A w \in Worker : pc'[q, w] \in WorkerPlace
<1>1. pc \in [Agent -> Place] /\ <<r, t>> \in Agent
    BY DEF Typed, Agent
<1>2. pc[r, t] \notin {"off", "gone"} /\ to \notin {"off", "config", "wait"}
    BY DEF Moves, MainMove, WorkerMove
<1>3. /\ to \in Place
      /\ IF t = "main" THEN to \in MainPlace ELSE to \in WorkerPlace
    BY DEF Moves, MainMove, WorkerMove, Place, MainPlace, WorkerPlace, Begun
<1>4. pc' \in [Agent -> Place] /\ pc'[r, t] = to
    BY <1>1, <1>3 DEF Moves
<1>5. ASSUME NEW q \in Run, NEW u \in Thread, q # r \/ u # t PROVE pc'[q, u] = pc[q, u]
    <2>1. <<q, u>> \in Agent /\ <<q, u>> # <<r, t>>
        BY <1>5 DEF Agent
    <2> QED
        BY <1>1, <2>1 DEF Moves
<1>6. \A q \in Run, u \in Thread : (q # r \/ u # t) => pc'[q, u] = pc[q, u]
    BY <1>5
<1>7. \A w \in Worker : w \in Thread /\ w # "main"
    BY GuiAssumption DEF Thread
<1>8. "main" \in Thread
    BY DEF Thread
<1>9. ASSUME NEW q \in Run
      PROVE  pc'[q, "main"] \in MainPlace /\ \A w \in Worker : pc'[q, w] \in WorkerPlace
    <2>1. pc'[q, "main"] \in MainPlace
        BY <1>3, <1>4, <1>6, <1>8 DEF Typed
    <2>2. ASSUME NEW w \in Worker PROVE pc'[q, w] \in WorkerPlace
        BY <1>3, <1>4, <1>6, <1>7 DEF Typed
    <2> QED
        BY <2>1, <2>2
<1> QED
    BY <1>2, <1>4, <1>6, <1>9

LEMMA ThreadNames == "main" \in Thread /\ \A w \in Worker : w \in Thread /\ w # "main"
    BY GuiAssumption DEF Thread

LEMMA EventKinds ==
    /\ DOMAIN EventAt = {"connect", "error", "fail", "disconnect"}
    /\ EventAt["connect"] = "connect" /\ EventAt["error"] = "error"
    /\ EventAt["fail"] = "error" /\ EventAt["disconnect"] = "disconnect"
    BY DEF EventAt

LEMMA SettledAreRuns == Typed => settled \subseteq Run /\ freed \subseteq Run
<1> SUFFICES ASSUME Typed, NEW r \in settled \cup freed PROVE r \in Run
    OBVIOUS
<1>1. MaxRuns \in Nat
    BY GuiAssumption
<1>2. r \in 1..runs /\ runs \in 0..MaxRuns
    BY DEF Typed
<1> QED
    BY <1>1, <1>2 DEF Run

LEMMA RunNumbers ==
    Typed => (1..runs \subseteq 0..runs) /\ (\A r \in Run : r \in 1..runs \/ r > runs)
<1> SUFFICES ASSUME Typed
             PROVE  (1..runs \subseteq 0..runs) /\ (\A r \in Run : r \in 1..runs \/ r > runs)
    OBVIOUS
<1>1. MaxRuns \in Nat
    BY GuiAssumption
<1>2. runs \in 0..MaxRuns
    BY DEF Typed
<1>3. runs \in Nat
    BY <1>1, <1>2
<1>4. \A r \in 1..MaxRuns : r \in 1..runs \/ r > runs
    BY <1>1, <1>3
<1> QED
    BY <1>3, <1>4 DEF Run

LEMMA RunIsBegun ==
    ASSUME Typed, RunInv, NEW r \in Run, NEW t \in Thread, pc[r, t] # "off"
    PROVE  r \in 1..runs
<1>1. ~(r > runs)
    BY DEF RunInv
<1> QED
    BY <1>1, RunNumbers

LEMMA MoveKeepsRunInv ==
    ASSUME GuiInv, NEW r \in Run, NEW t \in Thread, NEW to, Moves(r, t, to), runs' = runs,
           \/ freed' = freed
           \/ /\ freed' = freed \cup {r} /\ t = "main" /\ to = "gone"
              /\ \A w \in Worker : pc[r, w] \in {"off", "gone"}
    PROVE  RunInv'
<1>1. Typed /\ RunInv
    BY DEF GuiInv
<1>2. /\ pc[r, t] \notin {"off", "gone"} /\ to \notin {"off", "config", "wait"}
      /\ pc'[r, t] = to
      /\ \A q \in Run, u \in Thread : (q # r \/ u # t) => pc'[q, u] = pc[q, u]
    BY <1>1, Places
<1>3. ASSUME NEW q \in Run, NEW u \in Thread, q > runs' PROVE pc'[q, u] = "off"
    <2>1. pc[q, u] = "off" /\ pc[q, t] = "off"
        BY <1>1, <1>3 DEF RunInv
    <2> QED
        BY <1>2, <2>1
<1>4. ASSUME NEW q \in Run, NEW w \in Worker, pc'[q, "main"] \in Early PROVE pc'[q, w] = "off"
    <2>1. pc[q, "main"] \in Early
        <3>1. CASE q = r /\ t = "main"
            BY <1>2, <1>4, <3>1 DEF Moves, MainMove, Early
        <3>2. CASE ~(q = r /\ t = "main")
            BY <1>2, <1>4, <3>2, ThreadNames
        <3> QED
            BY <3>1, <3>2
    <2>2. pc[q, w] = "off"
        BY <1>1, <2>1 DEF RunInv
    <2>3. q # r \/ w # t
        BY <1>2, <2>2
    <2> QED
        BY <1>2, <2>2, <2>3, ThreadNames
<1>5. ASSUME NEW q \in freed' PROVE Over(q)'
    <2>1. CASE q \in freed
        <3>1. Over(q) /\ q \in Run
            BY <1>1, <2>1, SettledAreRuns DEF RunInv
        <3>2. q # r
            BY <1>2, <3>1 DEF Over
        <3> QED
            BY <1>2, <3>1, <3>2 DEF Over
    <2>2. CASE q \notin freed
        <3>1. /\ q = r /\ t = "main" /\ to = "gone"
              /\ \A w \in Worker : pc[r, w] \in {"off", "gone"}
            BY <1>5, <2>2
        <3>2. \A u \in Thread : u = "main" \/ u \in Worker
            BY DEF Thread
        <3> QED
            BY <1>2, <3>1, <3>2 DEF Over
    <2> QED
        BY <2>1, <2>2
<1>6. \A q \in Run : q =< runs' => pc'[q, "main"] # "off"
    BY <1>1, <1>2, ThreadNames DEF RunInv
<1> QED
    BY <1>3, <1>4, <1>5, <1>6 DEF RunInv

LEMMA MoveKeepsAlone ==
    ASSUME GuiInv, NEW r \in Run, NEW t \in Thread, NEW to, Moves(r, t, to),
           UNCHANGED <<label, client_event_type, callbacks, runs, settled>>,
           event_mutex' \in {event_mutex, Nobody},
           sensitive' = sensitive \/ (t = "main" /\ to = "gone")
    PROVE  AloneInv'
<1>1. Typed /\ AloneInv
    BY DEF GuiInv
<1>2. /\ pc[r, t] \notin {"off", "gone"} /\ pc'[r, t] = to
      /\ \A q \in Run, u \in Thread : (q # r \/ u # t) => pc'[q, u] = pc[q, u]
    BY <1>1, Places
<1> SUFFICES ASSUME NEW q \in settled, Running(q)'
             PROVE  /\ runs' = q /\ \A p \in Run \ {q} : Over(p)'
                    /\ label' = "Connect" => ~sensitive'
                    /\ callbacks' # <<>> \/ event_mutex' # Nobody => client_event_type' = "connect"
    BY DEF AloneInv
<1>3. q \in Run
    BY <1>1, SettledAreRuns
<1>4. Running(q)
    <2>1. pc[q, "main"] \in {"config", "init", "ready", "connect", "loop"}
        <3>1. CASE q = r /\ t = "main"
            BY <1>2, <1>3, <3>1 DEF Running, Moves, MainMove
        <3>2. CASE ~(q = r /\ t = "main")
            BY <1>2, <1>3, <3>2, ThreadNames DEF Running
        <3> QED
            BY <3>1, <3>2
    <2>2. ASSUME NEW w \in Worker PROVE pc[q, w] \in {"off", "wait", "loop"}
        <3>1. CASE q = r /\ t = w
            BY <1>2, <1>3, <3>1, ThreadNames DEF Running, Moves, WorkerMove
        <3>2. CASE ~(q = r /\ t = w)
            BY <1>2, <1>3, <3>2, ThreadNames DEF Running
        <3> QED
            BY <3>1, <3>2
    <2> QED
        BY <2>1, <2>2 DEF Running
<1>5. /\ runs = q /\ \A p \in Run \ {q} : Over(p)
      /\ label = "Connect" => ~sensitive
      /\ callbacks # <<>> \/ event_mutex # Nobody => client_event_type = "connect"
    BY <1>1, <1>4 DEF AloneInv
<1>6. r = q
    BY <1>2, <1>5 DEF Over
<1>7. ~(t = "main" /\ to = "gone")
    BY <1>2, <1>6 DEF Running
<1>8. ASSUME NEW p \in Run \ {q} PROVE Over(p)'
    BY <1>2, <1>5, <1>6 DEF Over
<1> QED
    BY <1>5, <1>7, <1>8

LEMMA MoveKeepsLabel ==
    ASSUME GuiInv, NEW r \in Run, NEW t \in Thread, NEW to, Moves(r, t, to),
           UNCHANGED <<label, client_event_type, callbacks, crashed, lost>>,
           \/ event_mutex' = event_mutex /\ pc[r, t] \notin DOMAIN EventAt
           \/ event_mutex = <<r, t>> /\ event_mutex' = Nobody
    PROVE  LabelInv'
<1>1. Typed /\ LabelInv /\ MutexInv
    BY DEF GuiInv
<1>2. /\ pc'[r, t] = to
      /\ \A q \in Run, u \in Thread : (q # r \/ u # t) => pc'[q, u] = pc[q, u]
    BY <1>1, Places
<1>3. ASSUME client_event_type = "connect", NEW q \in Run, WillEnd(q) PROVE WillEnd(q)'
    <2>1. CASE q = r /\ t = "main"
        <3>1. CASE event_mutex' = event_mutex /\ pc[r, t] \notin DOMAIN EventAt
            <4>1. pc[r, t] = "loop"
                BY <1>3, <2>1, <3>1, EventKinds DEF WillEnd
            <4> QED
                BY <1>2, <2>1, <4>1 DEF Moves, MainMove, WillEnd
        <3>2. CASE event_mutex = <<r, t>> /\ event_mutex' = Nobody
            <4>1. event_mutex # Nobody
                BY <3>2 DEF Nobody, Run
            <4>2. pc[r, t] \in DOMAIN EventAt /\ EventAt[pc[r, t]] = "connect"
                BY <1>1, <1>3, <3>2, <4>1 DEF MutexInv
            <4>3. pc[r, t] = "connect"
                BY <4>2, EventKinds
            <4> QED
                BY <1>2, <2>1, <4>3 DEF Moves, MainMove, WillEnd
        <3> QED
            BY <3>1, <3>2
    <2>2. CASE ~(q = r /\ t = "main")
        <3>1. pc'[q, "main"] = pc[q, "main"]
            BY <1>2, <2>2, ThreadNames
        <3>2. <<q, "main">> # <<r, t>>
            BY <2>2
        <3>3. event_mutex = <<q, "main">> => event_mutex' = event_mutex
            BY <3>2
        <3> QED
            BY <1>3, <3>1, <3>3 DEF WillEnd
    <2> QED
        BY <2>1, <2>2
<1>4. client_event_type' = "connect" =>
        \/ label' = "Connect" /\ callbacks' = <<>> /\ event_mutex' = Nobody
        \/ \E q \in Run : WillEnd(q)'
    <2> SUFFICES ASSUME client_event_type = "connect"
                 PROVE  \/ label' = "Connect" /\ callbacks' = <<>> /\ event_mutex' = Nobody
                        \/ \E q \in Run : WillEnd(q)'
        OBVIOUS
    <2>1. CASE label = "Connect" /\ callbacks = <<>> /\ event_mutex = Nobody
        BY <2>1
    <2>2. CASE \E q \in Run : WillEnd(q)
        BY <1>3, <2>2
    <2> QED
        BY <1>1, <2>1, <2>2 DEF LabelInv
<1>5. ~crashed' /\ callbacks' = <<>> /\ ~lost' /\ label' = "Disconnect" =>
          client_event_type' = "connect"
    BY <1>1 DEF LabelInv
<1> QED
    BY <1>4, <1>5 DEF LabelInv

LEMMA MoveKeepsMutex ==
    ASSUME GuiInv, NEW r \in Run, NEW t \in Thread, NEW to, Moves(r, t, to),
           UNCHANGED <<client_event_type, callbacks, lost>>,
           \/ event_mutex' = event_mutex /\ pc[r, t] \notin DOMAIN EventAt
           \/ event_mutex = <<r, t>> /\ event_mutex' = Nobody
    PROVE  MutexInv'
<1> SUFFICES ASSUME event_mutex' # Nobody
             PROVE  /\ pc'[event_mutex] \in DOMAIN EventAt
                    /\ client_event_type = EventAt[pc'[event_mutex]]
                    /\ callbacks # <<>> \/ lost
    BY DEF MutexInv
<1>1. event_mutex' = event_mutex /\ pc[r, t] \notin DOMAIN EventAt
    OBVIOUS
<1>2. /\ pc[event_mutex] \in DOMAIN EventAt /\ client_event_type = EventAt[pc[event_mutex]]
      /\ callbacks # <<>> \/ lost
    BY <1>1 DEF GuiInv, MutexInv
<1>3. event_mutex \in Agent /\ event_mutex # <<r, t>>
    BY <1>1, <1>2 DEF GuiInv, Typed
<1>4. pc'[event_mutex] = pc[event_mutex]
    BY <1>3 DEF GuiInv, Typed, Moves
<1> QED
    BY <1>2, <1>4

LEMMA MoveKeepsButton ==
    ASSUME GuiInv, NEW r \in Run, NEW t \in Thread, NEW to, Moves(r, t, to),
           UNCHANGED <<callbacks, crashed, lost>>,
           sensitive => sensitive', silent => silent',
           (t = "main" /\ pc[r, t] \in Begun /\ to \notin Begun) =>
               (silent' \/ sensitive' \/ callbacks # <<>> \/ lost)
    PROVE  ButtonInv'
<1>1. /\ pc'[r, t] = to
      /\ \A q \in Run, u \in Thread : (q # r \/ u # t) => pc'[q, u] = pc[q, u]
    BY Places DEF GuiInv
<1> SUFFICES ASSUME ~sensitive', ~crashed, ~silent', ~lost, callbacks = <<>>
             PROVE  \E q \in Run : pc'[q, "main"] \in Begun
    BY DEF ButtonInv
<1>2. PICK q \in Run : pc[q, "main"] \in Begun
    BY DEF GuiInv, ButtonInv
<1>3. pc'[q, "main"] \in Begun
    <2>1. CASE q = r /\ t = "main"
        BY <1>1, <1>2, <2>1
    <2>2. CASE ~(q = r /\ t = "main")
        BY <1>1, <1>2, <2>2, ThreadNames
    <2> QED
        BY <2>1, <2>2
<1> QED
    BY <1>3

LEMMA MoveKeepsState ==
    ASSUME GuiInv, NEW r \in Run, NEW t \in Thread, NEW to, Moves(r, t, to),
           settled' = settled,
           \/ g_state' = g_state /\ (pc[r, t] # "config" \/ to = "gone")
           \/ g_state' = r /\ t = "main" /\ pc[r, t] = "config"
    PROVE  StateInv'
<1>1. /\ pc[r, t] \notin {"off", "gone"} /\ pc'[r, t] = to
      /\ \A q \in Run, u \in Thread : (q # r \/ u # t) => pc'[q, u] = pc[q, u]
    BY Places DEF GuiInv
<1> SUFFICES ASSUME g_state' \in settled, NEW q \in Run \ {g_state'}
             PROVE  pc'[q, "main"] \in {"off", "config", "gone"}
    BY DEF StateInv
<1>2. CASE g_state' = g_state /\ (pc[r, t] # "config" \/ to = "gone")
    <2>1. pc[q, "main"] \in {"off", "config", "gone"}
        BY <1>2 DEF GuiInv, StateInv
    <2>2. CASE q = r /\ t = "main"
        BY <1>1, <1>2, <2>1, <2>2
    <2>3. CASE ~(q = r /\ t = "main")
        BY <1>1, <2>1, <2>3, ThreadNames
    <2> QED
        BY <2>2, <2>3
<1>3. CASE g_state' = r /\ t = "main" /\ pc[r, t] = "config"
    <2>1. \A w \in Worker : pc[r, w] = "off"
        BY <1>3 DEF GuiInv, RunInv, Early
    <2>2. Running(r)
        BY <1>3, <2>1 DEF Running
    <2>3. Over(q)
        BY <1>3, <2>2 DEF GuiInv, AloneInv
    <2>4. pc[q, "main"] \in {"off", "gone"}
        BY <2>3, ThreadNames DEF Over
    <2> QED
        BY <1>1, <1>3, <2>4, ThreadNames
<1> QED
    BY <1>2, <1>3

(* A thread that goes on keeps the invariant when it leaves a place where  *)
(* it posts by giving up the mutex, and a main thread that has nothing     *)
(* more to announce has done so, gave the button back, or counts as        *)
(* silent.                                                                 *)
LEMMA MoveKeeps ==
    ASSUME GuiInv, NEW r \in Run, NEW t \in Thread, NEW to, Moves(r, t, to),
           UNCHANGED <<label, client_event_type, callbacks, crashed, lost, runs, settled>>,
           \/ event_mutex' = event_mutex /\ pc[r, t] \notin DOMAIN EventAt
           \/ event_mutex = <<r, t>> /\ event_mutex' = Nobody,
           \/ g_state' = g_state /\ (pc[r, t] # "config" \/ to = "gone")
           \/ g_state' = r /\ t = "main" /\ pc[r, t] = "config",
           sensitive' = sensitive \/ (sensitive' = TRUE /\ t = "main" /\ to = "gone"),
           silent' = silent \/ silent' = TRUE,
           (t = "main" /\ pc[r, t] \in Begun /\ to \notin Begun) =>
               (silent' \/ sensitive' \/ callbacks # <<>> \/ lost),
           \/ freed' = freed
           \/ /\ freed' = freed \cup {r} /\ t = "main" /\ to = "gone"
              /\ \A w \in Worker : pc[r, w] \in {"off", "gone"}
    PROVE  GuiInv'
<1>1. Typed'
    <2>1. /\ pc[r, t] # "off" /\ pc' \in [Agent -> Place]
          /\ \A q \in Run : /\ pc'[q, "main"] \in MainPlace
                           /\ \A w \in Worker : pc'[q, w] \in WorkerPlace
        BY Places DEF GuiInv
    <2>2. sensitive' \in BOOLEAN /\ silent' \in BOOLEAN
        BY DEF GuiInv, Typed
    <2>3. event_mutex' \in Agent \cup {Nobody} /\ freed' \subseteq 1..runs
        BY <2>1, RunIsBegun DEF GuiInv, Typed
    <2>4. g_state' \in 0..runs
        <3>1. r \in 1..runs
            BY <2>1, RunIsBegun DEF GuiInv
        <3>2. g_state \in 0..runs /\ (1..runs \subseteq 0..runs)
            BY RunNumbers DEF GuiInv, Typed
        <3>3. g_state' = g_state \/ g_state' = r
            OBVIOUS
        <3> QED
            BY <3>1, <3>2, <3>3
    <2> QED
        BY <2>1, <2>2, <2>3, <2>4 DEF GuiInv, Typed
<1>2. MutexInv' /\ LabelInv'
    BY MoveKeepsMutex, MoveKeepsLabel
<1>3. ButtonInv'
    <2>1. sensitive \in BOOLEAN /\ silent \in BOOLEAN
        BY DEF GuiInv, Typed
    <2>2. sensitive => sensitive'
        BY <2>1
    <2>3. silent => silent'
        BY <2>1
    <2> QED
        BY <2>2, <2>3, MoveKeepsButton
<1>4. RunInv'
    BY MoveKeepsRunInv
<1>5. AloneInv'
    <2>1. /\ event_mutex' \in {event_mutex, Nobody}
          /\ sensitive' = sensitive \/ (t = "main" /\ to = "gone")
        OBVIOUS
    <2> QED
        BY <2>1, MoveKeepsAlone
<1>6. StateInv'
    BY MoveKeepsState
<1> QED
    BY <1>1, <1>2, <1>3, <1>4, <1>5, <1>6 DEF GuiInv

-----------------------------------------------------------------------------
(* The threads of the runs.                                                *)

LEMMA NobodyIsNoAgent == \A a \in Agent : a # Nobody
    BY DEF Agent, Nobody, Run

LEMMA AgentParts == \A a \in Agent : \E r \in Run, t \in Thread : a = <<r, t>>
    BY DEF Agent

LEMMA PostedKeeps == ASSUME GuiInv, NEW a \in Agent, Posted(a) PROVE GuiInv'
<1>1. PICK r \in Run, t \in Thread : a = <<r, t>>
    BY AgentParts
<1>2. /\ event_mutex = <<r, t>> /\ event_mutex' = Nobody /\ event_mutex # Nobody
      /\ UNCHANGED <<label, sensitive, client_event_type, callbacks, crashed, lost, runs,
                     settled, g_state, silent, freed>>
    BY <1>1, NobodyIsNoAgent DEF Posted, ui_vars
<1>3. pc[r, t] \in DOMAIN EventAt /\ (callbacks # <<>> \/ lost)
    BY <1>2 DEF GuiInv, MutexInv
<1>4. pc[r, t] \in {"connect", "error", "fail", "disconnect"}
    BY <1>3, EventKinds
<1>5. t # "main" => pc[r, t] \in {"fail", "disconnect"}
    <2> SUFFICES ASSUME t # "main" PROVE pc[r, t] \in {"fail", "disconnect"}
        OBVIOUS
    <2>1. t \in Worker
        BY DEF Thread
    <2>2. pc[r, t] \in WorkerPlace
        BY <2>1 DEF GuiInv, Typed
    <2> QED
        BY <1>4, <2>2 DEF WorkerPlace
<1> DEFINE to == CASE pc[r, t] = "connect" -> "loop"
                   [] pc[r, t] = "error" -> "free"
                   [] pc[r, t] = "fail" -> "disconnect"
                   [] pc[r, t] = "disconnect" -> IF t = "main" THEN "kill" ELSE "gone"
<1>6. pc' = [pc EXCEPT ![<<r, t>>] = to]
    BY <1>1 DEF Posted, Goto
<1>7. IF t = "main" THEN MainMove(pc[r, t], to) ELSE WorkerMove(pc[r, t], to)
    BY <1>4, <1>5 DEF MainMove, WorkerMove
<1>8. Moves(r, t, to)
    BY <1>6, <1>7 DEF Moves
<1>9. pc[r, t] # "config"
    BY <1>4
<1> HIDE DEF to
<1> QED
    BY <1>2, <1>3, <1>8, <1>9, MoveKeeps

LEMMA ConfigureKeeps == ASSUME GuiInv, NEW r \in Run, Configure(r) PROVE GuiInv'
<1>1. /\ UNCHANGED <<label, client_event_type, callbacks, crashed, lost, runs, settled,
                     event_mutex, freed>>
      /\ pc[r, "main"] = "config"
    BY DEF Configure, evt_vars
<1>2. pc[r, "main"] \notin DOMAIN EventAt
    BY <1>1, EventKinds
<1>3. \/ /\ Moves(r, "main", "init") /\ g_state' = r
         /\ UNCHANGED <<sensitive, silent>>
      \/ /\ Moves(r, "main", "gone") /\ g_state' = g_state
         /\ sensitive' = TRUE /\ silent' = silent
      \/ /\ Moves(r, "main", "gone") /\ g_state' = g_state
         /\ silent' = TRUE /\ sensitive' = sensitive
    BY <1>1 DEF Configure, Goto, Moves, MainMove
<1>4. CASE Moves(r, "main", "init") /\ g_state' = r /\ UNCHANGED <<sensitive, silent>>
    <2>1. "init" \in Begun
        BY DEF Begun
    <2> QED
        BY <1>1, <1>2, <1>4, <2>1, ThreadNames, MoveKeeps
<1>5. CASE /\ Moves(r, "main", "gone") /\ g_state' = g_state
           /\ sensitive' = TRUE /\ silent' = silent
    BY <1>1, <1>2, <1>5, ThreadNames, MoveKeeps
<1>6. CASE /\ Moves(r, "main", "gone") /\ g_state' = g_state
           /\ silent' = TRUE /\ sensitive' = sensitive
    BY <1>1, <1>2, <1>6, ThreadNames, MoveKeeps
<1> QED
    BY <1>3, <1>4, <1>5, <1>6

LEMMA MainReadyKeeps == ASSUME GuiInv, NEW r \in Run, MainReady(r) PROVE GuiInv'
<1>1. PICK to \in {"connect", "loop"} : Goto(<<r, "main">>, to)
    BY DEF MainReady
<1>2. /\ UNCHANGED <<label, sensitive, client_event_type, callbacks, crashed, lost, runs,
                     settled, event_mutex, g_state, silent, freed>>
      /\ pc[r, "main"] = "ready"
    BY DEF MainReady, evt_vars, ui_vars
<1>3. Moves(r, "main", to) /\ to \in Begun
    BY <1>1, <1>2 DEF Goto, Moves, MainMove, Begun
<1>4. pc[r, "main"] \notin DOMAIN EventAt /\ pc[r, "main"] # "config"
    BY <1>2, EventKinds
<1> QED
    BY <1>2, <1>3, <1>4, ThreadNames, MoveKeeps

LEMMA WorkerReadyKeeps ==
    ASSUME GuiInv, NEW r \in Run, NEW w \in Worker, WorkerReady(r, w) PROVE GuiInv'
<1>1. /\ UNCHANGED <<label, sensitive, client_event_type, callbacks, crashed, lost, runs,
                     settled, event_mutex, g_state, silent, freed>>
      /\ pc[r, w] = "wait"
    BY DEF WorkerReady, evt_vars, ui_vars
<1>2. Moves(r, w, "loop")
    BY <1>1, ThreadNames DEF WorkerReady, Goto, Moves, WorkerMove
<1>3. pc[r, w] \notin DOMAIN EventAt /\ pc[r, w] # "config" /\ pc[r, w] \notin Begun
    BY <1>1, EventKinds DEF Begun
<1> QED
    BY <1>1, <1>2, <1>3, ThreadNames, MoveKeeps

LEMMA LeaveLoopKeeps == ASSUME GuiInv, NEW a \in Agent, LeaveLoop(a) PROVE GuiInv'
<1>1. PICK r \in Run, t \in Thread : a = <<r, t>>
    BY AgentParts
<1>2. /\ UNCHANGED <<label, sensitive, client_event_type, callbacks, crashed, lost, runs,
                     settled, event_mutex, g_state, silent, freed>>
      /\ pc[r, t] = "loop"
    BY <1>1 DEF LeaveLoop, evt_vars, ui_vars
<1>3. PICK to \in {"fail", "disconnect"} : pc' = [pc EXCEPT ![<<r, t>>] = to]
    BY <1>1 DEF LeaveLoop, Goto
<1>4. Moves(r, t, to) /\ to \in Begun
    BY <1>2, <1>3 DEF Moves, MainMove, WorkerMove, Begun
<1>5. pc[r, t] \notin DOMAIN EventAt /\ pc[r, t] # "config"
    BY <1>2, EventKinds
<1> QED
    BY <1>2, <1>4, <1>5, MoveKeeps

LEMMA KillKeeps == ASSUME GuiInv, NEW r \in Run, Kill(r) PROVE GuiInv'
<1>1. /\ UNCHANGED <<label, sensitive, client_event_type, callbacks, crashed, lost, runs,
                     settled, event_mutex, g_state, silent, freed>>
      /\ pc[r, "main"] = "kill"
    BY DEF Kill, evt_vars, ui_vars
<1>2. Moves(r, "main", "reap")
    BY <1>1 DEF Kill, Goto, Moves, MainMove
<1>3. pc[r, "main"] \notin DOMAIN EventAt /\ pc[r, "main"] # "config" /\ pc[r, "main"] \notin Begun
    BY <1>1, EventKinds DEF Begun
<1> QED
    BY <1>1, <1>2, <1>3, ThreadNames, MoveKeeps

LEMMA EndRunKeeps == ASSUME GuiInv, NEW r \in Run, EndRun(r) PROVE GuiInv'
<1>1. /\ UNCHANGED <<label, sensitive, client_event_type, callbacks, crashed, lost, runs,
                     settled, event_mutex, g_state, silent>>
      /\ pc[r, "main"] \in {"free", "reap"}
    BY DEF EndRun, evt_vars, ui_vars
<1>2. Moves(r, "main", "gone")
    BY <1>1 DEF EndRun, Goto, Moves, MainMove
<1>3. pc[r, "main"] \notin DOMAIN EventAt /\ pc[r, "main"] # "config" /\ pc[r, "main"] \notin Begun
    BY <1>1, EventKinds DEF Begun
<1>4. \/ freed' = freed
      \/ freed' = freed \cup {r} /\ \A w \in Worker : pc[r, w] \in {"off", "gone"}
    <2>1. pc[r, "main"] = "free" => \A w \in Worker : pc[r, w] \in {"off", "gone"}
        BY DEF GuiInv, RunInv, Early
    <2> QED
        BY <2>1 DEF EndRun
<1> QED
    BY <1>1, <1>2, <1>3, <1>4, ThreadNames, MoveKeeps

(* init_state() fails, or the threads are created, as far as they can be.  *)
LEMMA ConnectsKeeps == ASSUME GuiInv, NEW r \in Run, Connects(r) PROVE GuiInv'
<1>1. /\ UNCHANGED <<label, sensitive, client_event_type, callbacks, crashed, lost, runs,
                     settled, event_mutex, g_state, freed>>
      /\ pc[r, "main"] = "init"
    BY DEF Connects, evt_vars, ui_vars
<1>2. /\ pc[r, "main"] \notin DOMAIN EventAt /\ pc[r, "main"] # "config"
      /\ "error" \in Begun
    BY <1>1, EventKinds DEF Begun
<1>3. CASE Goto(<<r, "main">>, "error") /\ UNCHANGED silent
    <2>1. Moves(r, "main", "error")
        BY <1>1, <1>3 DEF Goto, Moves, MainMove
    <2> QED
        BY <1>1, <1>2, <1>3, <2>1, ThreadNames, MoveKeeps
<1>4. CASE Goto(<<r, "main">>, "free") /\ silent' = TRUE
    <2>1. Moves(r, "main", "free")
        BY <1>1, <1>4 DEF Goto, Moves, MainMove
    <2> QED
        BY <1>1, <1>2, <1>4, <2>1, ThreadNames, MoveKeeps
<1>5. ASSUME NEW new \in SUBSET Worker, NEW next \in {"ready", "kill"},
             pc' = [a \in Agent |->
                       IF a = <<r, "main">> THEN next
                       ELSE IF a[1] = r /\ a[2] \in new THEN "wait" ELSE pc[a]],
             silent' = (silent \/ next = "kill")
      PROVE  GuiInv'
    <2>1. Typed /\ MutexInv /\ LabelInv /\ ButtonInv /\ RunInv /\ AloneInv /\ StateInv
        BY DEF GuiInv
    <2>2. \A w \in Worker : pc[r, w] = "off"
        BY <1>1, <2>1 DEF RunInv, Early
    <2>3. \A q \in Run, u \in Thread : <<q, u>> \in Agent /\ <<q, u>>[1] = q /\ <<q, u>>[2] = u
        BY DEF Agent
    <2>4. pc'[r, "main"] = next
        BY <1>5, <2>3, ThreadNames
    <2>5. ASSUME NEW w \in Worker PROVE pc'[r, w] \in {"off", "wait"}
        <3>1. <<r, w>> \in Agent /\ <<r, w>> # <<r, "main">> /\ <<r, w>>[1] = r /\ <<r, w>>[2] = w
            BY <2>3, ThreadNames
        <3>2. pc'[<<r, w>>] = IF w \in new THEN "wait" ELSE pc[<<r, w>>]
            BY <1>5, <3>1
        <3> QED
            BY <2>2, <3>2
    <2>6. ASSUME NEW q \in Run, NEW u \in Thread, q # r PROVE pc'[q, u] = pc[q, u]
        <3>1. <<q, u>> \in Agent /\ <<q, u>> # <<r, "main">> /\ <<q, u>>[1] # r
            BY <2>3, <2>6
        <3> QED
            BY <1>5, <3>1
    <2>7. ASSUME NEW q \in Run
          PROVE  pc'[q, "main"] \in MainPlace /\ \A w \in Worker : pc'[q, w] \in WorkerPlace
        <3>1. CASE q = r
            BY <2>4, <2>5, <3>1 DEF MainPlace, WorkerPlace, Begun
        <3>2. CASE q # r
            BY <2>1, <2>6, <3>2, ThreadNames DEF Typed
        <3> QED
            BY <3>1, <3>2
    <2>8. pc' \in [Agent -> Place]
        <3>1. ASSUME NEW q \in Run, NEW u \in Thread PROVE pc'[<<q, u>>] \in Place
            BY <2>7 DEF Place, Thread
        <3>2. \A a \in Agent : pc'[a] \in Place
            BY <3>1, AgentParts
        <3> QED
            BY <1>5, <3>2
    <2>9. Typed'
        <3>1. silent' \in BOOLEAN
            BY <1>5
        <3> QED
            BY <1>1, <2>1, <2>7, <2>8, <3>1 DEF Typed
    <2>10. MutexInv'
        <3> SUFFICES ASSUME event_mutex # Nobody PROVE pc'[event_mutex] = pc[event_mutex]
            BY <1>1, <2>1 DEF MutexInv
        <3>1. event_mutex \in Agent /\ pc[event_mutex] \in DOMAIN EventAt
            BY <2>1 DEF Typed, MutexInv
        <3>2. PICK q \in Run, u \in Thread : event_mutex = <<q, u>>
            BY <3>1, AgentParts
        <3>3. q # r
            <4>1. pc[q, u] \notin {"init", "off"}
                BY <3>1, <3>2, EventKinds
            <4> QED
                BY <1>1, <2>2, <4>1 DEF Thread
        <3> QED
            BY <2>6, <3>2, <3>3
    <2>11. LabelInv'
        <3>1. \A q \in Run : WillEnd(q) => WillEnd(q)'
            <4> SUFFICES ASSUME NEW q \in Run, WillEnd(q) PROVE WillEnd(q)'
                OBVIOUS
            <4>1. q # r
                BY <1>1 DEF WillEnd
            <4> QED
                BY <1>1, <2>6, <4>1, ThreadNames DEF WillEnd
        <3> QED
            BY <1>1, <2>1, <3>1 DEF LabelInv
    <2>12. ButtonInv'
        <3> SUFFICES ASSUME ~silent' PROVE \E q \in Run : pc'[q, "main"] \in Begun
            BY DEF ButtonInv
        <3>1. next = "ready"
            BY <1>5
        <3> QED
            BY <2>4, <3>1 DEF Begun
    <2>13. RunInv'
        <3>1. ~(r > runs)
            BY <1>1, <2>1, ThreadNames DEF RunInv
        <3>2. runs' = runs /\ ~(r > runs)
            BY <1>1, <3>1
        <3>3. \A q \in Run, u \in Thread : q > runs' => pc'[q, u] = "off"
            BY <2>1, <2>6, <3>2 DEF RunInv
        <3>4. \A q \in Run, w \in Worker : pc'[q, "main"] \in Early => pc'[q, w] = "off"
            <4>1. pc'[r, "main"] \notin Early
                BY <2>4 DEF Early
            <4> QED
                BY <2>1, <2>6, <4>1, ThreadNames DEF RunInv
        <3>5. \A q \in freed' : Over(q)'
            <4> SUFFICES ASSUME NEW q \in freed PROVE Over(q)'
                BY <1>1
            <4>1. Over(q) /\ q \in Run
                BY <2>1, SettledAreRuns DEF RunInv
            <4>2. q # r
                BY <1>1, <4>1, ThreadNames DEF Over
            <4> QED
                BY <2>6, <4>1, <4>2 DEF Over
        <3>6. \A q \in Run : q =< runs' => pc'[q, "main"] # "off"
            BY <2>1, <2>4, <2>6, <3>2, ThreadNames DEF RunInv
        <3> QED
            BY <3>3, <3>4, <3>5, <3>6 DEF RunInv
    <2>14. AloneInv'
        <3> SUFFICES ASSUME NEW q \in settled, Running(q)'
                     PROVE  /\ runs' = q /\ \A p \in Run \ {q} : Over(p)'
                            /\ label' = "Connect" => ~sensitive'
                            /\ callbacks' # <<>> \/ event_mutex' # Nobody =>
                                    client_event_type' = "connect"
            BY <1>1 DEF AloneInv
        <3>1. q \in Run
            BY <2>1, SettledAreRuns
        <3>2. Running(q)
            <4>1. CASE q = r
                BY <1>1, <2>2, <4>1 DEF Running
            <4>2. CASE q # r
                BY <2>6, <3>1, <4>2, ThreadNames DEF Running
            <4> QED
                BY <4>1, <4>2
        <3>3. /\ runs = q /\ \A p \in Run \ {q} : Over(p)
              /\ label = "Connect" => ~sensitive
              /\ callbacks # <<>> \/ event_mutex # Nobody => client_event_type = "connect"
            BY <2>1, <3>2 DEF AloneInv
        <3>4. q = r
            BY <1>1, <3>3, ThreadNames DEF Over
        <3>5. ASSUME NEW p \in Run \ {q} PROVE Over(p)'
            BY <2>6, <3>3, <3>4 DEF Over
        <3> QED
            BY <1>1, <3>3, <3>5
    <2>15. StateInv'
        <3> SUFFICES ASSUME g_state \in settled, NEW q \in Run \ {g_state}
                     PROVE  pc'[q, "main"] \in {"off", "config", "gone"}
            BY <1>1 DEF StateInv
        <3>1. pc[q, "main"] \in {"off", "config", "gone"}
            BY <2>1 DEF StateInv
        <3>2. q # r
            BY <1>1, <3>1
        <3> QED
            BY <2>6, <3>1, <3>2, ThreadNames
    <2> QED
        BY <2>9, <2>10, <2>11, <2>12, <2>13, <2>14, <2>15 DEF GuiInv
<1> QED
    BY <1>3, <1>4, <1>5 DEF Connects

-----------------------------------------------------------------------------
(* The main loop of the toolkit.                                           *)

pool == <<runs, pc, g_state, freed, settled>>   \* what the runs are known by

(* Only the button and the events change.                                  *)
LEMMA RunsUntouched ==
    ASSUME GuiInv, UNCHANGED pool
    PROVE  /\ RunInv' /\ StateInv'
           /\ \A r \in Run : Running(r)' <=> Running(r)
           /\ \A r \in Run : Over(r)' <=> Over(r)
<1>1. UNCHANGED <<runs, pc, g_state, freed, settled>>
    BY DEF pool
<1>2. RunInv'
    BY <1>1 DEF GuiInv, RunInv, Over
<1>3. StateInv'
    BY <1>1 DEF GuiInv, StateInv
<1> QED
    BY <1>1, <1>2, <1>3 DEF Running, Over

(* What the invariant speaks about.                                        *)
seen == <<label, sensitive, client_event_type, event_mutex, callbacks, crashed, lost, silent, pool>>

LEMMA NothingSeen == ASSUME GuiInv, UNCHANGED seen PROVE GuiInv'
<1>1. /\ UNCHANGED <<label, sensitive, client_event_type, event_mutex, callbacks, crashed, lost,
                     silent>>
      /\ UNCHANGED pool
    BY DEF seen
<1>2. Typed'
    BY <1>1 DEF GuiInv, Typed, pool
<1>3. MutexInv'
    BY <1>1 DEF GuiInv, MutexInv, pool
<1>4. LabelInv'
    BY <1>1 DEF GuiInv, LabelInv, WillEnd, pool
<1>5. ButtonInv'
    BY <1>1 DEF GuiInv, ButtonInv, pool
<1>6. AloneInv'
    BY <1>1 DEF GuiInv, AloneInv, Running, Over, pool
<1> QED
    BY <1>1, <1>2, <1>3, <1>4, <1>5, <1>6, RunsUntouched DEF GuiInv

LEMMA DisconnectKeeps == ASSUME GuiInv, ClickDisconnect PROVE GuiInv'
<1>1. /\ UNCHANGED <<label, client_event_type, event_mutex, callbacks, crashed, lost, silent>>
      /\ UNCHANGED pool /\ sensitive' = FALSE /\ ~crashed /\ label = "Disconnect"
    BY DEF ClickDisconnect, evt_vars, pool
<1>2. Typed'
    BY <1>1 DEF GuiInv, Typed, pool
<1>3. MutexInv'
    BY <1>1 DEF GuiInv, MutexInv, pool
<1>4. LabelInv'
    BY <1>1 DEF GuiInv, LabelInv, WillEnd, pool
<1>5. ButtonInv'
    <2> SUFFICES ASSUME ~lost, callbacks = <<>> PROVE \E r \in Run : pc[r, "main"] \in Begun
        BY <1>1 DEF ButtonInv, pool
    <2>1. client_event_type = "connect"
        BY <1>1 DEF GuiInv, LabelInv
    <2>2. PICK r \in Run : WillEnd(r)
        BY <1>1, <2>1 DEF GuiInv, LabelInv
    <2> QED
        BY <2>2 DEF WillEnd, Begun
<1>6. RunInv' /\ StateInv' /\ \A r \in Run : /\ Running(r)' <=> Running(r)
                                             /\ Over(r)' <=> Over(r)
    BY <1>1, RunsUntouched
<1>7. settled \subseteq Run /\ settled' = settled /\ runs' = runs
    BY <1>1, SettledAreRuns DEF GuiInv, pool
<1>8. AloneInv'
    BY <1>1, <1>6, <1>7 DEF GuiInv, AloneInv
<1> QED
    BY <1>2, <1>3, <1>4, <1>5, <1>6, <1>8 DEF GuiInv

(* The oldest callback runs.                                               *)
LEMMA TailOfCallbacks ==
    ASSUME Typed, callbacks # <<>>
    PROVE  /\ Tail(callbacks) \in Seq({"code", "null"})
           /\ Len(callbacks) = 1 <=> Tail(callbacks) = <<>>
<1> DEFINE S == {"code", "null"}
<1>1. callbacks \in Seq(S)
    BY DEF Typed
<1> HIDE DEF S
<1>2. Tail(callbacks) \in Seq(S) /\ Len(Tail(callbacks)) = Len(callbacks) - 1
    BY <1>1
<1>3. \A s \in Seq(S) : Len(s) = 0 <=> s = <<>>
    OBVIOUS
<1>4. Len(callbacks) \in Nat
    BY <1>1
<1>5. Len(callbacks) = 1 <=> Len(Tail(callbacks)) = 0
    BY <1>2, <1>4
<1> QED
    BY <1>2, <1>3, <1>5 DEF S

LEMMA DropsKeeps == ASSUME GuiInv, CallbackDrops PROVE GuiInv'
<1>1. /\ UNCHANGED <<label, sensitive, client_event_type, event_mutex, crashed, silent>>
      /\ UNCHANGED pool /\ callbacks' = Tail(callbacks) /\ lost' = (Len(callbacks) = 1)
      /\ callbacks # <<>> /\ event_mutex # Nobody
    BY DEF CallbackDrops, ui_vars, run_vars, pool
<1>2. callbacks' \in Seq({"code", "null"}) /\ lost' \in BOOLEAN /\ (callbacks' # <<>> \/ lost')
    BY <1>1, TailOfCallbacks DEF GuiInv
<1>3. Typed'
    BY <1>1, <1>2 DEF GuiInv, Typed, pool
<1>4. MutexInv'
    BY <1>1, <1>2 DEF GuiInv, MutexInv, pool
<1>5. LabelInv'
    BY <1>1, <1>2 DEF GuiInv, LabelInv, WillEnd, pool
<1>6. ButtonInv'
    BY <1>2 DEF ButtonInv
<1>7. RunInv' /\ StateInv' /\ \A r \in Run : /\ Running(r)' <=> Running(r)
                                             /\ Over(r)' <=> Over(r)
    BY <1>1, RunsUntouched
<1>8. settled \subseteq Run /\ settled' = settled /\ runs' = runs
    BY <1>1, SettledAreRuns DEF GuiInv, pool
<1>9. AloneInv'
    BY <1>1, <1>7, <1>8 DEF GuiInv, AloneInv
<1> QED
    BY <1>3, <1>4, <1>5, <1>6, <1>7, <1>9 DEF GuiInv

LEMMA ShowsKeeps == ASSUME GuiInv, CallbackShows PROVE GuiInv'
<1>1. /\ UNCHANGED <<client_event_type, event_mutex, lost, silent>>
      /\ UNCHANGED pool /\ callbacks' = Tail(callbacks)
      /\ callbacks # <<>> /\ event_mutex = Nobody
    BY DEF CallbackShows, run_vars, pool
<1>2. \/ /\ label' = IF client_event_type = "connect" THEN "Disconnect" ELSE "Connect"
         /\ sensitive' = TRUE /\ crashed' = crashed
      \/ crashed' = TRUE /\ UNCHANGED <<label, sensitive>>
    BY DEF CallbackShows, ui_vars
<1>3. callbacks' \in Seq({"code", "null"})
    BY <1>1, TailOfCallbacks DEF GuiInv
<1>4. Typed'
    BY <1>1, <1>2, <1>3 DEF GuiInv, Typed, pool
<1>5. MutexInv'
    BY <1>1 DEF MutexInv
<1>6. LabelInv'
    <2>1. ~crashed' /\ label' = "Disconnect" => client_event_type' = "connect"
        BY <1>1, <1>2
    <2>2. client_event_type = "connect" => \E r \in Run : WillEnd(r)
        BY <1>1 DEF GuiInv, LabelInv
    <2>3. \A r \in Run : WillEnd(r)' <=> WillEnd(r)
        BY <1>1 DEF WillEnd, pool
    <2> QED
        BY <1>1, <2>1, <2>2, <2>3 DEF LabelInv
<1>7. ButtonInv'
    BY <1>2 DEF ButtonInv
<1>8. RunInv' /\ StateInv' /\ \A r \in Run : /\ Running(r)' <=> Running(r)
                                             /\ Over(r)' <=> Over(r)
    BY <1>1, RunsUntouched
<1>9. settled \subseteq Run /\ settled' = settled /\ runs' = runs
    BY <1>1, SettledAreRuns DEF GuiInv, pool
<1>10. AloneInv'
    BY <1>1, <1>2, <1>8, <1>9 DEF GuiInv, AloneInv
<1> QED
    BY <1>4, <1>5, <1>6, <1>7, <1>8, <1>10 DEF GuiInv

(* A thread posts an event.                                                *)
LEMMA PostKeeps == ASSUME GuiInv, NEW a \in Agent, Post(a) PROVE GuiInv'
<1>1. PICK r \in Run, t \in Thread : a = <<r, t>>
    BY AgentParts
<1>2. /\ UNCHANGED <<label, sensitive, crashed, silent>> /\ UNCHANGED pool
      /\ event_mutex' = a /\ client_event_type' = EventAt[pc[a]] /\ lost' = FALSE
      /\ callbacks' = Append(callbacks, IF EventAt[pc[a]] = "error" THEN "code" ELSE "null")
      /\ pc[a] \in DOMAIN EventAt
    BY DEF Post, ui_vars, run_vars, pool
<1>3. callbacks' \in Seq({"code", "null"}) /\ callbacks' # <<>>
    <2>1. callbacks \in Seq({"code", "null"})
        BY DEF GuiInv, Typed
    <2> QED
        BY <1>2, <2>1
<1>4. EventAt[pc[a]] \in {"connect", "error", "disconnect"}
    BY <1>2, EventKinds
<1>5. Typed'
    BY <1>2, <1>3, <1>4 DEF GuiInv, Typed, pool
<1>6. MutexInv'
    BY <1>2, <1>3 DEF MutexInv, pool
<1>7. client_event_type' = "connect" => t = "main" /\ pc[r, t] = "connect"
    <2> SUFFICES ASSUME client_event_type' = "connect" PROVE t = "main" /\ pc[r, t] = "connect"
        OBVIOUS
    <2>1. pc[r, t] = "connect"
        BY <1>1, <1>2, EventKinds
    <2>2. t \notin Worker
        BY <2>1 DEF GuiInv, Typed, WorkerPlace
    <2> QED
        BY <2>1, <2>2 DEF Thread
<1>8. LabelInv'
    <2>1. client_event_type' = "connect" => WillEnd(r)'
        BY <1>1, <1>2, <1>7 DEF WillEnd, pool
    <2> QED
        BY <1>3, <2>1 DEF LabelInv
<1>9. ButtonInv'
    BY <1>3 DEF ButtonInv
<1>10. RunInv' /\ StateInv' /\ \A q \in Run : /\ Running(q)' <=> Running(q)
                                              /\ Over(q)' <=> Over(q)
    BY <1>2, RunsUntouched
<1>11. settled \subseteq Run /\ settled' = settled /\ runs' = runs
    BY <1>2, SettledAreRuns DEF GuiInv, pool
<1>12. ASSUME NEW q \in settled, Running(q) PROVE client_event_type' = "connect"
    <2>1. pc[r, t] \in {"connect", "error", "fail", "disconnect"}
        BY <1>1, <1>2, EventKinds
    <2>2. r = q
        BY <1>12, <2>1 DEF GuiInv, AloneInv, Over
    <2>3. pc[r, t] = "connect"
        BY <1>12, <2>1, <2>2 DEF Running, Thread
    <2> QED
        BY <1>1, <1>2, <2>3, EventKinds
<1>13. AloneInv'
    BY <1>2, <1>10, <1>11, <1>12 DEF GuiInv, AloneInv
<1> QED
    BY <1>5, <1>6, <1>8, <1>9, <1>10, <1>13 DEF GuiInv

(* The button starts a run, or pthread_create() fails.                     *)
LEMMA ConnectKeeps == ASSUME GuiInv, ClickConnect PROVE GuiInv'
<1> DEFINE r == runs + 1
<1>1. /\ UNCHANGED <<label, client_event_type, event_mutex, callbacks, crashed, lost, g_state,
                     freed>>
      /\ sensitive /\ label = "Connect" /\ runs < MaxRuns /\ sensitive' = FALSE
    BY DEF ClickConnect, MayConnect, evt_vars
<1>2. Typed /\ MutexInv /\ LabelInv /\ ButtonInv /\ RunInv /\ AloneInv /\ StateInv
    BY DEF GuiInv
<1>3. \A q \in settled : ~Running(q)
    BY <1>1, <1>2 DEF AloneInv
<1>4. CASE silent' = TRUE /\ UNCHANGED <<runs, pc, settled>>
    <2>1. UNCHANGED pool
        BY <1>1, <1>4 DEF pool
    <2>2. Typed'
        BY <1>1, <1>2, <1>4 DEF Typed
    <2>3. MutexInv'
        BY <1>1, <1>2, <1>4 DEF MutexInv
    <2>4. LabelInv'
        BY <1>1, <1>2, <1>4 DEF LabelInv, WillEnd
    <2>5. ButtonInv'
        BY <1>4 DEF ButtonInv
    <2>6. AloneInv'
        BY <1>3, <1>4 DEF AloneInv, Running
    <2> QED
        BY <2>1, <2>2, <2>3, <2>4, <2>5, <2>6, RunsUntouched DEF GuiInv
<1>5. CASE /\ runs' = r /\ pc' = [pc EXCEPT ![<<r, "main">>] = "config"]
           /\ settled' = IF AllOver THEN settled \cup {r} ELSE settled
           /\ silent' = silent
    <2>1. /\ r \in Run /\ r > runs /\ r \notin 1..runs /\ r \notin 0..runs
          /\ 1..r = 1..runs \cup {r} /\ 0..runs \subseteq 0..r /\ r \in 0..MaxRuns
          /\ \A q \in Run : (q > r => q > runs) /\ (q =< r => q =< runs \/ q = r)
        <3>1. MaxRuns \in Nat
            BY GuiAssumption
        <3>2. runs \in 0..MaxRuns
            BY <1>2 DEF Typed
        <3>3. runs \in Nat /\ runs < MaxRuns
            BY <1>1, <3>1, <3>2
        <3> QED
            BY <3>1, <3>3 DEF Run
    <2>2. runs' = r
        BY <1>5
    <2>3. \A u \in Thread : pc[r, u] = "off"
        BY <1>2, <2>1 DEF RunInv
    <2>4. pc \in [Agent -> Place] /\ <<r, "main">> \in Agent
        BY <1>2, <2>1, ThreadNames DEF Typed, Agent
    <2> HIDE DEF r
    <2>5. pc'[r, "main"] = "config"
        BY <1>5, <2>4
    <2>6. ASSUME NEW q \in Run, NEW u \in Thread, q # r \/ u # "main" PROVE pc'[q, u] = pc[q, u]
        <3>1. <<q, u>> \in Agent /\ <<q, u>> # <<r, "main">>
            BY <2>6 DEF Agent
        <3> QED
            BY <1>5, <2>4, <3>1
    <2>7. Typed'
        <3>1. pc' \in [Agent -> Place]
            BY <1>5, <2>4 DEF Place, MainPlace, Begun
        <3>2. ASSUME NEW q \in Run
              PROVE  pc'[q, "main"] \in MainPlace /\ \A w \in Worker : pc'[q, w] \in WorkerPlace
            <4>1. pc'[q, "main"] \in MainPlace
                BY <1>2, <2>5, <2>6, ThreadNames DEF Typed, MainPlace, Begun
            <4> QED
                BY <1>2, <2>6, <4>1, ThreadNames DEF Typed
        <3>3. runs' \in 0..MaxRuns /\ g_state' \in 0..runs' /\ settled' \subseteq 1..runs'
              /\ freed' \subseteq 1..runs'
            BY <1>1, <1>2, <1>5, <2>1, <2>2 DEF Typed
        <3> QED
            BY <1>1, <1>2, <1>5, <3>1, <3>2, <3>3 DEF Typed
    <2>8. MutexInv'
        <3> SUFFICES ASSUME event_mutex # Nobody PROVE pc'[event_mutex] = pc[event_mutex]
            BY <1>1, <1>2 DEF MutexInv
        <3>1. event_mutex \in Agent /\ pc[event_mutex] \in DOMAIN EventAt
            BY <1>2 DEF Typed, MutexInv
        <3>2. event_mutex # <<r, "main">>
            BY <2>3, <3>1, EventKinds, ThreadNames
        <3> QED
            BY <1>5, <2>4, <3>1, <3>2
    <2>9. LabelInv'
        <3>1. \A q \in Run : WillEnd(q) => WillEnd(q)'
            <4> SUFFICES ASSUME NEW q \in Run, WillEnd(q) PROVE WillEnd(q)'
                OBVIOUS
            <4>1. q # r
                BY <2>3, ThreadNames DEF WillEnd
            <4> QED
                BY <1>1, <2>6, <4>1, ThreadNames DEF WillEnd
        <3> QED
            BY <1>1, <1>2, <3>1 DEF LabelInv
    <2>10. ButtonInv'
        BY <2>1, <2>5 DEF ButtonInv, Begun
    <2>11. RunInv'
        <3>1. ASSUME NEW q \in Run, NEW u \in Thread, q > r PROVE pc'[q, u] = "off"
            <4>1. q # r /\ q > runs
                BY <2>1, <3>1 DEF Run
            <4> QED
                BY <1>2, <2>6, <4>1 DEF RunInv
        <3>2. \A q \in Run, w \in Worker : pc'[q, "main"] \in Early => pc'[q, w] = "off"
            BY <1>2, <2>3, <2>6, ThreadNames DEF RunInv
        <3>3. \A q \in freed' : Over(q)'
            <4> SUFFICES ASSUME NEW q \in freed PROVE Over(q)'
                BY <1>1
            <4>1. Over(q) /\ q \in Run /\ q # r
                BY <1>2, <2>1, SettledAreRuns DEF RunInv, Typed
            <4> QED
                BY <2>6, <4>1 DEF Over
        <3>4. \A q \in Run : q =< r => pc'[q, "main"] # "off"
            BY <1>2, <2>1, <2>5, <2>6, ThreadNames DEF RunInv
        <3> QED
            BY <2>2, <3>1, <3>2, <3>3, <3>4 DEF RunInv
    <2>12. AloneInv'
        <3> SUFFICES ASSUME NEW q \in settled', Running(q)'
                     PROVE  /\ runs' = q /\ \A p \in Run \ {q} : Over(p)'
                            /\ label' = "Connect" => ~sensitive'
                            /\ callbacks' # <<>> \/ event_mutex' # Nobody =>
                                    client_event_type' = "connect"
            BY DEF AloneInv
        <3>1. q = r
            <4> SUFFICES ASSUME q # r PROVE FALSE
                OBVIOUS
            <4>1. q \in settled /\ q \in Run
                BY <1>2, <1>5, SettledAreRuns
            <4>2. Running(q)
                BY <2>6, <4>1, ThreadNames DEF Running
            <4> QED
                BY <1>3, <4>1, <4>2
        <3>2. AllOver
            BY <1>2, <1>5, <2>1, <3>1 DEF Typed
        <3>3. ASSUME NEW p \in Run \ {q} PROVE Over(p)'
            BY <2>6, <3>1, <3>2 DEF AllOver, Over
        <3> QED
            BY <1>1, <2>2, <3>1, <3>2, <3>3 DEF AllOver
    <2>13. StateInv'
        <3> SUFFICES ASSUME g_state \in settled', NEW q \in Run \ {g_state}
                     PROVE  pc'[q, "main"] \in {"off", "config", "gone"}
            BY <1>1 DEF StateInv
        <3>1. g_state \in settled
            BY <1>2, <1>5, <2>1 DEF Typed
        <3>2. pc[q, "main"] \in {"off", "config", "gone"}
            BY <1>2, <3>1 DEF StateInv
        <3> QED
            BY <2>5, <2>6, <3>2, ThreadNames
    <2> QED
        BY <2>7, <2>8, <2>9, <2>10, <2>11, <2>12, <2>13 DEF GuiInv
<1> QED
    BY <1>4, <1>5 DEF ClickConnect

-----------------------------------------------------------------------------
LEMMA InitGuiInv == Init => GuiInv
<1> SUFFICES ASSUME Init PROVE GuiInv
    OBVIOUS
<1>1. /\ label = "Connect" /\ sensitive = TRUE
      /\ client_event_type = "connect" /\ event_mutex = Nobody /\ callbacks = <<>>
      /\ crashed = FALSE /\ lost = FALSE /\ silent = FALSE
      /\ runs = 0 /\ g_state = 0 /\ freed = {} /\ settled = {}
      /\ pc = [a \in Agent |-> "off"]
    BY DEF Init
<1>2. \A r \in Run, t \in Thread : pc[r, t] = "off"
    <2>1. \A r \in Run, t \in Thread : <<r, t>> \in Agent
        BY DEF Agent
    <2> QED
        BY <1>1, <2>1
<1>3. Typed
    <2>1. MaxRuns \in Nat
        BY GuiAssumption
    <2>2. runs \in 0..MaxRuns /\ g_state \in 0..runs
        BY <1>1, <2>1
    <2>3. pc \in [Agent -> Place]
        BY <1>1 DEF Place, MainPlace
    <2>4. \A r \in Run : pc[r, "main"] \in MainPlace /\ \A w \in Worker : pc[r, w] \in WorkerPlace
        BY <1>2, ThreadNames DEF MainPlace, WorkerPlace
    <2>5. callbacks \in Seq({"code", "null"})
        BY <1>1
    <2> QED
        BY <1>1, <2>2, <2>3, <2>4, <2>5 DEF Typed
<1>4. RunInv
    <2>1. \A r \in Run : ~(r =< runs)
        <3>1. MaxRuns \in Nat
            BY GuiAssumption
        <3> QED
            BY <1>1, <3>1 DEF Run
    <2> QED
        BY <1>1, <1>2, <2>1, ThreadNames DEF RunInv, Early
<1>5. MutexInv /\ LabelInv /\ ButtonInv /\ AloneInv /\ StateInv
    BY <1>1 DEF MutexInv, LabelInv, ButtonInv, AloneInv, StateInv
<1> QED
    BY <1>3, <1>4, <1>5 DEF GuiInv

LEMMA NextGuiInv == GuiInv /\ [Next]_vars => GuiInv'
<1> SUFFICES ASSUME GuiInv, [Next]_vars PROVE GuiInv'
    OBVIOUS
<1>1. CASE UNCHANGED vars
    <2>1. UNCHANGED seen
        BY <1>1 DEF vars, ui_vars, evt_vars, run_vars, seen, pool
    <2> QED
        BY <2>1, NothingSeen
<1>2. ASSUME NEW r \in Run, Stops(r) PROVE GuiInv'
    <2>1. UNCHANGED seen
        BY <1>2 DEF Stops, ui_vars, evt_vars, seen, pool
    <2> QED
        BY <2>1, NothingSeen
<1>3. CASE ClickConnect \/ ClickDisconnect \/ CallbackDrops \/ CallbackShows
    BY <1>3, ConnectKeeps, DisconnectKeeps, DropsKeeps, ShowsKeeps
<1>4. ASSUME NEW a \in Agent, Post(a) \/ Posted(a) \/ LeaveLoop(a) PROVE GuiInv'
    BY <1>4, PostKeeps, PostedKeeps, LeaveLoopKeeps
<1>5. ASSUME NEW r \in Run,
             Configure(r) \/ Connects(r) \/ MainReady(r) \/ Kill(r) \/ EndRun(r)
      PROVE  GuiInv'
    BY <1>5, ConfigureKeeps, ConnectsKeeps, MainReadyKeeps, KillKeeps, EndRunKeeps
<1>6. ASSUME NEW r \in Run, NEW w \in Worker, WorkerReady(r, w) PROVE GuiInv'
    BY <1>6, WorkerReadyKeeps
<1> QED
    BY <1>1, <1>2, <1>3, <1>4, <1>5, <1>6 DEF Next

(* The invariant of the module, for any number of runs at a time.          *)
THEOREM GuiInvariant == Spec => []GuiInv
    BY InitGuiInv, NextGuiInv, PTL DEF Spec

(* When no run is left the button can connect again, unless the last       *)
(* callback was dropped or a run ended without an event.                   *)
THEOREM ButtonIsGivenBack == Spec => []ButtonComesBack
<1>1. GuiInv => ButtonComesBack
    <2> SUFFICES ASSUME GuiInv, AllOver, ~crashed, ~lost, ~silent
                 PROVE  sensitive /\ label = "Connect"
        BY DEF ButtonComesBack
    <2>1. callbacks = <<>> /\ \A r \in Run : pc[r, "main"] \in {"off", "gone"}
        BY ThreadNames DEF AllOver, Over
    <2>2. sensitive
        BY <2>1 DEF GuiInv, ButtonInv, Begun
    <2>3. label = "Connect"
        <3> SUFFICES ASSUME label # "Connect" PROVE FALSE
            OBVIOUS
        <3>1. label = "Disconnect"
            BY DEF GuiInv, Typed
        <3>2. client_event_type = "connect"
            BY <2>1, <3>1 DEF GuiInv, LabelInv
        <3>3. PICK r \in Run : WillEnd(r)
            BY <3>1, <3>2 DEF GuiInv, LabelInv
        <3> QED
            BY <2>1, <3>3 DEF WillEnd
    <2> QED
        BY <2>2, <2>3
<1> QED
    BY <1>1, GuiInvariant, PTL

(* The button starts no second run beside one that had the process to      *)
(* itself, until that one announces its end.                               *)
THEOREM RunsAreApart == Spec => []OneRunAtATime
<1>1. GuiInv => OneRunAtATime
    BY DEF GuiInv, AloneInv, OneRunAtATime
<1> QED
    BY <1>1, GuiInvariant, PTL

(* A step asks a freed run to stop only while the news of its end is on    *)
(* its way or was lost, or if it was never alone in the process: neither   *)
(* the button nor the signals of another run find it through g_state.      *)
THEOREM StopIsForItsRun == Spec => StopFindsItsRun
<1>1. GuiInv /\ [Next]_vars =>
          [\A r \in freed : r \in stop' \ stop =>
                callbacks # <<>> \/ lost \/ r \notin settled]_vars
    <2> SUFFICES ASSUME GuiInv, Next, NEW r \in freed, r \in stop', r \notin stop,
                        callbacks = <<>>, ~lost, r \in settled
                 PROVE  FALSE
        OBVIOUS
    <2>1. r \in Run /\ \A t \in Thread : pc[r, t] \in {"off", "gone"}
        BY SettledAreRuns DEF GuiInv, RunInv, Over
    <2>2. CASE ClickDisconnect
        <3>1. r = g_state /\ ~crashed /\ label = "Disconnect"
            BY <2>2 DEF ClickDisconnect
        <3>2. client_event_type = "connect"
            BY <3>1 DEF GuiInv, LabelInv
        <3>3. PICK q \in Run : WillEnd(q)
            BY <3>1, <3>2 DEF GuiInv, LabelInv
        <3>4. q = g_state
            <4>1. pc[q, "main"] \in {"connect", "loop", "fail", "disconnect"}
                BY <3>3 DEF WillEnd
            <4>2. \A p \in Run : p # g_state => pc[p, "main"] \in {"off", "config", "gone"}
                BY <3>1 DEF GuiInv, StateInv
            <4> QED
                BY <4>1, <4>2
        <3> QED
            BY <2>1, <3>1, <3>3, <3>4, ThreadNames DEF WillEnd
    <2>3. ASSUME NEW q \in Run, Stops(q) PROVE FALSE
        <3>1. q = r /\ pc[q, "main"] \in {"ready", "connect", "loop"}
            BY <2>3 DEF Stops
        <3> QED
            BY <2>1, <3>1, ThreadNames
    <2>4. ASSUME NEW a \in Agent, LeaveLoop(a) PROVE FALSE
        <3>1. PICK q \in Run, t \in Thread : a = <<q, t>>
            BY AgentParts
        <3>2. q = r /\ pc[q, t] = "loop"
            BY <2>4, <3>1 DEF LeaveLoop
        <3> QED
            BY <2>1, <3>2
    <2>5. ASSUME NEW q \in Run, Kill(q) PROVE FALSE
        <3>1. r = g_state /\ pc[q, "main"] = "kill"
            <4>1. pc[q, "main"] = "kill" /\ stop' \subseteq stop \cup {g_state}
                BY <2>5 DEF Kill
            <4> QED
                BY <4>1
        <3>2. q = r
            BY <3>1 DEF GuiInv, StateInv
        <3> QED
            BY <2>1, <3>1, <3>2, ThreadNames
    <2>6. ASSUME NEW q \in Run, NEW w \in Worker, WorkerReady(q, w) PROVE FALSE
        BY <2>6 DEF WorkerReady
    <2>7. ASSUME NEW q \in Run, Configure(q) \/ Connects(q) \/ MainReady(q) \/ EndRun(q)
          PROVE  FALSE
        BY <2>7 DEF Configure, Connects, MainReady, EndRun
    <2>8. ASSUME NEW a \in Agent, Post(a) \/ Posted(a) PROVE FALSE
        BY <2>8 DEF Post, Posted, run_vars
    <2>9. CASE ClickConnect \/ CallbackDrops \/ CallbackShows
        BY <2>9 DEF ClickConnect, CallbackDrops, CallbackShows, run_vars
    <2> QED
        BY <2>2, <2>3, <2>4, <2>5, <2>6, <2>7, <2>8, <2>9 DEF Next
<1> QED
    BY <1>1, GuiInvariant, PTL DEF Spec, StopFindsItsRun
=============================================================================
