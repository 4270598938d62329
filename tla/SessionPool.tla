---------------------------- MODULE SessionPool ----------------------------
(***************************************************************************)
(* What the session functions of server/linux/udp_session.c promise their  *)
(* callers: a table of Slot entries in which every entry is free or is     *)
(* owned by one client (source address and port), every client owns at     *)
(* most one entry, a client is refused for lack of room only when no entry *)
(* is free, and a lookup answers with the entry its client owns.           *)
(* Nothing is said about free lists, buckets or counters.                  *)
(***************************************************************************)
EXTENDS Integers

CONSTANTS Slot,     \* indices of the session array
          Client,   \* (source address, source port) pairs
          Nobody,   \* owner of a free slot
          Null,     \* "no session" as returned by a lookup
          Eagain,   \* errno of a creation that found no free slot
          Enomem    \* errno of a creation that found no memory

VARIABLES owner,    \* owner[s]: the client of slot s, or Nobody
          ret       \* the call that returned last and its value

vars == <<owner, ret>>

Init == /\ owner = [s \in Slot |-> Nobody]
        /\ ret = [call |-> "none", val |-> 0]

Unknown(c) == \A s \in Slot : owner[s] # c

Open(c) == /\ Unknown(c)
           /\ \E s \in Slot : /\ owner[s] = Nobody
                              /\ owner' = [owner EXCEPT ![s] = c]
                              /\ ret' = [call |-> "create", val |-> s]

OpenFull == /\ \A s \in Slot : owner[s] # Nobody
            /\ ret' = [call |-> "create", val |-> Eagain]
            /\ UNCHANGED owner

OpenNoMem == /\ \E s \in Slot : owner[s] = Nobody
             /\ ret' = [call |-> "create", val |-> Enomem]
             /\ UNCHANGED owner

Close(s) == /\ owner[s] # Nobody
            /\ owner' = [owner EXCEPT ![s] = Nobody]
            /\ ret' = [call |-> "delete", val |-> 0]

Find(c) == /\ \/ \E s \in Slot : /\ owner[s] = c
                                 /\ ret' = [call |-> "lookup", val |-> s]
              \/ /\ Unknown(c)
                 /\ ret' = [call |-> "lookup", val |-> Null]
           /\ UNCHANGED owner

Next == \/ \E c \in Client : Open(c) \/ Find(c)
        \/ \E s \in Slot : Close(s)
        \/ OpenFull
        \/ OpenNoMem

Spec == Init /\ [][Next]_vars
=============================================================================
