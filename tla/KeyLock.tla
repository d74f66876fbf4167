------------------------------ MODULE KeyLock ------------------------------
(***************************************************************************)
(* What the claims promise: a lock per key that at most one process uses,  *)
(* that survives the death of its holder, and that is taken from no        *)
(* process but a dead one.                                                 *)
(***************************************************************************)
CONSTANTS Run, Key, NoRun, NoKey

VARIABLES
    holder,   \* per key, the run recorded as holding it
    using,    \* per run, the key it works on
    dead      \* the runs that were killed

vars == <<holder, using, dead>>

Init ==
    /\ holder = [k \in Key |-> NoRun]
    /\ using = [r \in Run |-> NoKey]
    /\ dead = {}

Acquire(r, k) ==
    /\ r \notin dead
    /\ using[r] = NoKey
    /\ holder[k] = NoRun
    /\ holder' = [holder EXCEPT ![k] = r]
    /\ using' = [using EXCEPT ![r] = k]
    /\ UNCHANGED dead

Leave(r, k) ==
    /\ using[r] = k
    /\ holder' = [holder EXCEPT ![k] = NoRun]
    /\ using' = [using EXCEPT ![r] = NoKey]
    /\ UNCHANGED dead

Die(r) ==
    /\ using' = [using EXCEPT ![r] = NoKey]
    /\ dead' = dead \cup {r}
    /\ UNCHANGED holder

Reap(k) ==
    /\ holder[k] \in dead
    /\ holder' = [holder EXCEPT ![k] = NoRun]
    /\ UNCHANGED <<using, dead>>

Next == \/ \E r \in Run, k \in Key : Acquire(r, k) \/ Leave(r, k)
        \/ \E r \in Run : Die(r)
        \/ \E k \in Key : Reap(k)

Spec == Init /\ [][Next]_vars
=============================================================================
