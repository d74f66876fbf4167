------------------------------- MODULE Report -------------------------------
(***************************************************************************)
(* The status `liametahi report` shows for an item whose actions ran: the  *)
(* stored row stays "pending" for ever, so report.py derives the status    *)
(* from the attempt rows it finds (report.py, over the tables of           *)
(* execute.py).                                                            *)
(***************************************************************************)
EXTENDS Execute

\* The states of the attempt rows there are, in no order.
RowStates(r, k) == {attempt[<<r, k, i>>] : i \in DOMAIN Acts(r)} \ {"none"}

\* Mutant of EffectiveStatus: one completed action is enough.
EffectiveStatusOfAny(r, k) ==
    LET states == RowStates(r, k)
    IN  IF item[<<r, k>>] # "pending" \/ states = {} THEN item[<<r, k>>]
        ELSE IF "completed" \in states THEN "completed"
        ELSE IF "failed" \in states THEN "failed"
        ELSE "pending"

EffectiveStatus(r, k) ==
    LET states == RowStates(r, k)
    IN  IF item[<<r, k>>] # "pending" \/ states = {} THEN item[<<r, k>>]
        ELSE IF "failed" \in states THEN "failed"
        ELSE IF "unsupported" \in states THEN "unsupported"
        ELSE IF "vanished" \in states THEN "vanished"
        ELSE IF states = {"completed"} THEN "completed"
        ELSE "pending"
----------------------------------------------------------------------------
\* Once its run is over, an item shown as completed had every action of its
\* winning rule carried out: the report never claims a deletion that was not
\* even tried.
ReportHonest ==
    \A r \in Run, k \in Key :
        pc[r] \in {"done", "dead"} /\ EffectiveStatus(r, k) = "completed"
            => \A i \in DOMAIN Acts(r) : attempt[<<r, k, i>>] = "completed"
=============================================================================
