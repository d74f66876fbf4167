------------------------------- MODULE MCScan -------------------------------
(***************************************************************************)
(* The sorter scans two mailboxes one message per run and routes mail to the *)
(* mover, which scans only the first, without a cap, and moves mail.        *)
(***************************************************************************)
EXTENDS Scan

CONSTANTS sorter, mover, inbox, lists, m1, m2

MCUid == 1..2
MCValidity == 1..2
MCSources == [t \in Task |-> IF t = sorter THEN <<inbox, lists>> ELSE <<inbox>>]
MCCap == [t \in Task |-> IF t = sorter THEN 1 ELSE 8]
MCRouteTo == [t \in Task |-> mover]
MCInbox == [x \in Box |-> IF x = inbox THEN <<m1>> ELSE <<m2>>]
=============================================================================
