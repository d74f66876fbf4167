----------------------------- MODULE MCExecute -----------------------------
(***************************************************************************)
(* Small instances of Execute and Report. Runs a1 and a2 are invocations   *)
(* of task A, b1 is one of task B, under one configuration file: one lock  *)
(* a task.                                                                 *)
(***************************************************************************)
EXTENDS Report

CONSTANTS a1, a2, b1, A, B, k1, k2, m1, m2

TaskOfRun == [r \in Run |-> IF r = b1 THEN B ELSE A]
LockOfTask == [r \in Run |-> TaskOfRun[r]]
OneKeyEach == [k \in Key |-> IF k = k1 THEN m1 ELSE m2]
OneMessage == [k \in Key |-> m1]
OwnBox == [k \in Key |-> k]   \* each key in a mailbox of its own
InOrder == [k \in Key |-> IF k = k1 THEN 1 ELSE 2]

\* B hands its messages on to A.
AllKeys == [t \in Task |-> Key]
ToA == [t \in Task |-> IF t = A THEN B ELSE A]
BSeesOne == [t \in Task |-> IF t = A THEN Key ELSE {k1}]

BothMove == [t \in Task |-> IF t = A THEN <<"backup", "move">> ELSE <<"move">>]
OneMoves == [t \in Task |-> IF t = A THEN <<"backup", "move">> ELSE <<"label">>]
OneRoutes == [t \in Task |-> IF t = A THEN <<"backup", "move">> ELSE <<"task">>]
MoveOnly == [t \in Task |-> <<"move">>]

CapOne == [t \in Task |-> 1]
Uncapped == [t \in Task |-> Cardinality(Key)]
=============================================================================
