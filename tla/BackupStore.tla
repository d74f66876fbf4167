---------------------------- MODULE BackupStore ----------------------------
(***************************************************************************)
(* What the backup store promises to the execute phase, files and temporary *)
(* names left out: a write-once manifest with at most one row per message   *)
(* and content, and an answer that names a row of it or says that the       *)
(* backup failed.  A caller that is told an id may remove the message.      *)
(***************************************************************************)
CONSTANTS Saver,     \* the calls of write_verified_backup; each brings a fresh id
          Key,
          Content,
          KeyOf,     \* the message each call backs up
          Nothing, Failed

VARIABLES manifest,  \* per backup id, the <<key, content>> of its row, or Nothing
          answer     \* what each call has returned

vars == <<manifest, answer>>

Init ==
    /\ manifest = [p \in Saver |-> Nothing]
    /\ answer = [p \in Saver |-> Nothing]

Unanswered(p) == answer[p] = Nothing

\* A new row, and its id as the answer.
Save(p) ==
    /\ Unanswered(p)
    /\ \E c \in Content :
          /\ \A q \in Saver : manifest[q] # <<KeyOf[p], c>>
          /\ manifest' = [manifest EXCEPT ![p] = <<KeyOf[p], c>>]
    /\ answer' = [answer EXCEPT ![p] = p]

\* The row is there already: its id is the answer.
Reuse(p) ==
    /\ Unanswered(p)
    /\ \E q \in Saver, c \in Content :
          /\ manifest[q] = <<KeyOf[p], c>>
          /\ answer' = [answer EXCEPT ![p] = q]
    /\ UNCHANGED manifest

Fail(p) ==
    /\ Unanswered(p)
    /\ answer' = [answer EXCEPT ![p] = Failed]
    /\ UNCHANGED manifest

Next == \E p \in Saver : Save(p) \/ Reuse(p) \/ Fail(p)

Spec == Init /\ [][Next]_vars
=============================================================================
