------------------------------ MODULE MCBackup ------------------------------
(***************************************************************************)
(* Two backups of one message and one of another with the same bytes, so    *)
(* that manifest rows and file paths are both raced for, and a restore.     *)
(***************************************************************************)
EXTENDS Backup

CONSTANTS s1, s2, s3, r1, k1, k2, c1, c2

MCKeyOf == [p \in Saver |-> IF p = s3 THEN k2 ELSE k1]
MCHolds == [k \in Key |-> c1]
=============================================================================
