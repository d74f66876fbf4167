------------------------------- MODULE Backup -------------------------------
(***************************************************************************)
(* Verified backups and restores (backup.py) with the rows of state.py they *)
(* read and write, the action attempt that asks for a backup and the        *)
(* mutation it permits (execute.py).                                        *)
(*                                                                         *)
(* A backup goes through the file system in steps of its own -- temporary   *)
(* file, checksum, rename, unlink -- and only then through the manifest.    *)
(* Other backups of the same message or of the same bytes, a kill or a      *)
(* power cut can come between any two of them.  A content stands for its    *)
(* own SHA-256: the file of content c is the one at the path named by c.    *)
(***************************************************************************)
EXTENDS Naturals, FiniteSets

CONSTANTS
    Saver,      \* the calls of write_verified_backup; each brings a fresh id
    Restorer,   \* the invocations of `liametahi restore`
    Key, Content,
    KeyOf,      \* the message each call backs up
    Holds,      \* the content of a message (immutable in IMAP)
    Faults,     \* what may go wrong, a subset of FaultKind
    Nothing, Failed, Junk

FaultKind == {"kill", "power_cut", "io_error", "imap_error", "rot", "silent_corruption"}

ASSUME BackupAssumption ==
    /\ KeyOf \in [Saver -> Key]
    /\ Holds \in [Key -> Content]
    /\ Saver \cap Restorer = {}
    /\ Faults \subseteq FaultKind
    /\ {Nothing, Failed} \cap Saver = {}
    /\ {Nothing, Junk} \cap Content = {}
    /\ Nothing # Failed
    /\ Nothing # Junk
    /\ Nothing \notin Key \X Content

VARIABLES
    box,       \* the keys whose message is in its mailbox
    disk,      \* per path, the content of the file there, Junk or Nothing
    unsynced,  \* the paths whose rename the file system may still lose
    damaged,   \* the paths whose file the environment has harmed since it was put there
    staged,    \* per call, its temporary file
    sum,       \* per call, the checksum of the bytes on disk
    manifest,  \* per backup id, the <<key, content>> of its row, or Nothing
    restored,  \* the backup ids whose row says restored_to
    answer,    \* what each call has returned
    attempt,   \* the action attempt of each call
    linked,    \* its backup_id column
    pc,
    target,    \* the backup a restore was asked for
    bytes,     \* what it has read from the file
    changed,   \* the restores whose file was harmed after they had verified it
    copies     \* what has been appended: <<restore, backup id, content>>

files == <<disk, unsynced, damaged>>
call == <<staged, sum, answer>>
rows == <<manifest, attempt, linked>>
restore == <<restored, target, bytes, changed, copies>>
vars == <<box, files, call, rows, restore, pc>>

SaveStep == {"stage", "look", "rename", "clean", "find", "insert", "record", "mutate"}
RestoreStep == {"read", "append", "stamp"}
Location == SaveStep \cup RestoreStep \cup {"idle", "done", "dead"}
Live(p) == pc[p] \in SaveStep \cup RestoreStep
Goto(p, l) == pc' = [pc EXCEPT ![p] = l]
Row(p) == <<KeyOf[p], sum[p]>>
\* The rows a lookup by the natural key of call p finds.
RowsLike(p) == {q \in Saver : manifest[q] = Row(p)}

\* What earlier runs have left in the backup directory is arbitrary: good files
\* without a manifest row, and files that have rotted.
Init ==
    /\ box = Key
    /\ \E good, bad \in SUBSET Content :
          /\ good \cap bad = {}
          /\ disk = [c \in Content |-> IF c \in good THEN c
                                       ELSE IF c \in bad THEN Junk ELSE Nothing]
    /\ unsynced = {}
    /\ damaged = {}
    /\ staged = [p \in Saver |-> Nothing]
    /\ sum = [p \in Saver |-> Nothing]
    /\ manifest = [p \in Saver |-> Nothing]
    /\ restored = {}
    /\ answer = [p \in Saver |-> Nothing]
    /\ attempt = [p \in Saver |-> "none"]
    /\ linked = [p \in Saver |-> Nothing]
    /\ pc = [p \in Saver \cup Restorer |-> "idle"]
    /\ target = [r \in Restorer |-> Nothing]
    /\ bytes = [r \in Restorer |-> Nothing]
    /\ changed = {}
    /\ copies = {}
----------------------------------------------------------------------------
(* write_verified_backup, called for an attempt that is in flight.         *)

\* The attempt row is written; the bytes are in hand from the re-verification,
\* or fetched now.
Fetch(p) ==
    /\ pc[p] = "idle"
    /\ KeyOf[p] \in box
    /\ attempt' = [attempt EXCEPT ![p] = "in_flight"]
    /\ Goto(p, "stage")
    /\ UNCHANGED <<box, files, call, restore, manifest, linked>>

\* The fetch fails: the server refuses, or the message is gone.
FetchFails(p) ==
    /\ pc[p] = "idle"
    /\ "imap_error" \in Faults \/ KeyOf[p] \notin box
    /\ attempt' = [attempt EXCEPT ![p] = "in_flight"]
    /\ answer' = [answer EXCEPT ![p] = Failed]
    /\ Goto(p, "record")
    /\ UNCHANGED <<box, files, staged, sum, restore, manifest, linked>>

\* Temporary file written, synced and checksummed. The checksum is of the bytes
\* on disk, and only their number is compared with what was fetched.
Stage(p) ==
    /\ pc[p] = "stage"
    /\ \E c \in {Holds[KeyOf[p]]} \cup (IF "silent_corruption" \in Faults THEN Content ELSE {}) :
          /\ staged' = [staged EXCEPT ![p] = c]
          /\ sum' = [sum EXCEPT ![p] = c]
    /\ Goto(p, "look")
    /\ UNCHANGED <<box, files, answer, rows, restore>>

\* No space, no permission, or fewer bytes on disk than were written. There may
\* be no temporary file yet.
StageFails(p) ==
    /\ pc[p] = "stage"
    /\ "io_error" \in Faults
    /\ \E c \in {Nothing, Junk} : staged' = [staged EXCEPT ![p] = c]
    /\ answer' = [answer EXCEPT ![p] = Failed]
    /\ Goto(p, "clean")
    /\ UNCHANGED <<box, files, sum, rows, restore>>

\* Mutant of Trusts: the file at the path is believed.
TrustsAnyFile(c) == disk[c] # Nothing
\* A file of these bytes is there and still has the checksum its name says.
Trusts(c) == disk[c] = c

\* The content-addressed path: free, taken by the same bytes, or taken by bytes
\* that are not what the name says, which are never overwritten.
Look(p) ==
    /\ pc[p] = "look"
    /\ \/ /\ disk[sum[p]] = Nothing
          /\ Goto(p, "rename")
          /\ UNCHANGED answer
       \/ /\ disk[sum[p]] # Nothing
          /\ Trusts(sum[p])
          /\ Goto(p, "clean")
          /\ UNCHANGED answer
       \/ /\ disk[sum[p]] # Nothing
          /\ ~Trusts(sum[p])
          /\ answer' = [answer EXCEPT ![p] = Failed]
          /\ Goto(p, "clean")
    /\ UNCHANGED <<box, files, staged, sum, rows, restore>>

\* os.replace: whatever another call has put there since is replaced.
Rename(p) ==
    /\ pc[p] = "rename"
    /\ disk' = [disk EXCEPT ![sum[p]] = staged[p]]
    /\ unsynced' = unsynced \cup {sum[p]}
    /\ damaged' = damaged \ {sum[p]}
    /\ staged' = [staged EXCEPT ![p] = Nothing]
    \* The chmod after it may fail, with the file in its place.
    /\ \/ UNCHANGED answer
       \/ /\ "io_error" \in Faults
          /\ answer' = [answer EXCEPT ![p] = Failed]
    /\ Goto(p, "clean")
    /\ UNCHANGED <<box, sum, rows, restore>>

RenameFails(p) ==
    /\ pc[p] = "rename"
    /\ "io_error" \in Faults
    /\ answer' = [answer EXCEPT ![p] = Failed]
    /\ Goto(p, "clean")
    /\ UNCHANGED <<box, files, staged, sum, rows, restore>>

\* Mutant of Clean: the error is lost in the finally clause.
CleanAndForget(p) ==
    /\ pc[p] = "clean"
    /\ staged' = [staged EXCEPT ![p] = Nothing]
    /\ Goto(p, IF sum[p] = Nothing THEN "record" ELSE "find")
    /\ answer' = [answer EXCEPT ![p] = IF sum[p] = Nothing THEN Failed ELSE Nothing]
    /\ UNCHANGED <<box, files, sum, rows, restore>>

\* Mutant of Clean: only an error removes the temporary file.
CleanAfterError(p) ==
    /\ pc[p] = "clean"
    /\ staged' = [staged EXCEPT ![p] = IF answer[p] = Failed THEN Nothing ELSE @]
    /\ Goto(p, IF answer[p] = Failed THEN "record" ELSE "find")
    /\ UNCHANGED <<box, files, sum, answer, rows, restore>>

\* The finally clause: whatever happened, the temporary file goes.
Clean(p) ==
    /\ pc[p] = "clean"
    /\ staged' = [staged EXCEPT ![p] = Nothing]
    /\ Goto(p, IF answer[p] = Failed THEN "record" ELSE "find")
    /\ UNCHANGED <<box, files, sum, answer, rows, restore>>

Find(p) ==
    /\ pc[p] = "find"
    /\ IF RowsLike(p) = {}
       THEN /\ Goto(p, "insert")
            /\ UNCHANGED answer
       ELSE /\ \E q \in RowsLike(p) : answer' = [answer EXCEPT ![p] = q]
            /\ Goto(p, "record")
    /\ UNCHANGED <<box, files, staged, sum, rows, restore>>

\* Mutant of Insert: the uniqueness constraint is dropped.
InsertTwice(p) ==
    /\ pc[p] = "insert"
    /\ manifest' = [manifest EXCEPT ![p] = Row(p)]
    /\ answer' = [answer EXCEPT ![p] = p]
    /\ Goto(p, "record")
    /\ UNCHANGED <<box, files, staged, sum, attempt, linked, restore>>

Insert(p) ==
    /\ pc[p] = "insert"
    /\ RowsLike(p) = {}
    /\ manifest' = [manifest EXCEPT ![p] = Row(p)]
    /\ answer' = [answer EXCEPT ![p] = p]
    /\ Goto(p, "record")
    /\ UNCHANGED <<box, files, staged, sum, attempt, linked, restore>>

\* The insert violates the uniqueness constraint: another call was first, and
\* its row is read back.
InsertLost(p) ==
    /\ pc[p] = "insert"
    /\ RowsLike(p) # {}
    /\ \E q \in RowsLike(p) : answer' = [answer EXCEPT ![p] = q]
    /\ Goto(p, "record")
    /\ UNCHANGED <<box, files, staged, sum, rows, restore>>
----------------------------------------------------------------------------
(* The caller: the attempt is closed, then the message may be moved.       *)

Record(p) ==
    /\ pc[p] = "record"
    /\ IF answer[p] = Failed
       THEN /\ attempt' = [attempt EXCEPT ![p] = "failed"]
            /\ Goto(p, "done")
            /\ UNCHANGED linked
       ELSE /\ attempt' = [attempt EXCEPT ![p] = "completed"]
            /\ linked' = [linked EXCEPT ![p] = answer[p]]
            /\ Goto(p, "mutate")
    /\ UNCHANGED <<box, files, call, manifest, restore>>

\* The trash or move_to that follows the backup in the action list.
Mutate(p) ==
    /\ pc[p] = "mutate"
    /\ box' = box \ {KeyOf[p]}
    /\ Goto(p, "done")
    /\ UNCHANGED <<files, call, rows, restore>>

\* Mutant of ReconcileVerdict: a state the schema does not have.
ReconcileDoubts(p) == IF linked[p] # Nothing THEN "completed" ELSE "unknown"
\* The reconcile pass of a later run finds the attempt of a killed one open. It
\* judges by the backup_id column, which only Record writes.
ReconcileVerdict(p) ==
    IF linked[p] # Nothing /\ manifest[linked[p]] # Nothing THEN "completed" ELSE "failed"
Reconcile(p) ==
    /\ pc[p] = "dead"
    /\ attempt[p] = "in_flight"
    /\ attempt' = [attempt EXCEPT ![p] = ReconcileVerdict(p)]
    /\ UNCHANGED <<box, files, call, manifest, linked, restore, pc>>
----------------------------------------------------------------------------
(* restore_backup.                                                         *)

\* Mutant of Verified: only the presence of the file is checked.
VerifiedByPresence(b) == manifest[b] # Nothing /\ disk[manifest[b][2]] # Nothing
Verified(b) == manifest[b] # Nothing /\ disk[manifest[b][2]] = manifest[b][2]

\* Row, file and checksum are checked; an invocation with --dry-run ends here.
Check(r) ==
    /\ pc[r] = "idle"
    /\ \E b \in Saver :
          /\ Verified(b)
          /\ target' = [target EXCEPT ![r] = b]
    /\ Goto(r, "read") \/ Goto(r, "done")
    /\ UNCHANGED <<box, files, call, rows, restored, bytes, changed, copies>>

CheckFails(r) ==
    /\ pc[r] = "idle"
    /\ \E b \in Saver :
          /\ ~Verified(b)
          /\ target' = [target EXCEPT ![r] = b]
    /\ Goto(r, "done")
    /\ UNCHANGED <<box, files, call, rows, restored, bytes, changed, copies>>

\* The file is read a second time; if it is gone by now the command fails.
Read(r) ==
    /\ pc[r] = "read"
    /\ LET found == disk[manifest[target[r]][2]]
       IN  /\ bytes' = [bytes EXCEPT ![r] = found]
           /\ Goto(r, IF found = Nothing THEN "done" ELSE "append")
    /\ UNCHANGED <<box, files, call, rows, restored, target, changed, copies>>

Append(r) ==
    /\ pc[r] = "append"
    /\ copies' = copies \cup {<<r, target[r], bytes[r]>>}
    /\ Goto(r, "stamp")
    /\ UNCHANGED <<box, files, call, rows, restored, target, bytes, changed>>

\* Mutant of AppendFails: the error is not raised, and the row is stamped.
AppendFailsUnnoticed(r) ==
    /\ pc[r] = "append"
    /\ "imap_error" \in Faults
    /\ UNCHANGED copies
    /\ Goto(r, "stamp")
    /\ UNCHANGED <<box, files, call, rows, restored, target, bytes, changed>>

\* The server refuses, or appends and its reply is lost.
AppendFails(r) ==
    /\ pc[r] = "append"
    /\ "imap_error" \in Faults
    /\ \/ UNCHANGED copies
       \/ copies' = copies \cup {<<r, target[r], bytes[r]>>}
    /\ Goto(r, "done")
    /\ UNCHANGED <<box, files, call, rows, restored, target, bytes, changed>>

Stamp(r) ==
    /\ pc[r] = "stamp"
    /\ restored' = restored \cup {target[r]}
    /\ Goto(r, "done")
    /\ UNCHANGED <<box, files, call, rows, target, bytes, changed, copies>>
----------------------------------------------------------------------------
(* The environment.                                                        *)

\* The restores that have verified the file of c and not yet read it.
Between(c) == {r \in Restorer : pc[r] = "read" /\ manifest[target[r]][2] = c}

Kill(p) ==
    /\ "kill" \in Faults
    /\ Live(p)
    /\ Goto(p, "dead")
    /\ UNCHANGED <<box, files, call, rows, restore>>

\* Everything stops. SQLite has synced its commits; the directory of a renamed
\* file is never synced, so the file system may lose the rename.
PowerCut ==
    /\ "power_cut" \in Faults
    /\ pc' = [p \in DOMAIN pc |-> IF Live(p) THEN "dead" ELSE pc[p]]
    /\ \E lost \in SUBSET unsynced :
          /\ lost # {}
          /\ disk' = [c \in Content |-> IF c \in lost THEN Nothing ELSE disk[c]]
          /\ damaged' = damaged \cup lost
    /\ unsynced' = {}
    /\ UNCHANGED <<box, call, rows, restore>>

\* A file decays or is deleted by its owner.
Rot(c) ==
    /\ "rot" \in Faults
    /\ disk[c] = c
    /\ \E bad \in {Junk, Nothing} : disk' = [disk EXCEPT ![c] = bad]
    /\ damaged' = damaged \cup {c}
    /\ changed' = changed \cup Between(c)
    /\ UNCHANGED <<box, unsynced, call, rows, restored, target, bytes, copies, pc>>

Saving(p) ==
    \/ Fetch(p) \/ FetchFails(p) \/ Stage(p) \/ StageFails(p) \/ Look(p)
    \/ Rename(p) \/ RenameFails(p) \/ Clean(p) \/ Find(p) \/ Insert(p) \/ InsertLost(p)
    \/ Record(p) \/ Mutate(p) \/ Reconcile(p)
Restoring(r) ==
    \/ Check(r) \/ CheckFails(r) \/ Read(r) \/ Append(r) \/ AppendFails(r) \/ Stamp(r)
Next ==
    \/ \E p \in Saver : Saving(p)
    \/ \E r \in Restorer : Restoring(r)
    \/ \E p \in Saver \cup Restorer : Kill(p)
    \/ PowerCut
    \/ \E c \in Content : Rot(c)

Spec == Init /\ [][Next]_vars
----------------------------------------------------------------------------
TypeOK ==
    /\ box \subseteq Key
    /\ disk \in [Content -> Content \cup {Junk, Nothing}]
    /\ unsynced \subseteq Content
    /\ damaged \subseteq Content
    /\ staged \in [Saver -> Content \cup {Junk, Nothing}]
    /\ sum \in [Saver -> Content \cup {Nothing}]
    /\ manifest \in [Saver -> (Key \X Content) \cup {Nothing}]
    /\ restored \subseteq Saver
    /\ answer \in [Saver -> Saver \cup {Nothing, Failed}]
    /\ attempt \in [Saver -> {"none", "in_flight", "completed", "failed"}]
    /\ linked \in [Saver -> Saver \cup {Nothing}]
    /\ pc \in [Saver \cup Restorer -> Location]
    /\ target \in [Restorer -> Saver \cup {Nothing}]
    /\ bytes \in [Restorer -> Content \cup {Junk, Nothing}]
    /\ changed \subseteq Restorer
    /\ copies \subseteq Restorer \X Saver \X (Content \cup {Junk})

\* Every manifest row names a file that holds exactly the bytes it was made
\* for, whichever calls raced for the path or found a file there already
\* (write_verified_backup), as long as nothing harms the file afterwards.
Backed(x) == x[2] \in damaged \/ disk[x[2]] = x[2]
ManifestBacked == \A q \in Saver : manifest[q] # Nothing => Backed(manifest[q])

\* A run removes a message only if a manifest row for that message and its true
\* bytes is committed and backed by its file, and the attempt that precedes the
\* mutation is recorded completed and linked to such a row.
NothingLost ==
    \A k \in Key \ box :
        \E p, q \in Saver : /\ attempt[p] = "completed"
                            /\ linked[p] = q
                            /\ manifest[q] = <<k, Holds[k]>>
                            /\ Backed(manifest[q])

\* A restore appends the bytes its row was made for and no others, however many
\* backups and restores run meanwhile, unless the file is harmed in the window
\* between the two reads of it.
RestoreFaithful ==
    \A x \in copies : x[3] = manifest[x[2]][2] \/ x[1] \in changed

\* A row says restored only if a copy of it has been appended.
StampsAreTrue == \A b \in restored : \E x \in copies : x[2] = b

\* A temporary file outlives its call only if the call was killed: every other
\* way out of the write removes it.
NoLitter == \A p \in Saver : staged[p] # Nothing => pc[p] \in {"look", "rename", "clean", "dead"}

Store == INSTANCE BackupStore
\* The file protocol, races and kills included, is the write-once store that
\* the execute phase relies on.
ImplementsStore == Store!Spec

\* What execute.py says of a reconciled backup: it failed only if its manifest
\* row was not committed.
FailedMeansNoRow == \A p \in Saver : attempt[p] = "failed" => manifest[p] = Nothing

\* What backup.py says of a write-time corruption: it is caught, so no row is
\* made for bytes the message does not have.
CorruptionCaught == \A q \in Saver : manifest[q] # Nothing => manifest[q][2] = Holds[manifest[q][1]]
=============================================================================
