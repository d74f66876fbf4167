---------------------------- MODULE BackupProofs ----------------------------
(***************************************************************************)
(* Theorems about Backup, for every number of backups, restores, messages   *)
(* and contents and every choice of faults, unless one says otherwise.      *)
(***************************************************************************)
EXTENDS Backup, TLAPS

\* The file at the path of c holds c, unless the environment has harmed it.
Sound(c) == c \in damaged \/ disk[c] = c

\* Where a call is in the file protocol, and what it has by then.
Protocol ==
    \A p \in Saver :
        /\ pc[p] \in SaveStep \cup {"idle", "done", "dead"}
        /\ pc[p] \in {"idle", "stage", "look", "rename", "find", "insert"} => answer[p] = Nothing
        /\ pc[p] \in {"idle", "stage"} => sum[p] = Nothing
        /\ pc[p] = "clean" => answer[p] \in {Nothing, Failed}
        /\ pc[p] = "record" => answer[p] # Nothing
        /\ staged[p] # Nothing => pc[p] \in {"look", "rename", "clean", "dead"}
        /\ pc[p] \in {"look", "rename"} => sum[p] \in Content /\ staged[p] = sum[p]
        /\ pc[p] \in {"find", "insert"} \/ (pc[p] = "clean" /\ answer[p] # Failed)
               => sum[p] \in Content /\ Sound(sum[p])

\* A row is the answer of the call that made it and names a sound file; an answer
\* names a row for what its call was about.
Manifested ==
    \A p \in Saver :
        /\ manifest[p] # Nothing => answer[p] = p /\ Sound(manifest[p][2])
        /\ answer[p] \in Saver => /\ pc[p] \in {"record", "mutate", "done", "dead"}
                                  /\ sum[p] \in Content
                                  /\ manifest[answer[p]] = Row(p)

\* A completed attempt is linked to the answer, and what is gone was backed up.
Attempted ==
    /\ \A p \in Saver :
          /\ linked[p] # Nothing => linked[p] = answer[p] /\ answer[p] \in Saver
          /\ attempt[p] = "completed" => linked[p] # Nothing /\ pc[p] \in {"mutate", "done", "dead"}
          /\ pc[p] = "mutate" => attempt[p] = "completed"
    /\ \A k \in Key \ box : \E p \in Saver : KeyOf[p] = k /\ attempt[p] = "completed"

\* What a restore has at each of its steps.
Restored ==
    /\ \A r \in Restorer :
          /\ pc[r] \in RestoreStep \cup {"idle", "done", "dead"}
          /\ pc[r] \in RestoreStep => target[r] \in Saver /\ manifest[target[r]] # Nothing
          /\ pc[r] = "read" /\ r \notin changed => disk[manifest[target[r]][2]] = manifest[target[r]][2]
          /\ pc[r] = "append" => /\ bytes[r] # Nothing
                                 /\ r \notin changed => bytes[r] = manifest[target[r]][2]
          /\ pc[r] = "stamp" => \E x \in copies : x[2] = target[r]
    /\ \A x \in copies : manifest[x[2]] # Nothing
    /\ RestoreFaithful
    /\ StampsAreTrue

IInv == TypeOK /\ Protocol /\ Manifested /\ Attempted /\ Restored

\* Without silent corruption a checksum is that of the message.
TrueBytes == \A p \in Saver : sum[p] # Nothing => sum[p] = Holds[KeyOf[p]]
----------------------------------------------------------------------------
\* The invariant holds at the start,
LEMMA InitInv == Init => IInv
  BY BackupAssumption
  DEF Init, IInv, TypeOK, Protocol, Manifested, Attempted, Restored, RestoreFaithful, StampsAreTrue,
      Location, SaveStep, RestoreStep

\* every step of a backup and of its caller keeps it,
LEMMA SavingStep ==
    ASSUME NEW p \in Saver, IInv, Saving(p)
    PROVE  IInv'
<1> USE BackupAssumption
    DEF IInv, TypeOK, Protocol, Manifested, Sound, Attempted, Restored, RestoreFaithful, StampsAreTrue,
        Goto, Location, SaveStep, RestoreStep, files, call, rows, restore, Row
<1>1. CASE Fetch(p)
  BY <1>1 DEF Fetch
<1>2. CASE FetchFails(p)
  BY <1>2 DEF FetchFails
<1>3. CASE Stage(p)
  BY <1>3 DEF Stage
<1>4. CASE StageFails(p)
  BY <1>4 DEF StageFails
<1>5. CASE Look(p)
  <2>1. TypeOK'
    BY <1>5 DEF Look, Trusts
  <2>2. Protocol'
    BY <1>5 DEF Look, Trusts
  <2>3. Manifested'
    BY <1>5 DEF Look, Trusts
  <2>4. Attempted'
    BY <1>5 DEF Look, Trusts
  <2>5. Restored'
    BY <1>5 DEF Look, Trusts
  <2> QED
    BY <2>1, <2>2, <2>3, <2>4, <2>5
<1>6. CASE Rename(p)
  BY <1>6 DEF Rename
<1>7. CASE RenameFails(p)
  BY <1>7 DEF RenameFails
<1>8. CASE Clean(p)
  BY <1>8 DEF Clean
<1>9. CASE Find(p)
  <2>0. answer' \in [Saver -> Saver \cup {Nothing, Failed}]
    BY <1>9 DEF Find, RowsLike
  <2>1. TypeOK'
    BY <1>9, <2>0 DEF Find
  <2>2. Protocol'
    BY <1>9 DEF Find, RowsLike
  <2>3. Manifested'
    BY <1>9 DEF Find, RowsLike
  <2>4. Attempted'
    BY <1>9 DEF Find, RowsLike
  <2>5. Restored'
    BY <1>9 DEF Find, RowsLike
  <2> QED
    BY <2>1, <2>2, <2>3, <2>4, <2>5
<1>10. CASE Insert(p)
  BY <1>10 DEF Insert, RowsLike
<1>11. CASE InsertLost(p)
  BY <1>11 DEF InsertLost, RowsLike
<1>12. CASE Record(p)
  <2>1. TypeOK'
    BY <1>12 DEF Record
  <2>2. Protocol'
    BY <1>12 DEF Record
  <2>3. Manifested'
    BY <1>12 DEF Record
  <2>4. Attempted'
    BY <1>12 DEF Record
  <2>5. Restored'
    BY <1>12 DEF Record
  <2> QED
    BY <2>1, <2>2, <2>3, <2>4, <2>5
<1>13. CASE Mutate(p)
  BY <1>13 DEF Mutate
<1>14. CASE Reconcile(p)
  BY <1>14 DEF Reconcile, ReconcileVerdict
<1> QED
  BY <1>1, <1>2, <1>3, <1>4, <1>5, <1>6, <1>7, <1>8, <1>9, <1>10, <1>11, <1>12, <1>13, <1>14 DEF Saving

\* every step of a restore,
LEMMA RestoringStep ==
    ASSUME NEW r \in Restorer, IInv, Restoring(r)
    PROVE  IInv'
<1> USE BackupAssumption
    DEF IInv, TypeOK, Protocol, Manifested, Sound, Attempted, Restored, RestoreFaithful, StampsAreTrue,
        Goto, Location, SaveStep, RestoreStep, files, call, rows, Row
<1>1. CASE Check(r)
  BY <1>1 DEF Check, Verified
<1>2. CASE CheckFails(r)
  BY <1>2 DEF CheckFails, Verified
<1>3. CASE Read(r)
  BY <1>3 DEF Read
<1>4. CASE Append(r)
  <2>1. TypeOK' /\ Protocol' /\ Manifested' /\ Attempted'
    BY <1>4 DEF Append
  <2>2. \A x \in copies' \ copies : x = <<r, target[r], bytes[r]>>
    BY <1>4 DEF Append
  <2>3. <<r, target[r], bytes[r]>> \in copies'
    BY <1>4 DEF Append
  <2>4. RestoreFaithful' /\ StampsAreTrue'
    BY <1>4, <2>2 DEF Append
  <2>5. \A x \in copies' : manifest'[x[2]] # Nothing
    BY <1>4, <2>2 DEF Append
  <2>6. ASSUME NEW s \in Restorer
        PROVE  /\ pc'[s] \in RestoreStep \cup {"idle", "done", "dead"}
               /\ pc'[s] \in RestoreStep => target'[s] \in Saver /\ manifest'[target'[s]] # Nothing
               /\ pc'[s] = "read" /\ s \notin changed'
                      => disk'[manifest'[target'[s]][2]] = manifest'[target'[s]][2]
               /\ pc'[s] = "append" => /\ bytes'[s] # Nothing
                                       /\ s \notin changed' => bytes'[s] = manifest'[target'[s]][2]
    BY <1>4 DEF Append
  <2>7. ASSUME NEW s \in Restorer, pc'[s] = "stamp"
        PROVE  \E x \in copies' : x[2] = target'[s]
    <3>1. CASE s = r
      BY <1>4, <2>3, <3>1 DEF Append
    <3>2. CASE s # r
      BY <1>4, <2>7, <3>2 DEF Append
    <3> QED
      BY <3>1, <3>2
  <2>8. Restored'
    BY <2>4, <2>5, <2>6, <2>7
  <2> QED
    BY <2>1, <2>8
<1>5. CASE AppendFails(r)
  BY <1>5 DEF AppendFails
<1>6. CASE Stamp(r)
  BY <1>6 DEF Stamp
<1> QED
  BY <1>1, <1>2, <1>3, <1>4, <1>5, <1>6 DEF Restoring

\* and whatever the environment does.
LEMMA EnvironmentStep ==
    ASSUME IInv,
           \/ \E p \in Saver \cup Restorer : Kill(p)
           \/ PowerCut
           \/ \E c \in Content : Rot(c)
    PROVE  IInv'
<1> USE BackupAssumption
    DEF IInv, TypeOK, Protocol, Manifested, Sound, Attempted, Restored, RestoreFaithful, StampsAreTrue,
        Goto, Live, Location, SaveStep, RestoreStep, files, call, rows, restore, Row
<1>1. ASSUME NEW p \in Saver \cup Restorer, Kill(p) PROVE IInv'
  BY <1>1 DEF Kill
<1>2. CASE PowerCut
  BY <1>2 DEF PowerCut
<1>3. ASSUME NEW c \in Content, Rot(c) PROVE IInv'
  BY <1>3 DEF Rot, Between
<1> QED
  BY <1>1, <1>2, <1>3

LEMMA StutterStep ==
    ASSUME IInv, UNCHANGED vars
    PROVE  IInv'
BY DEF IInv, TypeOK, Protocol, Manifested, Sound, Attempted, Restored, RestoreFaithful, StampsAreTrue,
       vars, files, call, rows, restore, Row

LEMMA Invariance == Spec => []IInv
<1>1. IInv /\ [Next]_vars => IInv'
  BY SavingStep, RestoringStep, EnvironmentStep, StutterStep DEF Next
<1> QED
  BY InitInv, <1>1, PTL DEF Spec
----------------------------------------------------------------------------
\* Every variable of the backup protocol keeps its type.
THEOREM TypeCorrect == Spec => []TypeOK
<1>1. IInv => TypeOK
  BY DEF IInv
<1> QED
  BY <1>1, Invariance, PTL

\* Whatever races, kills and faults there are, a manifest row is backed by its file.
THEOREM RowsAreBacked == Spec => []ManifestBacked
<1>1. IInv => ManifestBacked
  BY DEF IInv, Manifested, ManifestBacked, Backed, Sound
<1> QED
  BY <1>1, Invariance, PTL

\* Only a kill leaves a temporary file behind.
THEOREM OnlyTheDeadLitter == Spec => []NoLitter
<1>1. IInv => NoLitter
  BY DEF IInv, Protocol, NoLitter
<1> QED
  BY <1>1, Invariance, PTL

\* What a restore appends is what was backed up.
THEOREM RestoresAreFaithful == Spec => []RestoreFaithful
<1>1. IInv => RestoreFaithful
  BY DEF IInv, Restored
<1> QED
  BY <1>1, Invariance, PTL

\* A row says restored only when something has been.
THEOREM StampsHaveCause == Spec => []StampsAreTrue
<1>1. IInv => StampsAreTrue
  BY DEF IInv, Restored
<1> QED
  BY <1>1, Invariance, PTL
----------------------------------------------------------------------------
\* No step gives a call a checksum other than that of its message.
LEMMA TrueBytesStep ==
    ASSUME "silent_corruption" \notin Faults, IInv, TrueBytes, [Next]_vars
    PROVE  TrueBytes'
<1> USE DEF TrueBytes
<1>1. ASSUME NEW p \in Saver, Stage(p) PROVE TrueBytes'
  BY <1>1 DEF Stage, IInv, TypeOK
<1>2. UNCHANGED sum \/ \E p \in Saver : Stage(p)
  BY DEF Next, Saving, Restoring, Fetch, FetchFails, StageFails, Look, Rename, RenameFails, Clean, Find,
         Insert, InsertLost, Record, Mutate, Reconcile, Check, CheckFails, Read, Append, AppendFails, Stamp,
         Kill, PowerCut, Rot, vars, call
<1> QED
  BY <1>1, <1>2

\* Unless the disk lies, a message that is gone has a committed row for its true
\* bytes, backed by its file and linked to the attempt that came before.
THEOREM GoneIsBackedUp ==
    ASSUME "silent_corruption" \notin Faults
    PROVE  Spec => []NothingLost
<1>1. Init => TrueBytes
  BY DEF Init, TrueBytes
<1>2. IInv /\ TrueBytes /\ [Next]_vars => TrueBytes'
  BY TrueBytesStep
<1>3. IInv /\ TrueBytes => NothingLost
  <2> SUFFICES ASSUME IInv, TrueBytes, NEW k \in Key \ box
               PROVE  \E p, q \in Saver : /\ attempt[p] = "completed"
                                          /\ linked[p] = q
                                          /\ manifest[q] = <<k, Holds[k]>>
                                          /\ Backed(manifest[q])
    BY DEF NothingLost
  <2>1. PICK p \in Saver : KeyOf[p] = k /\ attempt[p] = "completed"
    BY DEF IInv, Attempted
  <2>2. linked[p] = answer[p] /\ answer[p] \in Saver
    BY <2>1 DEF IInv, Attempted
  <2>3. manifest[answer[p]] = <<k, sum[p]>> /\ sum[p] \in Content
    BY <2>1, <2>2 DEF IInv, Manifested, Row
  <2>4. sum[p] = Holds[k]
    BY <2>1, <2>3, BackupAssumption DEF TrueBytes
  <2>5. manifest[answer[p]] # Nothing
    BY <2>3, BackupAssumption
  <2>6. Backed(manifest[answer[p]])
    BY <2>2, <2>5 DEF IInv, Manifested, Sound, Backed
  <2> QED
    BY <2>1, <2>2, <2>3, <2>4, <2>6
<1> QED
  BY <1>1, <1>2, <1>3, Invariance, PTL DEF Spec
----------------------------------------------------------------------------
\* A step of a backup is a step of the write-once store, or none.
LEMMA SavingStores ==
    ASSUME NEW p \in Saver, IInv, Saving(p)
    PROVE  Store!Next \/ UNCHANGED <<manifest, answer>>
<1> USE BackupAssumption
    DEF IInv, TypeOK, Protocol, Manifested, Store!Next, Store!Unanswered, call, rows, Row
<1>1. CASE Fetch(p)
  BY <1>1 DEF Fetch
<1>2. CASE FetchFails(p)
  BY <1>2 DEF FetchFails, Store!Fail
<1>3. CASE Stage(p)
  BY <1>3 DEF Stage
<1>4. CASE StageFails(p)
  BY <1>4 DEF StageFails, Store!Fail
<1>5. CASE Look(p)
  BY <1>5 DEF Look, Store!Fail
<1>6. CASE Rename(p)
  BY <1>6 DEF Rename, Store!Fail
<1>7. CASE RenameFails(p)
  BY <1>7 DEF RenameFails, Store!Fail
<1>8. CASE Clean(p)
  BY <1>8 DEF Clean
<1>9. CASE Find(p)
  BY <1>9 DEF Find, RowsLike, Store!Reuse
<1>10. CASE Insert(p)
  BY <1>10 DEF Insert, RowsLike, Store!Save
<1>11. CASE InsertLost(p)
  <2>1. answer[p] = Nothing /\ sum[p] \in Content /\ UNCHANGED manifest
    BY <1>11 DEF InsertLost
  <2>2. PICK q \in RowsLike(p) : answer' = [answer EXCEPT ![p] = q]
    BY <1>11 DEF InsertLost
  <2>3. q \in Saver /\ manifest[q] = <<KeyOf[p], sum[p]>>
    BY DEF RowsLike
  <2>4. Store!Reuse(p)
    BY <2>1, <2>2, <2>3 DEF Store!Reuse
  <2> QED
    BY <2>4
<1>12. CASE Record(p)
  BY <1>12 DEF Record
<1>13. CASE Mutate(p)
  BY <1>13 DEF Mutate
<1>14. CASE Reconcile(p)
  BY <1>14 DEF Reconcile
<1> QED
  BY <1>1, <1>2, <1>3, <1>4, <1>5, <1>6, <1>7, <1>8, <1>9, <1>10, <1>11, <1>12, <1>13, <1>14 DEF Saving

\* The file protocol is the write-once store: a call answers once, with a row of
\* the manifest or a failure, and the manifest has one row per message and content.
THEOREM FilesImplementStore == Spec => ImplementsStore
<1>1. Init => Store!Init
  BY DEF Init, Store!Init
<1>2. IInv /\ [Next]_vars => [Store!Next]_(Store!vars)
  <2> SUFFICES ASSUME IInv, [Next]_vars
               PROVE  Store!Next \/ UNCHANGED <<manifest, answer>>
    BY DEF Store!vars
  <2>1. ASSUME NEW r \in Restorer, Restoring(r) PROVE UNCHANGED <<manifest, answer>>
    BY <2>1 DEF Restoring, Check, CheckFails, Read, Append, AppendFails, Stamp, call, rows
  <2>2. ASSUME NEW p \in Saver \cup Restorer, Kill(p) PROVE UNCHANGED <<manifest, answer>>
    BY <2>2 DEF Kill, call, rows
  <2>3. ASSUME PowerCut \/ (\E c \in Content : Rot(c)) \/ UNCHANGED vars
        PROVE  UNCHANGED <<manifest, answer>>
    BY <2>3 DEF PowerCut, Rot, vars, call, rows
  <2> QED
    BY <2>1, <2>2, <2>3, SavingStores DEF Next
<1> QED
  BY <1>1, <1>2, Invariance, PTL DEF Spec, ImplementsStore, Store!Spec
=============================================================================
