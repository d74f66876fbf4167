--------------------------- MODULE ExecuteProofs ---------------------------
(***************************************************************************)
(* Theorems about Execute, for every number of runs, keys and tasks, every *)
(* action list and every choice of faults, unless one says otherwise.      *)
(***************************************************************************)
EXTENDS Execute, NaturalsInduction, WellFoundedInduction, TLAPS

\* The program points at which the cursor of a run is on an open attempt.
AtAttempt == {"pending", "in_flight", "checked", "effect"}

\* A run that works on a key has one, and its cursor is in its action list.
Located ==
    \A r \in Run :
        /\ pc[r] \in Holding \cup {"unclaim"} => key[r] \in Key
        /\ pc[r] \in AtAttempt => seq[r] \in DOMAIN Acts(r)
----------------------------------------------------------------------------
(* The inductive invariant behind the claims.                              *)

OneRunPerLock ==
    \A q, r \in Run :
        q # r /\ LockOf[q] = LockOf[r] => ~(pc[q] \in Live /\ pc[r] \in Live)

HeldIsClaimed == \A r \in Run : pc[r] \in Holding => claim[key[r]] = r

\* An attempt is open because its run is at it, or was at it when it died.
OpenRowsHaveCause ==
    \A x \in Row : Open(x) =>
        \/ pc[x[1]] = "dead"
        \/ pc[x[1]] \in AtAttempt /\ x = Cursor(x[1])

OneOpenRowPerRun == \A x, y \in Row : Open(x) /\ Open(y) /\ x[1] = y[1] => x = y

\* Reconcile has only rows of the dead before it,
TodoIsDead ==
    \A r \in Run :
        /\ \A x \in todo[r] :
              Open(x) /\ pc[x[1]] = "dead" /\ TaskOf[x[1]] = TaskOf[r]
        /\ pc[r] \notin {"reconcile", "unclaim"} => todo[r] = {}

\* and releases only claims of the dead, when they have no open row on the key.
UnclaimIsSafe ==
    \A r \in Run : pc[r] = "unclaim" =>
        /\ claim[key[r]] \in Run
        /\ pc[claim[key[r]]] = "dead"
        /\ TaskOf[claim[key[r]]] = TaskOf[r]
        /\ \A x \in Row : Open(x) => x[2] # key[r]

ClaimInv ==
    /\ TypeOK
    /\ Located
    /\ OneRunPerLock
    /\ HeldIsClaimed
    /\ OpenRowsAreClaimed
    /\ OpenRowsHaveCause
    /\ OneOpenRowPerRun
    /\ TodoIsDead
    /\ UnclaimIsSafe
----------------------------------------------------------------------------
\* The next item of a run is one of those it has left, and none of them is older.
LEMMA OldestIsIn ==
    ASSUME NEW S \in SUBSET Key, S # {}
    PROVE  Oldest(S) \in S /\ \A j \in S : Age[Oldest(S)] <= Age[j]
<1> DEFINE T == {Age[k] : k \in S}
           Less == {p \in Nat \X Nat : p[1] < p[2]}
<1>1. T \subseteq Nat /\ T # {}
  BY KeysAssumption
<1> HIDE DEF T
<1>0. IsWellFoundedOn(Less, Nat)
  BY NatLessThanWellFounded, Zenon DEF OpToRel
<1> HIDE DEF Less
<1>2. PICK n \in T : \A i \in T : ~ (<<i, n>> \in Less)
  BY <1>1, <1>0, WFMin
<1>3. ASSUME NEW i \in T PROVE n <= i
  <2>1. i \in Nat /\ n \in Nat
    BY <1>1
  <2>2. i < n => <<i, n>> \in Less
    BY <2>1 DEF Less
  <2> QED
    BY <1>2, <2>1, <2>2
<1> USE DEF T
<1>4. PICK k \in S : Age[k] = n
  OBVIOUS
<1>5. \A j \in S : Age[k] <= Age[j]
  BY <1>3, <1>4
<1> QED
  BY <1>5 DEF Oldest

\* The variables have their types, and cursors their places, at the start,
LEMMA InitTyped == Init => TypeOK /\ Located
  BY KeysAssumption, RunsAssumption
  DEF Init, TypeOK, Located, ServerState, CandState, AttemptState, ItemStatus, Location,
      Live, Holding, Outcome, AtAttempt

\* and every step keeps them.
LEMMA NextTyped ==
    ASSUME TypeOK, Located, [Next]_vars
    PROVE  TypeOK' /\ Located'
<1> USE TasksAssumption, KeysAssumption, RunsAssumption
<1> USE DEF TypeOK, Located, Goto, store, job, Location, Live, Holding, AtAttempt, Acts,
            ServerState, CandState, AttemptState, ItemStatus
<1>1. ASSUME NEW r \in Run, Begin(r) PROVE TypeOK' /\ Located'
  BY <1>1 DEF Begin, OpenRowsOf
<1>2. ASSUME NEW r \in Run, Busy(r) PROVE TypeOK' /\ Located'
  BY <1>2 DEF Busy
<1>3. ASSUME NEW r \in Run, CloseRow(r) PROVE TypeOK' /\ Located'
  <2>1. PICK x \in todo[r], v \in {"completed", "failed"} :
           /\ attempt' = [attempt EXCEPT ![x] = v]
           /\ todo' = [todo EXCEPT ![r] = @ \ {x}]
           /\ key' = [key EXCEPT ![r] = x[2]]
    BY <1>3 DEF CloseRow, Verdicts
  <2>2. x \in Row /\ x[2] \in Key
    BY <2>1 DEF Row
  <2>3. TypeOK'
    BY <1>3, <2>1, <2>2 DEF CloseRow
  <2>4. Located'
    BY <1>3, <2>1, <2>2 DEF CloseRow
  <2> QED
    BY <2>3, <2>4
<1>4. ASSUME NEW r \in Run, Unclaim(r) PROVE TypeOK' /\ Located'
  BY <1>4 DEF Unclaim
<1>5. ASSUME NEW r \in Run, Scan(r) PROVE TypeOK' /\ Located'
  BY <1>5 DEF Scan
<1>6. ASSUME NEW r \in Run, Load(r) PROVE TypeOK' /\ Located'
  BY <1>6 DEF Load, Pool
<1>7. ASSUME NEW r \in Run, Decide(r) PROVE TypeOK' /\ Located'
  BY <1>7 DEF Decide
<1>8. ASSUME NEW r \in Run, SkipCapped(r) PROVE TypeOK' /\ Located'
  <2>1. taken' \in [Run -> Nat]
    BY <1>8 DEF SkipCapped, Take
  <2>2. plan' \in [Run -> SUBSET Key]
    BY <1>8 DEF SkipCapped, Take
  <2> QED
    BY <1>8, <2>1, <2>2 DEF SkipCapped, Take
<1>9. ASSUME NEW r \in Run, Preview(r) PROVE TypeOK' /\ Located'
  <2>1. taken' \in [Run -> Nat]
    BY <1>9 DEF Preview, Take
  <2>2. plan' \in [Run -> SUBSET Key]
    BY <1>9 DEF Preview, Take
  <2> QED
    BY <1>9, <2>1, <2>2 DEF Preview, Take
<1>10. ASSUME NEW r \in Run, Claim(r) PROVE TypeOK' /\ Located'
  <2>1. taken' \in [Run -> Nat]
    BY <1>10 DEF Claim, Take
  <2>2. plan' \in [Run -> SUBSET Key]
    BY <1>10 DEF Claim, Take
  <2>3. NextKey(r) \in Key
    BY <1>10, OldestIsIn DEF Claim, NextKey
  <2> QED
    BY <1>10, <2>1, <2>2, <2>3 DEF Claim, Take
<1>11. ASSUME NEW r \in Run, ClaimRefused(r) PROVE TypeOK' /\ Located'
  <2>1. taken' \in [Run -> Nat]
    BY <1>11 DEF ClaimRefused, Take
  <2>2. plan' \in [Run -> SUBSET Key]
    BY <1>11 DEF ClaimRefused, Take
  <2> QED
    BY <1>11, <2>1, <2>2 DEF ClaimRefused, Take
<1>12. ASSUME NEW r \in Run, VerifyVanished(r) PROVE TypeOK' /\ Located'
  BY <1>12 DEF VerifyVanished
<1>13. ASSUME NEW r \in Run, VerifyChanged(r) PROVE TypeOK' /\ Located'
  BY <1>13 DEF VerifyChanged
<1>14. ASSUME NEW r \in Run, VerifyProtected(r) PROVE TypeOK' /\ Located'
  BY <1>14 DEF VerifyProtected
<1>15. ASSUME NEW r \in Run, VerifyOk(r) PROVE TypeOK' /\ Located'
  BY <1>15 DEF VerifyOk
<1>16. ASSUME NEW r \in Run, VerifyError(r) PROVE TypeOK' /\ Located'
  BY <1>16 DEF VerifyError
<1>17. ASSUME NEW r \in Run, Insert(r) PROVE TypeOK' /\ Located'
  <2>1. seq' \in [Run -> Nat]
    BY <1>17 DEF Insert
  <2>2. attempt' \in [Row -> AttemptState]
    BY <1>17 DEF Insert
  <2> QED
    BY <1>17, <2>1, <2>2 DEF Insert
<1>18. ASSUME NEW r \in Run, Start(r) PROVE TypeOK' /\ Located'
  BY <1>18 DEF Start
<1>19. ASSUME NEW r \in Run, DoBackup(r) PROVE TypeOK' /\ Located'
  BY <1>19 DEF DoBackup, Performing, Ends, Outcome
<1>20. ASSUME NEW r \in Run, DoRoute(r) PROVE TypeOK' /\ Located'
  BY <1>20 DEF DoRoute, Performing, Ends, Outcome
<1>21. ASSUME NEW r \in Run, DoLabel(r) PROVE TypeOK' /\ Located'
  BY <1>21 DEF DoLabel, Sending, Ends, Outcome
<1>22. ASSUME NEW r \in Run, DoMove(r) PROVE TypeOK' /\ Located'
  BY <1>22 DEF DoMove, Sending, Ends, Outcome
<1>23. ASSUME NEW r \in Run, MutationVanished(r) PROVE TypeOK' /\ Located'
  BY <1>23 DEF MutationVanished, Performing, Ends, Outcome
<1>24. ASSUME NEW r \in Run, Refused(r) PROVE TypeOK' /\ Located'
  BY <1>24 DEF Refused, Performing, Sending, Ends, Outcome
<1>25. ASSUME NEW r \in Run, Record(r) PROVE TypeOK' /\ Located'
  BY <1>25 DEF Record, Outcome, Cursor, Row, Slot
<1>26. ASSUME NEW r \in Run, Retire(r) PROVE TypeOK' /\ Located'
  BY <1>26 DEF Retire
<1>27. ASSUME NEW r \in Run, SequenceDone(r) PROVE TypeOK' /\ Located'
  BY <1>27 DEF SequenceDone
<1>28. ASSUME NEW r \in Run, Release(r) PROVE TypeOK' /\ Located'
  BY <1>28 DEF Release, ResetItem, Outcome
<1>29. ASSUME NEW r \in Run, Finish(r) PROVE TypeOK' /\ Located'
  BY <1>29 DEF Finish, End, ResetItem, Outcome
<1>30. ASSUME NEW r \in Run, Unwind(r) PROVE TypeOK' /\ Located'
  BY <1>30 DEF Unwind, End, ResetItem, Outcome
<1>31. ASSUME NEW r \in Run, Crash(r) PROVE TypeOK' /\ Located'
  BY <1>31 DEF Crash, End, ResetItem, Outcome
<1>32. ASSUME NEW r \in Run, Abort(r) PROVE TypeOK' /\ Located'
  BY <1>32 DEF Abort, End, ResetItem, Outcome
<1>33. ASSUME NEW r \in Run, Interrupt(r) PROVE TypeOK' /\ Located'
  BY <1>33 DEF Interrupt
<1>34. ASSUME NEW k \in Key, Arrive(k) PROVE TypeOK' /\ Located'
  BY <1>34 DEF Arrive, Present, Current
<1>35. ASSUME NEW k \in Key, Flag(k) PROVE TypeOK' /\ Located'
  BY <1>35 DEF Flag, Present, Current
<1>36. ASSUME NEW k \in Key, Unflag(k) PROVE TypeOK' /\ Located'
  BY <1>36 DEF Unflag, Present, Current
<1>37. ASSUME NEW k \in Key, Remove(k) PROVE TypeOK' /\ Located'
  BY <1>37 DEF Remove, Present, Current
<1>38. ASSUME NEW b \in Box, Renumber(b) PROVE TypeOK' /\ Located'
  BY <1>38 DEF Renumber
<1>39. ASSUME NEW r \in Run, DropUnsupported(r) PROVE TypeOK' /\ Located'
  BY <1>39 DEF DropUnsupported
<1>40. ASSUME NEW r \in Run, Unsupported(r) PROVE TypeOK' /\ Located'
  BY <1>40 DEF Unsupported, Performing, Ends, Outcome
<1>41. CASE UNCHANGED vars
  BY <1>41 DEF vars
<1>42. ASSUME NEW r \in Run, Exists(r) PROVE TypeOK' /\ Located'
  BY <1>42 DEF Exists, Performing
<1> QED
  BY <1>1, <1>2, <1>3, <1>4, <1>5, <1>6, <1>7, <1>8, <1>9, <1>10, <1>11, <1>12,
     <1>13, <1>14, <1>15, <1>16, <1>17, <1>18, <1>19, <1>20, <1>21, <1>22, <1>23,
     <1>24, <1>25, <1>26, <1>27, <1>28, <1>29, <1>30, <1>31, <1>32, <1>33, <1>34,
     <1>35, <1>36, <1>37, <1>38, <1>39, <1>40, <1>41, <1>42
  DEF Next, Step, Fault, Environment, Others, Phases, Pick, Verify, Perform, RunActions, Failure
----------------------------------------------------------------------------
\* Whatever goes wrong, every variable keeps its type: no step reads a key or a
\* row that is not there.
THEOREM TypeCorrect == Spec => []TypeOK
<1>1. Init => TypeOK /\ Located
  BY InitTyped
<1>2. TypeOK /\ Located /\ [Next]_vars => TypeOK' /\ Located'
  BY NextTyped
<1> QED
  BY <1>1, <1>2, PTL DEF Spec
----------------------------------------------------------------------------
\* All runs of a task use one configuration file, so one lock file.
OneLockPerTask == \A q, r \in Run : TaskOf[q] = TaskOf[r] => LockOf[q] = LockOf[r]

\* A row belongs to a run and to a key.
LEMMA RowParts ==
    ASSUME NEW x \in Row
    PROVE  x[1] \in Run /\ x[2] \in Key
  BY DEF Row

\* The cursor of a run that is at an attempt is a row of its own on its key.
LEMMA CursorIsRow ==
    ASSUME TypeOK, Located, NEW r \in Run, pc[r] \in AtAttempt
    PROVE  Cursor(r) \in Row /\ Cursor(r)[1] = r /\ Cursor(r)[2] = key[r]
  BY TasksAssumption DEF TypeOK, Located, AtAttempt, Holding, Cursor, Row, Slot, Acts

\* The inductive invariant holds before any run has started,
LEMMA InitClaims == Init => ClaimInv
<1> SUFFICES ASSUME Init PROVE ClaimInv
  OBVIOUS
<1>1. TypeOK /\ Located
  BY InitTyped
<1>2. \A x \in Row : ~Open(x)
  BY DEF Init, Open
<1> QED
  BY <1>1, <1>2
  DEF ClaimInv, OneRunPerLock, HeldIsClaimed, OpenRowsAreClaimed, OpenRowsHaveCause,
      OneOpenRowPerRun, TodoIsDead, UnclaimIsSafe, Init, Live, Holding

\* A step of a run within its item, which leaves it at most one open attempt,
\* the one its cursor is on.
LEMMA HoldingStep ==
    ASSUME ClaimInv, TypeOK', Located', NEW r \in Run, NEW l \in Holding,
           pc[r] \in Holding, pc' = [pc EXCEPT ![r] = l],
           UNCHANGED <<claim, key, todo>>,
           \A q \in Run : q # r => seq'[q] = seq[q],
           \A x \in Row : x[1] # r => attempt'[x] = attempt[x],
           \A x \in Row : x[1] = r /\ Open(x)' => l \in AtAttempt /\ x = Cursor(r)'
    PROVE  ClaimInv'
<1> USE RowParts
<1>1. pc'[r] = l /\ \A q \in Run : q # r => pc'[q] = pc[q]
  BY DEF ClaimInv, TypeOK
<1>2. /\ claim[key[r]] = r /\ pc[r] \in Live /\ l \in Live
      /\ pc[r] \notin {"dead", "unclaim", "reconcile"}
  BY DEF ClaimInv, HeldIsClaimed, Holding, Live
<1>3. \A x \in Row : x[1] # r => (Open(x)' <=> Open(x))
  BY DEF Open
<1>4. \A q \in Run : q # r => Cursor(q)' = Cursor(q)
  BY DEF Cursor
<1>5. \A x \in Row : x[1] = r /\ Open(x)' => x[2] = key[r]
  BY DEF Cursor
<1>6. OneRunPerLock'
  BY <1>1, <1>2 DEF ClaimInv, OneRunPerLock
<1>7. HeldIsClaimed'
  BY <1>1, <1>2 DEF ClaimInv, HeldIsClaimed
<1>8. OpenRowsAreClaimed'
  BY <1>2, <1>3, <1>5 DEF ClaimInv, OpenRowsAreClaimed
<1>9. OpenRowsHaveCause'
  <2> SUFFICES ASSUME NEW x \in Row, Open(x)'
               PROVE  \/ pc'[x[1]] = "dead"
                      \/ pc'[x[1]] \in AtAttempt /\ x = Cursor(x[1])'
    BY DEF OpenRowsHaveCause
  <2>1. CASE x[1] = r
    BY <2>1, <1>1
  <2>2. CASE x[1] # r
    <3>1. x[1] \in Run /\ Open(x)
      BY <2>2, <1>3
    <3>2. \/ pc[x[1]] = "dead"
          \/ pc[x[1]] \in AtAttempt /\ x = Cursor(x[1])
      BY <3>1 DEF ClaimInv, OpenRowsHaveCause
    <3> QED
      BY <2>2, <3>1, <3>2, <1>1, <1>4
  <2> QED
    BY <2>1, <2>2
<1>10. OneOpenRowPerRun'
  BY <1>3 DEF ClaimInv, OneOpenRowPerRun
<1>11. TodoIsDead'
  <2> SUFFICES ASSUME NEW q \in Run
               PROVE  /\ \A x \in todo[q] :
                            Open(x)' /\ pc'[x[1]] = "dead" /\ TaskOf[x[1]] = TaskOf[q]
                      /\ pc'[q] \notin {"reconcile", "unclaim"} => todo[q] = {}
    BY DEF TodoIsDead
  <2>1. \A x \in todo[q] : x \in Row /\ Open(x) /\ pc[x[1]] = "dead" /\ TaskOf[x[1]] = TaskOf[q]
    BY DEF ClaimInv, TodoIsDead, TypeOK
  <2>2. \A x \in todo[q] : x[1] # r
    BY <2>1, <1>2
  <2>3. pc'[q] \notin {"reconcile", "unclaim"} => todo[q] = {}
    BY <1>1, <1>2 DEF ClaimInv, TodoIsDead
  <2> QED
    BY <2>1, <2>2, <2>3, <1>1, <1>3
<1>12. UnclaimIsSafe'
  <2> SUFFICES ASSUME NEW q \in Run, pc'[q] = "unclaim"
               PROVE  /\ claim[key[q]] \in Run
                      /\ pc'[claim[key[q]]] = "dead"
                      /\ TaskOf[claim[key[q]]] = TaskOf[q]
                      /\ \A x \in Row : Open(x)' => x[2] # key[q]
    BY DEF UnclaimIsSafe
  <2>1. q # r
    BY <1>1 DEF Holding
  <2>2. /\ claim[key[q]] \in Run
        /\ pc[claim[key[q]]] = "dead"
        /\ TaskOf[claim[key[q]]] = TaskOf[q]
        /\ \A x \in Row : Open(x) => x[2] # key[q]
    BY <2>1, <1>1 DEF ClaimInv, UnclaimIsSafe
  <2>3. claim[key[q]] # r /\ key[q] # key[r]
    BY <2>2, <1>2
  <2> QED
    BY <2>2, <2>3, <1>1, <1>3, <1>5
<1> QED
  BY <1>6, <1>7, <1>8, <1>9, <1>10, <1>11, <1>12 DEF ClaimInv

\* A step of a run outside its items that opens no attempt.
LEMMA OutsideStep ==
    ASSUME ClaimInv, TypeOK', Located', NEW r \in Run, NEW l \in Location,
           pc[r] \notin Holding \cup {"unclaim", "dead"}, l \notin Holding \cup {"unclaim"},
           pc' = [pc EXCEPT ![r] = l], l \in Live => pc[r] \in Live,
           todo[r] = {}, todo' = todo, claim' = claim,
           \A q \in Run : q # r => key'[q] = key[q] /\ seq'[q] = seq[q],
           \A x \in Row : x[1] # r => attempt'[x] = attempt[x],
           \A x \in Row : x[1] = r => ~Open(x)'
    PROVE  ClaimInv'
<1> USE RowParts
<1>1. pc'[r] = l /\ \A q \in Run : q # r => pc'[q] = pc[q]
  BY DEF ClaimInv, TypeOK
<1>2. \A x \in Row : Open(x)' => x[1] # r /\ Open(x)
  BY DEF Open
<1>3. \A x \in Row : x[1] # r /\ Open(x) => Open(x)'
  BY DEF Open
<1>4. OneRunPerLock'
  BY <1>1 DEF ClaimInv, OneRunPerLock
<1>5. HeldIsClaimed'
  BY <1>1 DEF ClaimInv, HeldIsClaimed
<1>6. OpenRowsAreClaimed'
  BY <1>2 DEF ClaimInv, OpenRowsAreClaimed
<1>7. OpenRowsHaveCause'
  BY <1>1, <1>2 DEF ClaimInv, OpenRowsHaveCause, Cursor
<1>8. OneOpenRowPerRun'
  BY <1>2 DEF ClaimInv, OneOpenRowPerRun
<1>9. TodoIsDead'
  <2> SUFFICES ASSUME NEW q \in Run
               PROVE  /\ \A x \in todo[q] :
                            Open(x)' /\ pc'[x[1]] = "dead" /\ TaskOf[x[1]] = TaskOf[q]
                      /\ pc'[q] \notin {"reconcile", "unclaim"} => todo[q] = {}
    BY DEF TodoIsDead
  <2>1. \A x \in todo[q] : x \in Row /\ Open(x) /\ pc[x[1]] = "dead" /\ TaskOf[x[1]] = TaskOf[q]
    BY DEF ClaimInv, TodoIsDead, TypeOK
  <2>2. \A x \in todo[q] : x[1] # r
    BY <2>1
  <2>3. pc'[q] \notin {"reconcile", "unclaim"} => todo[q] = {}
    BY <1>1 DEF ClaimInv, TodoIsDead
  <2> QED
    BY <2>1, <2>2, <2>3, <1>1, <1>3
<1>10. UnclaimIsSafe'
  BY <1>1, <1>2 DEF ClaimInv, UnclaimIsSafe
<1> QED
  BY <1>4, <1>5, <1>6, <1>7, <1>8, <1>9, <1>10 DEF ClaimInv

\* and every step of every run, fault or other client keeps it, interrupts apart.
LEMMA NextClaims ==
    ASSUME OneLockPerTask, "interrupt" \notin Faults, ClaimInv, [Next]_vars
    PROVE  ClaimInv'
<1>0. TypeOK' /\ Located'
  BY NextTyped DEF ClaimInv
<1>38. ASSUME NEW r \in Run, NEW x \in Row, Open(x), x[1] = r, pc[r] # "dead"
      PROVE  pc[r] \in AtAttempt /\ x = Cursor(r)
  BY <1>38 DEF ClaimInv, OpenRowsHaveCause
<1> USE RowParts
<1>1. ASSUME NEW r \in Run, Begin(r) PROVE ClaimInv'
  <2>1. /\ pc[r] = "idle" /\ pc' = [pc EXCEPT ![r] = "reconcile"]
        /\ todo' = [todo EXCEPT ![r] = OpenRowsOf(TaskOf[r])]
        /\ UNCHANGED <<claim, attempt, key, seq>>
        /\ \A q \in Run : LockOf[q] = LockOf[r] => pc[q] \notin Live
    BY <1>1 DEF Begin, LockFree, Goto, store
  <2>2. pc'[r] = "reconcile" /\ \A q \in Run : q # r => pc'[q] = pc[q]
    BY <2>1 DEF ClaimInv, TypeOK
  <2>3. \A x \in Row : Open(x)' <=> Open(x)
    BY <2>1 DEF Open
  <2>4. todo'[r] = OpenRowsOf(TaskOf[r]) /\ \A q \in Run : q # r => todo'[q] = todo[q]
    BY <2>1 DEF ClaimInv, TypeOK
  <2>5. OneRunPerLock'
    BY <2>1, <2>2 DEF ClaimInv, OneRunPerLock
  <2>6. HeldIsClaimed'
    BY <2>1, <2>2 DEF ClaimInv, HeldIsClaimed, Holding
  <2>7. OpenRowsAreClaimed'
    BY <2>1, <2>3 DEF ClaimInv, OpenRowsAreClaimed
  <2>8. OpenRowsHaveCause'
    BY <2>1, <2>2, <2>3, <1>38 DEF ClaimInv, OpenRowsHaveCause, Cursor, AtAttempt
  <2>9. OneOpenRowPerRun'
    BY <2>3 DEF ClaimInv, OneOpenRowPerRun
  <2>10. ASSUME NEW x \in OpenRowsOf(TaskOf[r])
         PROVE  Open(x) /\ pc[x[1]] = "dead" /\ TaskOf[x[1]] = TaskOf[r] /\ x \in Row
    <3>1. x \in Row /\ x[1] \in Run /\ Open(x) /\ TaskOf[x[1]] = TaskOf[r]
      BY <2>10 DEF OpenRowsOf
    <3>2. pc[x[1]] \notin Live
      BY <2>1, <3>1 DEF OneLockPerTask
    <3> QED
      BY <3>1, <3>2 DEF ClaimInv, OpenRowsHaveCause, AtAttempt, Live, Holding
  <2>11. TodoIsDead'
    <3>1. \A q \in Run : \A x \in todo[q] : x \in Row
      BY DEF ClaimInv, TypeOK
    <3> QED
      BY <2>1, <2>2, <2>3, <2>4, <2>10, <3>1 DEF ClaimInv, TodoIsDead
  <2>12. UnclaimIsSafe'
    BY <2>1, <2>2, <2>3 DEF ClaimInv, UnclaimIsSafe
  <2> QED
    BY <1>0, <2>5, <2>6, <2>7, <2>8, <2>9, <2>11, <2>12 DEF ClaimInv
<1>2. ASSUME NEW r \in Run, Busy(r) PROVE ClaimInv'
  <2>1. pc[r] = "idle" /\ pc' = [pc EXCEPT ![r] = "done"]
    BY <1>2 DEF Busy, Goto
  <2>2. UNCHANGED <<claim, attempt, key, seq, todo>> /\ todo[r] = {}
    BY <1>2, <2>1 DEF Busy, store, job, ClaimInv, TodoIsDead
  <2>3. \A x \in Row : x[1] = r => ~Open(x)'
    BY <1>38, <2>1, <2>2 DEF Open, AtAttempt
  <2> QED
    BY <1>0, <2>1, <2>2, <2>3, OutsideStep DEF Holding, Live, Location
<1>3. ASSUME NEW r \in Run, CloseRow(r) PROVE ClaimInv'
  <2>1. PICK z \in todo[r] : \E v \in Verdicts(z) :
           /\ attempt' = [attempt EXCEPT ![z] = v]
           /\ todo' = [todo EXCEPT ![r] = @ \ {z}]
           /\ key' = [key EXCEPT ![r] = z[2]]
    BY <1>3 DEF CloseRow
  <2>2. /\ pc[r] = "reconcile" /\ pc' = [pc EXCEPT ![r] = "unclaim"]
        /\ claim' = claim /\ seq' = seq
    BY <1>3 DEF CloseRow, Goto
  <2>3. pc'[r] = "unclaim" /\ \A q \in Run : q # r => pc'[q] = pc[q]
    BY <2>2 DEF ClaimInv, TypeOK
  <2>4. z \in Row /\ Open(z) /\ pc[z[1]] = "dead" /\ TaskOf[z[1]] = TaskOf[r]
    BY DEF ClaimInv, TodoIsDead, TypeOK
  <2>5. ~Open(z)' /\ \A x \in Row : x # z => (Open(x)' <=> Open(x))
    BY <2>1, <2>4 DEF Open, Verdicts, ClaimInv, TypeOK
  <2>6. z[1] # r /\ claim[z[2]] = z[1]
    BY <2>2, <2>4 DEF ClaimInv, OpenRowsAreClaimed
  <2>7. key'[r] = z[2] /\ \A q \in Run : q # r => key'[q] = key[q]
    BY <2>1 DEF ClaimInv, TypeOK
  <2>8. todo'[r] = todo[r] \ {z} /\ \A q \in Run : q # r => todo'[q] = todo[q]
    BY <2>1 DEF ClaimInv, TypeOK
  <2>9. OneRunPerLock'
    BY <2>2, <2>3 DEF ClaimInv, OneRunPerLock, Live
  <2>10. HeldIsClaimed'
    BY <2>2, <2>3, <2>7 DEF ClaimInv, HeldIsClaimed, Holding
  <2>11. OpenRowsAreClaimed'
    BY <2>2, <2>5 DEF ClaimInv, OpenRowsAreClaimed
  <2>12. OpenRowsHaveCause'
    BY <1>38, <2>2, <2>3, <2>5, <2>7 DEF ClaimInv, OpenRowsHaveCause, Cursor, AtAttempt
  <2>13. OneOpenRowPerRun'
    BY <2>5 DEF ClaimInv, OneOpenRowPerRun
  <2>14. TodoIsDead'
    <3>1. ASSUME NEW q \in Run, q # r PROVE z \notin todo[q]
      <4>1. SUFFICES ASSUME z \in todo[q] PROVE FALSE
        OBVIOUS
      <4>2. pc[q] \in {"reconcile", "unclaim"} /\ TaskOf[q] = TaskOf[r]
        BY <2>4, <4>1 DEF ClaimInv, TodoIsDead
      <4> QED
        BY <2>2, <3>1, <4>2 DEF ClaimInv, OneRunPerLock, OneLockPerTask, Live
    <3>2. ASSUME NEW q \in Run, NEW x \in todo'[q]
          PROVE  Open(x)' /\ pc'[x[1]] = "dead" /\ TaskOf[x[1]] = TaskOf[q]
      <4>1. x \in Row /\ x \in todo[q] /\ x # z
        BY <2>8, <3>1 DEF ClaimInv, TypeOK
      <4>2. Open(x) /\ pc[x[1]] = "dead" /\ TaskOf[x[1]] = TaskOf[q]
        BY <4>1 DEF ClaimInv, TodoIsDead
      <4> QED
        BY <2>2, <2>3, <2>5, <4>1, <4>2
    <3>3. \A q \in Run : pc'[q] \notin {"reconcile", "unclaim"} => todo'[q] = {}
      BY <2>3, <2>8 DEF ClaimInv, TodoIsDead
    <3> QED
      BY <3>2, <3>3 DEF TodoIsDead
  <2>15. UnclaimIsSafe'
    <3>1. ASSUME NEW x \in Row, Open(x)' PROVE x[2] # z[2]
      BY <2>4, <2>5, <2>6, <3>1 DEF ClaimInv, OpenRowsAreClaimed, OneOpenRowPerRun
    <3>2. pc'[z[1]] = "dead" /\ z[1] \in Run
      BY <2>3, <2>4, <2>6
    <3>3. ASSUME NEW q \in Run, q # r, pc'[q] = "unclaim"
          PROVE  /\ claim[key[q]] \in Run
                 /\ pc'[claim[key[q]]] = "dead"
                 /\ TaskOf[claim[key[q]]] = TaskOf[q]
                 /\ \A x \in Row : Open(x)' => x[2] # key[q]
      <4>1. /\ claim[key[q]] \in Run
            /\ pc[claim[key[q]]] = "dead"
            /\ TaskOf[claim[key[q]]] = TaskOf[q]
            /\ \A x \in Row : Open(x) => x[2] # key[q]
        BY <2>3, <3>3 DEF ClaimInv, UnclaimIsSafe
      <4> QED
        BY <2>2, <2>3, <2>5, <4>1
    <3> QED
      BY <2>2, <2>4, <2>6, <2>7, <3>1, <3>2, <3>3 DEF UnclaimIsSafe
  <2> QED
    BY <1>0, <2>9, <2>10, <2>11, <2>12, <2>13, <2>14, <2>15 DEF ClaimInv
<1>4. ASSUME NEW r \in Run, Unclaim(r) PROVE ClaimInv'
  <2>1. pc[r] = "unclaim" /\ pc' = [pc EXCEPT ![r] = "reconcile"] /\ "reconcile" \in Live
    BY <1>4 DEF Unclaim, Goto, Live
  <2>2. pc'[r] = "reconcile" /\ \A q \in Run : q # r => pc'[q] = pc[q]
    BY <2>1 DEF ClaimInv, TypeOK
  <2>3. /\ claim[key[r]] \in Run /\ pc[claim[key[r]]] = "dead"
        /\ TaskOf[claim[key[r]]] = TaskOf[r]
        /\ \A x \in Row : Open(x) => x[2] # key[r]
    BY <2>1 DEF ClaimInv, UnclaimIsSafe
  <2>4. key[r] \in Key /\ claim' = [claim EXCEPT ![key[r]] = NoRun]
    BY <1>4 DEF Unclaim, ClaimInv, Located, Holding
  <2>5. claim'[key[r]] = NoRun /\ \A k \in Key : k # key[r] => claim'[k] = claim[k]
    BY <2>4 DEF ClaimInv, TypeOK
  <2>6. \A q \in Run : q # r => key'[q] = key[q] /\ seq'[q] = seq[q]
    BY <1>4 DEF Unclaim, ClaimInv, TypeOK
  <2>7. attempt' = attempt /\ todo' = todo
    BY <1>4, <2>1 DEF Unclaim, ClaimInv, TodoIsDead, TypeOK
  <2>8. \A x \in Row : Open(x)' <=> Open(x)
    BY <2>7 DEF Open
  <2>9. OneRunPerLock'
    BY <2>1, <2>2 DEF ClaimInv, OneRunPerLock, Live, Holding
  <2>10. HeldIsClaimed'
    <3> SUFFICES ASSUME NEW q \in Run, pc'[q] \in Holding PROVE claim'[key'[q]] = q
      BY DEF HeldIsClaimed
    <3>1. q # r /\ pc[q] \in Holding
      BY <2>2 DEF Holding
    <3>2. claim[key[q]] = q /\ key[q] \in Key
      BY <3>1 DEF ClaimInv, HeldIsClaimed, Located
    <3>3. key[q] # key[r]
      BY <2>2, <2>3, <3>1, <3>2 DEF Holding
    <3> QED
      BY <2>5, <2>6, <3>1, <3>2, <3>3
  <2>11. OpenRowsAreClaimed'
    BY <2>3, <2>5, <2>8 DEF ClaimInv, OpenRowsAreClaimed
  <2>12. OpenRowsHaveCause'
    <3>1. \A x \in Row : x[1] = r => ~Open(x)
      BY <1>38, <2>1, <2>2 DEF AtAttempt, ClaimInv, TypeOK
    <3> QED
      BY <2>2, <2>6, <2>8, <3>1 DEF ClaimInv, OpenRowsHaveCause, Cursor
  <2>13. OneOpenRowPerRun'
    BY <2>8 DEF ClaimInv, OneOpenRowPerRun
  <2>14. TodoIsDead'
    <3>1. \A q \in Run : \A x \in todo[q] : x \in Row
      BY DEF ClaimInv, TypeOK
    <3>2. \A q \in Run : pc[q] = "dead" => pc'[q] = "dead"
      BY <2>1, <2>2
    <3> QED
      BY <2>1, <2>2, <2>7, <2>8, <3>1, <3>2 DEF ClaimInv, TodoIsDead
  <2>15. UnclaimIsSafe'
    <3> SUFFICES ASSUME NEW q \in Run, pc'[q] = "unclaim"
                 PROVE  /\ claim'[key'[q]] \in Run
                        /\ pc'[claim'[key'[q]]] = "dead"
                        /\ TaskOf[claim'[key'[q]]] = TaskOf[q]
                        /\ \A x \in Row : Open(x)' => x[2] # key'[q]
      BY DEF UnclaimIsSafe
    <3>1. q # r /\ pc[q] = "unclaim"
      BY <2>2
    <3>2. /\ key[q] \in Key /\ claim[key[q]] \in Run
          /\ pc[claim[key[q]]] = "dead"
          /\ TaskOf[claim[key[q]]] = TaskOf[q]
          /\ \A x \in Row : Open(x) => x[2] # key[q]
      BY <3>1 DEF ClaimInv, UnclaimIsSafe, Located
    <3>3. key[q] # key[r]
      <4>1. SUFFICES ASSUME key[q] = key[r] PROVE FALSE
        OBVIOUS
      <4>2. TaskOf[q] = TaskOf[r]
        BY <2>3, <3>2, <4>1
      <4> QED
        BY <2>1, <3>1, <4>2 DEF ClaimInv, OneRunPerLock, OneLockPerTask, Live
    <3>4. pc'[claim[key[q]]] = "dead"
      BY <2>1, <2>2, <3>2
    <3> QED
      BY <2>5, <2>6, <2>8, <3>1, <3>2, <3>3, <3>4
  <2> QED
    BY <1>0, <2>9, <2>10, <2>11, <2>12, <2>13, <2>14, <2>15 DEF ClaimInv
<1>5. ASSUME NEW r \in Run, Scan(r) PROVE ClaimInv'
  <2>1. pc[r] = "reconcile" /\ pc' = [pc EXCEPT ![r] = "load"]
    BY <1>5 DEF Scan, Goto
  <2>2. UNCHANGED <<claim, attempt, key, seq, todo>> /\ todo[r] = {}
    BY <1>5, <2>1 DEF Scan, store, job, ClaimInv, TodoIsDead
  <2>3. \A x \in Row : x[1] = r => ~Open(x)'
    BY <1>38, <2>1, <2>2 DEF Open, AtAttempt
  <2> QED
    BY <1>0, <2>1, <2>2, <2>3, OutsideStep DEF Holding, Live, Location
<1>6. ASSUME NEW r \in Run, Load(r) PROVE ClaimInv'
  <2>1. pc[r] = "load" /\ pc' = [pc EXCEPT ![r] = "decide"]
    BY <1>6 DEF Load, Goto
  <2>2. UNCHANGED <<claim, attempt, key, seq, todo>> /\ todo[r] = {}
    BY <1>6, <2>1 DEF Load, store, job, ClaimInv, TodoIsDead
  <2>3. \A x \in Row : x[1] = r => ~Open(x)'
    BY <1>38, <2>1, <2>2 DEF Open, AtAttempt
  <2> QED
    BY <1>0, <2>1, <2>2, <2>3, OutsideStep DEF Holding, Live, Location
<1>7. ASSUME NEW r \in Run, Decide(r) PROVE ClaimInv'
  <2>1. pc[r] = "decide" /\ pc' = [pc EXCEPT ![r] = "pick"]
    BY <1>7 DEF Decide, Goto
  <2>2. UNCHANGED <<claim, attempt, key, seq, todo>> /\ todo[r] = {}
    BY <1>7, <2>1 DEF Decide, store, job, ClaimInv, TodoIsDead
  <2>3. \A x \in Row : x[1] = r => ~Open(x)'
    BY <1>38, <2>1, <2>2 DEF Open, AtAttempt
  <2> QED
    BY <1>0, <2>1, <2>2, <2>3, OutsideStep DEF Holding, Live, Location
<1>8. ASSUME NEW r \in Run, SkipCapped(r) PROVE ClaimInv'
  <2>1. pc[r] = "pick" /\ pc' = [pc EXCEPT ![r] = "pick"]
    BY <1>8 DEF SkipCapped, ClaimInv, TypeOK
  <2>2. UNCHANGED <<claim, attempt, key, seq, todo>> /\ todo[r] = {}
    BY <1>8, <2>1 DEF SkipCapped, Take, store, job, ClaimInv, TodoIsDead
  <2>3. \A x \in Row : x[1] = r => ~Open(x)'
    BY <1>38, <2>1, <2>2 DEF Open, AtAttempt
  <2> QED
    BY <1>0, <2>1, <2>2, <2>3, OutsideStep DEF Holding, Live, Location
<1>9. ASSUME NEW r \in Run, Preview(r) PROVE ClaimInv'
  <2>1. pc[r] = "pick" /\ pc' = [pc EXCEPT ![r] = "pick"]
    BY <1>9 DEF Preview, ClaimInv, TypeOK
  <2>2. UNCHANGED <<claim, key, seq, todo>> /\ todo[r] = {}
    BY <1>9, <2>1 DEF Preview, Take, ClaimInv, TodoIsDead
  <2>3. \A x \in Row : /\ x[1] # r => attempt'[x] = attempt[x]
                       /\ attempt'[x] \in {attempt[x], "skipped"}
    BY <1>9 DEF Preview
  <2>4. \A x \in Row : x[1] = r => ~Open(x)'
    BY <1>38, <2>1, <2>3 DEF Open, AtAttempt
  <2> QED
    BY <1>0, <2>1, <2>2, <2>3, <2>4, OutsideStep DEF Holding, Live, Location
<1>10. ASSUME NEW r \in Run, Claim(r) PROVE ClaimInv'
  <2> DEFINE k == NextKey(r)
  <2>1. /\ pc[r] = "pick" /\ pc' = [pc EXCEPT ![r] = "verify"]
        /\ claim[k] = NoRun /\ claim' = [claim EXCEPT ![k] = r]
        /\ key' = [key EXCEPT ![r] = k]
        /\ UNCHANGED <<attempt, seq, todo>>
    BY <1>10 DEF Claim, Take, Goto
  <2>2. k \in Key
    BY <1>10, OldestIsIn DEF Claim, NextKey, ClaimInv, TypeOK
  <2> HIDE DEF k
  <2>3. pc'[r] = "verify" /\ \A q \in Run : q # r => pc'[q] = pc[q]
    BY <2>1 DEF ClaimInv, TypeOK
  <2>4. claim'[k] = r /\ \A j \in Key : j # k => claim'[j] = claim[j]
    BY <2>1, <2>2 DEF ClaimInv, TypeOK
  <2>5. key'[r] = k /\ \A q \in Run : q # r => key'[q] = key[q]
    BY <2>1 DEF ClaimInv, TypeOK
  <2>6. \A x \in Row : Open(x)' <=> Open(x)
    BY <2>1 DEF Open
  <2>7. \A x \in Row : x[1] = r => ~Open(x)
    BY <1>38, <2>1 DEF AtAttempt
  <2>8. OneRunPerLock'
    BY <2>1, <2>3 DEF ClaimInv, OneRunPerLock, Live
  <2>9. HeldIsClaimed'
    BY <2>1, <2>2, <2>3, <2>4, <2>5, RunsAssumption DEF ClaimInv, HeldIsClaimed, Located
  <2>10. OpenRowsAreClaimed'
    BY <2>1, <2>4, <2>6, RunsAssumption DEF ClaimInv, OpenRowsAreClaimed
  <2>11. OpenRowsHaveCause'
    BY <2>1, <2>3, <2>5, <2>6, <2>7 DEF ClaimInv, OpenRowsHaveCause, Cursor
  <2>12. OneOpenRowPerRun'
    BY <2>6 DEF ClaimInv, OneOpenRowPerRun
  <2>13. TodoIsDead'
    <3>1. \A q \in Run : \A x \in todo[q] : x \in Row
      BY DEF ClaimInv, TypeOK
    <3>2. todo[r] = {}
      BY <2>1 DEF ClaimInv, TodoIsDead
    <3> QED
      BY <2>1, <2>3, <2>6, <3>1, <3>2 DEF ClaimInv, TodoIsDead
  <2>14. UnclaimIsSafe'
    <3> SUFFICES ASSUME NEW q \in Run, pc'[q] = "unclaim"
                 PROVE  /\ claim'[key'[q]] \in Run
                        /\ pc'[claim'[key'[q]]] = "dead"
                        /\ TaskOf[claim'[key'[q]]] = TaskOf[q]
                        /\ \A x \in Row : Open(x)' => x[2] # key'[q]
      BY DEF UnclaimIsSafe
    <3>1. q # r /\ pc[q] = "unclaim"
      BY <2>3
    <3>2. /\ key[q] \in Key /\ claim[key[q]] \in Run
          /\ pc[claim[key[q]]] = "dead"
          /\ TaskOf[claim[key[q]]] = TaskOf[q]
          /\ \A x \in Row : Open(x) => x[2] # key[q]
      BY <3>1 DEF ClaimInv, UnclaimIsSafe, Located
    <3>3. key[q] # k /\ claim[key[q]] # r
      BY <2>1, <3>2, RunsAssumption
    <3> QED
      BY <2>3, <2>4, <2>5, <2>6, <3>1, <3>2, <3>3
  <2> QED
    BY <1>0, <2>8, <2>9, <2>10, <2>11, <2>12, <2>13, <2>14 DEF ClaimInv
<1>11. ASSUME NEW r \in Run, ClaimRefused(r) PROVE ClaimInv'
  <2>1. pc[r] = "pick" /\ pc' = [pc EXCEPT ![r] = "pick"]
    BY <1>11 DEF ClaimRefused, ClaimInv, TypeOK
  <2>2. UNCHANGED <<claim, attempt, key, seq, todo>> /\ todo[r] = {}
    BY <1>11, <2>1 DEF ClaimRefused, Take, store, job, ClaimInv, TodoIsDead
  <2>3. \A x \in Row : x[1] = r => ~Open(x)'
    BY <1>38, <2>1, <2>2 DEF Open, AtAttempt
  <2> QED
    BY <1>0, <2>1, <2>2, <2>3, OutsideStep DEF Holding, Live, Location
<1>12. ASSUME NEW r \in Run, VerifyVanished(r) PROVE ClaimInv'
  <2>1. pc[r] = "verify" /\ pc' = [pc EXCEPT ![r] = "retire"]
    BY <1>12 DEF VerifyVanished, Goto
  <2>2. UNCHANGED <<claim, attempt, key, seq, todo>>
    BY <1>12 DEF VerifyVanished, store, job
  <2>3. \A x \in Row : x[1] = r /\ Open(x)' => "retire" \in AtAttempt /\ x = Cursor(r)'
    BY <1>38, <2>1, <2>2 DEF Open, Cursor, AtAttempt
  <2> QED
    BY <1>0, <2>1, <2>2, <2>3, HoldingStep DEF Holding
<1>13. ASSUME NEW r \in Run, VerifyChanged(r) PROVE ClaimInv'
  <2>1. pc[r] = "verify" /\ pc' = [pc EXCEPT ![r] = "release"]
    BY <1>13 DEF VerifyChanged, Goto
  <2>2. UNCHANGED <<claim, attempt, key, seq, todo>>
    BY <1>13 DEF VerifyChanged, store, job
  <2>3. \A x \in Row : x[1] = r /\ Open(x)' => "release" \in AtAttempt /\ x = Cursor(r)'
    BY <1>38, <2>1, <2>2 DEF Open, Cursor, AtAttempt
  <2> QED
    BY <1>0, <2>1, <2>2, <2>3, HoldingStep DEF Holding
<1>14. ASSUME NEW r \in Run, VerifyProtected(r) PROVE ClaimInv'
  <2>1. pc[r] = "verify" /\ pc' = [pc EXCEPT ![r] = "release"]
    BY <1>14 DEF VerifyProtected, Goto
  <2>2. UNCHANGED <<claim, attempt, key, seq, todo>>
    BY <1>14 DEF VerifyProtected, store, job
  <2>3. \A x \in Row : x[1] = r /\ Open(x)' => "release" \in AtAttempt /\ x = Cursor(r)'
    BY <1>38, <2>1, <2>2 DEF Open, Cursor, AtAttempt
  <2> QED
    BY <1>0, <2>1, <2>2, <2>3, HoldingStep DEF Holding
<1>15. ASSUME NEW r \in Run, VerifyOk(r) PROVE ClaimInv'
  <2>1. pc[r] = "verify" /\ pc' = [pc EXCEPT ![r] = "next"]
    BY <1>15 DEF VerifyOk, Goto
  <2>2. UNCHANGED <<claim, attempt, key, seq, todo>>
    BY <1>15 DEF VerifyOk, store, job
  <2>3. \A x \in Row : x[1] = r /\ Open(x)' => "next" \in AtAttempt /\ x = Cursor(r)'
    BY <1>38, <2>1, <2>2 DEF Open, Cursor, AtAttempt
  <2> QED
    BY <1>0, <2>1, <2>2, <2>3, HoldingStep DEF Holding
<1>16. ASSUME NEW r \in Run, VerifyError(r) PROVE ClaimInv'
  <2>1. pc[r] = "verify" /\ pc' = [pc EXCEPT ![r] = "unwind"]
    BY <1>16 DEF VerifyError, Goto
  <2>2. UNCHANGED <<claim, attempt, key, seq, todo>>
    BY <1>16 DEF VerifyError, store, job
  <2>3. \A x \in Row : x[1] = r /\ Open(x)' => "unwind" \in AtAttempt /\ x = Cursor(r)'
    BY <1>38, <2>1, <2>2 DEF Open, Cursor, AtAttempt
  <2> QED
    BY <1>0, <2>1, <2>2, <2>3, HoldingStep DEF Holding
<1>17. ASSUME NEW r \in Run, Insert(r) PROVE ClaimInv'
  <2> DEFINE ok == final[r] = "completed"
             c == <<r, key[r], seq[r] + 1>>
             l == IF ok THEN "pending" ELSE "next"
  <2>1. pc[r] = "next" /\ pc' = [pc EXCEPT ![r] = l] /\ l \in Holding
    BY <1>17 DEF Insert, Goto, Holding
  <2>2. \A x \in Row : x[1] = r => ~Open(x)
    BY <1>38, <2>1 DEF AtAttempt
  <2>3. c = Cursor(r)'
    BY <1>17, <1>0 DEF Insert, Cursor, ClaimInv, TypeOK
  <2>4. attempt' = [attempt EXCEPT ![c] = IF ok THEN "pending" ELSE "skipped"]
    BY <1>17 DEF Insert
  <2>5. \A x \in Row : x # c => attempt'[x] = attempt[x]
    BY <2>4 DEF ClaimInv, TypeOK
  <2>6. ASSUME NEW x \in Row, x[1] = r, Open(x)' PROVE l \in AtAttempt /\ x = Cursor(r)'
    <3>1. x = c
      BY <2>2, <2>5, <2>6 DEF Open
    <3>2. ok
      BY <2>4, <2>6, <3>1 DEF Open, ClaimInv, TypeOK
    <3> QED
      BY <2>3, <3>1, <3>2 DEF AtAttempt
  <2>7. \A x \in Row : x[1] # r => attempt'[x] = attempt[x]
    BY <2>5
  <2>8. UNCHANGED <<claim, key, todo>> /\ \A q \in Run : q # r => seq'[q] = seq[q]
    BY <1>17 DEF Insert, ClaimInv, TypeOK
  <2>9. pc[r] \in Holding
    BY <2>1 DEF Holding
  <2> HIDE DEF l
  <2> QED
    BY <1>0, <2>1, <2>6, <2>7, <2>8, <2>9, HoldingStep
<1>18. ASSUME NEW r \in Run, Start(r) PROVE ClaimInv'
  <2>1. pc[r] = "pending" /\ attempt' = [attempt EXCEPT ![Cursor(r)] = "in_flight"]
    BY <1>18 DEF Start
  <2>2. /\ Cursor(r) \in Row /\ Cursor(r)[1] = r
        /\ UNCHANGED <<claim, key, seq, todo>> /\ pc' = [pc EXCEPT ![r] = "in_flight"]
    BY <1>18, <2>1, CursorIsRow DEF Start, ClaimInv, AtAttempt, Goto, job
  <2>3. \A x \in Row : x # Cursor(r) => attempt'[x] = attempt[x]
    BY <2>1 DEF ClaimInv, TypeOK
  <2>4. Cursor(r)' = Cursor(r)
    BY <2>2 DEF Cursor
  <2>5. ASSUME NEW x \in Row, x[1] = r, Open(x)' PROVE x = Cursor(r)
    <3>1. CASE x # Cursor(r)
      BY <1>38, <2>1, <2>3, <2>5, <3>1 DEF Open
    <3> QED
      BY <3>1
  <2> QED
    BY <1>0, <2>1, <2>2, <2>3, <2>4, <2>5, HoldingStep DEF Holding, AtAttempt
<1>19. ASSUME NEW r \in Run, DoBackup(r) PROVE ClaimInv'
  <2>1. pc[r] = "in_flight" /\ pc' = [pc EXCEPT ![r] = "effect"]
    BY <1>19 DEF DoBackup, Performing, Ends, Goto
  <2>2. UNCHANGED <<claim, attempt, key, seq, todo>>
    BY <1>19 DEF DoBackup, Performing, Ends, store, job
  <2>3. \A x \in Row : x[1] = r /\ Open(x)' => "effect" \in AtAttempt /\ x = Cursor(r)'
    BY <1>38, <2>1, <2>2 DEF Open, Cursor, AtAttempt
  <2> QED
    BY <1>0, <2>1, <2>2, <2>3, HoldingStep DEF Holding
<1>20. ASSUME NEW r \in Run, DoRoute(r) PROVE ClaimInv'
  <2>1. pc[r] = "in_flight" /\ pc' = [pc EXCEPT ![r] = "effect"]
    BY <1>20 DEF DoRoute, Performing, Ends, Goto
  <2>2. UNCHANGED <<claim, attempt, key, seq, todo>>
    BY <1>20 DEF DoRoute, Performing, Ends, store, job
  <2>3. \A x \in Row : x[1] = r /\ Open(x)' => "effect" \in AtAttempt /\ x = Cursor(r)'
    BY <1>38, <2>1, <2>2 DEF Open, Cursor, AtAttempt
  <2> QED
    BY <1>0, <2>1, <2>2, <2>3, HoldingStep DEF Holding
<1>21. ASSUME NEW r \in Run, DoLabel(r) PROVE ClaimInv'
  <2>1. pc[r] = "checked" /\ pc' = [pc EXCEPT ![r] = "effect"]
    BY <1>21 DEF DoLabel, Sending, Ends, Goto
  <2>2. UNCHANGED <<claim, attempt, key, seq, todo>>
    BY <1>21 DEF DoLabel, Sending, Ends, store, job
  <2>3. \A x \in Row : x[1] = r /\ Open(x)' => "effect" \in AtAttempt /\ x = Cursor(r)'
    BY <1>38, <2>1, <2>2 DEF Open, Cursor, AtAttempt
  <2> QED
    BY <1>0, <2>1, <2>2, <2>3, HoldingStep DEF Holding
<1>22. ASSUME NEW r \in Run, DoMove(r) PROVE ClaimInv'
  <2>1. pc[r] = "checked" /\ pc' = [pc EXCEPT ![r] = "effect"]
    BY <1>22 DEF DoMove, Sending, Ends, Goto
  <2>2. UNCHANGED <<claim, attempt, key, seq, todo>>
    BY <1>22 DEF DoMove, Sending, Ends, store, job
  <2>3. \A x \in Row : x[1] = r /\ Open(x)' => "effect" \in AtAttempt /\ x = Cursor(r)'
    BY <1>38, <2>1, <2>2 DEF Open, Cursor, AtAttempt
  <2> QED
    BY <1>0, <2>1, <2>2, <2>3, HoldingStep DEF Holding
<1>23. ASSUME NEW r \in Run, MutationVanished(r) PROVE ClaimInv'
  <2>1. pc[r] = "in_flight" /\ pc' = [pc EXCEPT ![r] = "effect"]
    BY <1>23 DEF MutationVanished, Performing, Ends, Goto
  <2>2. UNCHANGED <<claim, attempt, key, seq, todo>>
    BY <1>23 DEF MutationVanished, Performing, Ends, store, job
  <2>3. \A x \in Row : x[1] = r /\ Open(x)' => "effect" \in AtAttempt /\ x = Cursor(r)'
    BY <1>38, <2>1, <2>2 DEF Open, Cursor, AtAttempt
  <2> QED
    BY <1>0, <2>1, <2>2, <2>3, HoldingStep DEF Holding
<1>24. ASSUME NEW r \in Run, Refused(r) PROVE ClaimInv'
  <2>1. pc[r] \in {"in_flight", "checked"} /\ pc' = [pc EXCEPT ![r] = "effect"]
    BY <1>24 DEF Refused, Performing, Sending, Ends, Goto
  <2>2. UNCHANGED <<claim, attempt, key, seq, todo>>
    BY <1>24 DEF Refused, Performing, Sending, Ends, store, job
  <2>3. \A x \in Row : x[1] = r /\ Open(x)' => "effect" \in AtAttempt /\ x = Cursor(r)'
    BY <1>38, <2>1, <2>2 DEF Open, Cursor, AtAttempt
  <2> QED
    BY <1>0, <2>1, <2>2, <2>3, HoldingStep DEF Holding
<1>25. ASSUME NEW r \in Run, Record(r) PROVE ClaimInv'
  <2>1. PICK l \in {"retire", "next"} : pc' = [pc EXCEPT ![r] = l]
    BY <1>25 DEF Record, Goto
  <2>2. pc[r] = "effect" /\ attempt' = [attempt EXCEPT ![Cursor(r)] = final[r]]
    BY <1>25 DEF Record
  <2>3. Cursor(r) \in Row /\ Cursor(r)[1] = r
    BY <2>2, CursorIsRow DEF ClaimInv, AtAttempt
  <2>4. \A x \in Row : x # Cursor(r) => attempt'[x] = attempt[x]
    BY <2>2 DEF ClaimInv, TypeOK
  <2>5. attempt'[Cursor(r)] \notin {"pending", "in_flight"}
    <3>1. attempt'[Cursor(r)] = final[r] /\ final[r] \in Outcome
      BY <2>2, <2>3 DEF ClaimInv, TypeOK
    <3> QED
      BY <3>1 DEF Outcome
  <2>6. ASSUME NEW x \in Row, x[1] = r PROVE ~Open(x)'
    <3>1. CASE x = Cursor(r)
      BY <2>5, <3>1 DEF Open
    <3>2. CASE x # Cursor(r)
      BY <1>38, <2>2, <2>4, <2>6, <3>2 DEF Open
    <3> QED
      BY <3>1, <3>2
  <2>8. UNCHANGED <<claim, key, seq, todo>> /\ pc[r] \in Holding /\ l \in Holding
    BY <1>25, <2>2 DEF Record, Holding, job
  <2> QED
    BY <1>0, <2>1, <2>3, <2>4, <2>6, <2>8, HoldingStep
<1>26. ASSUME NEW r \in Run, Retire(r) PROVE ClaimInv'
  <2>1. PICK l \in {"release", "next"} : pc[r] = "retire" /\ pc' = [pc EXCEPT ![r] = l]
    BY <1>26 DEF Retire, Goto
  <2>2. UNCHANGED <<claim, attempt, key, seq, todo>>
    BY <1>26 DEF Retire, store, job
  <2>3. \A x \in Row : x[1] = r /\ Open(x)' => l \in AtAttempt /\ x = Cursor(r)'
    BY <1>38, <2>1, <2>2 DEF Open, Cursor, AtAttempt
  <2> QED
    BY <1>0, <2>1, <2>2, <2>3, HoldingStep DEF Holding
<1>27. ASSUME NEW r \in Run, SequenceDone(r) PROVE ClaimInv'
  <2>1. pc[r] = "next" /\ pc' = [pc EXCEPT ![r] = "release"]
    BY <1>27 DEF SequenceDone, Goto
  <2>2. UNCHANGED <<claim, attempt, key, seq, todo>>
    BY <1>27 DEF SequenceDone, store, job
  <2>3. \A x \in Row : x[1] = r /\ Open(x)' => "release" \in AtAttempt /\ x = Cursor(r)'
    BY <1>38, <2>1, <2>2 DEF Open, Cursor, AtAttempt
  <2> QED
    BY <1>0, <2>1, <2>2, <2>3, HoldingStep DEF Holding
<1>28. ASSUME NEW r \in Run, Release(r) PROVE ClaimInv'
  <2>1. PICK l \in {"finish", "pick"} : pc' = [pc EXCEPT ![r] = l]
    BY <1>28 DEF Release, Goto
  <2>2. pc[r] = "release" /\ pc'[r] = l /\ \A q \in Run : q # r => pc'[q] = pc[q]
    BY <1>28, <2>1 DEF Release, ClaimInv, TypeOK
  <2>3. claim[key[r]] = r /\ \A x \in Row : Open(x) => x[2] # key[r]
    BY <1>38, <2>2 DEF ClaimInv, HeldIsClaimed, OpenRowsAreClaimed, Holding, AtAttempt
  <2>4. key[r] \in Key /\ claim' = [claim EXCEPT ![key[r]] = NoRun]
    BY <1>28 DEF Release, ResetItem, ClaimInv, Located, Holding
  <2>5. claim'[key[r]] = NoRun /\ \A k \in Key : k # key[r] => claim'[k] = claim[k]
    BY <2>4 DEF ClaimInv, TypeOK
  <2>6. \A q \in Run : q # r => key'[q] = key[q] /\ seq'[q] = seq[q]
    BY <1>28 DEF Release, ResetItem, ClaimInv, TypeOK
  <2>7. attempt' = attempt /\ todo' = todo
    BY <1>28, <2>1 DEF Release, ResetItem, ClaimInv, TodoIsDead, TypeOK
  <2>8. \A x \in Row : Open(x)' <=> Open(x)
    BY <2>7 DEF Open
  <2>9. OneRunPerLock'
    BY <2>1, <2>2 DEF ClaimInv, OneRunPerLock, Live, Holding
  <2>10. HeldIsClaimed'
    <3> SUFFICES ASSUME NEW q \in Run, pc'[q] \in Holding PROVE claim'[key'[q]] = q
      BY DEF HeldIsClaimed
    <3>1. q # r /\ pc[q] \in Holding
      BY <2>2 DEF Holding
    <3>2. claim[key[q]] = q /\ key[q] \in Key
      BY <3>1 DEF ClaimInv, HeldIsClaimed, Located
    <3>3. key[q] # key[r]
      BY <2>2, <2>3, <3>1, <3>2 DEF Holding
    <3> QED
      BY <2>5, <2>6, <3>1, <3>2, <3>3
  <2>11. OpenRowsAreClaimed'
    BY <2>3, <2>5, <2>8 DEF ClaimInv, OpenRowsAreClaimed
  <2>12. OpenRowsHaveCause'
    <3>1. \A x \in Row : x[1] = r => ~Open(x)
      BY <1>38, <2>1, <2>2 DEF AtAttempt, ClaimInv, TypeOK
    <3> QED
      BY <2>2, <2>6, <2>8, <3>1 DEF ClaimInv, OpenRowsHaveCause, Cursor
  <2>13. OneOpenRowPerRun'
    BY <2>8 DEF ClaimInv, OneOpenRowPerRun
  <2>14. TodoIsDead'
    <3>1. \A q \in Run : \A x \in todo[q] : x \in Row
      BY DEF ClaimInv, TypeOK
    <3>2. \A q \in Run : pc[q] = "dead" => pc'[q] = "dead"
      BY <2>1, <2>2
    <3> QED
      BY <2>1, <2>2, <2>7, <2>8, <3>1, <3>2 DEF ClaimInv, TodoIsDead
  <2>15. UnclaimIsSafe'
    <3> SUFFICES ASSUME NEW q \in Run, pc'[q] = "unclaim"
                 PROVE  /\ claim'[key'[q]] \in Run
                        /\ pc'[claim'[key'[q]]] = "dead"
                        /\ TaskOf[claim'[key'[q]]] = TaskOf[q]
                        /\ \A x \in Row : Open(x)' => x[2] # key'[q]
      BY DEF UnclaimIsSafe
    <3>1. q # r /\ pc[q] = "unclaim"
      BY <2>2
    <3>2. /\ key[q] \in Key /\ claim[key[q]] \in Run
          /\ pc[claim[key[q]]] = "dead"
          /\ TaskOf[claim[key[q]]] = TaskOf[q]
          /\ \A x \in Row : Open(x) => x[2] # key[q]
      BY <3>1 DEF ClaimInv, UnclaimIsSafe, Located
    <3>3. key[q] # key[r]
      BY <2>1, <2>2, <2>3, <3>2
    <3>4. pc'[claim[key[q]]] = "dead"
      BY <2>1, <2>2, <3>2
    <3> QED
      BY <2>5, <2>6, <2>8, <3>1, <3>2, <3>3, <3>4
  <2> QED
    BY <1>0, <2>9, <2>10, <2>11, <2>12, <2>13, <2>14, <2>15 DEF ClaimInv
<1>29. ASSUME NEW r \in Run, Finish(r) PROVE ClaimInv'
  BY <1>0, <1>29, TasksAssumption, RunsAssumption
  DEF Finish, End, ResetItem, ClaimInv, TypeOK, Located, OneRunPerLock,
      HeldIsClaimed, OpenRowsAreClaimed, OpenRowsHaveCause, OneOpenRowPerRun,
      TodoIsDead, UnclaimIsSafe, Goto, store, job, Open,
      Cursor, Live, Holding, AtAttempt
<1>30. ASSUME NEW r \in Run, Unwind(r) PROVE ClaimInv'
  <2>1. pc[r] = "unwind" /\ pc' = [pc EXCEPT ![r] = "done"]
    BY <1>30 DEF Unwind, End, Goto
  <2>2. pc'[r] = "done" /\ \A q \in Run : q # r => pc'[q] = pc[q]
    BY <2>1 DEF ClaimInv, TypeOK
  <2>3. claim[key[r]] = r /\ \A x \in Row : Open(x) => x[2] # key[r]
    BY <1>38, <2>1 DEF ClaimInv, HeldIsClaimed, OpenRowsAreClaimed, Holding, AtAttempt
  <2>4. key[r] \in Key /\ claim' = [claim EXCEPT ![key[r]] = NoRun]
    BY <1>30 DEF Unwind, End, ResetItem, ClaimInv, Located, Holding
  <2>5. claim'[key[r]] = NoRun /\ \A k \in Key : k # key[r] => claim'[k] = claim[k]
    BY <2>4 DEF ClaimInv, TypeOK
  <2>6. \A q \in Run : q # r => key'[q] = key[q] /\ seq'[q] = seq[q]
    BY <1>30 DEF Unwind, End, ResetItem, ClaimInv, TypeOK
  <2>7. attempt' = attempt /\ todo' = todo
    BY <1>30, <2>1 DEF Unwind, End, ResetItem, ClaimInv, TodoIsDead, TypeOK
  <2>8. \A x \in Row : Open(x)' <=> Open(x)
    BY <2>7 DEF Open
  <2>9. OneRunPerLock'
    BY <2>1, <2>2 DEF ClaimInv, OneRunPerLock, Live, Holding
  <2>10. HeldIsClaimed'
    <3> SUFFICES ASSUME NEW q \in Run, pc'[q] \in Holding PROVE claim'[key'[q]] = q
      BY DEF HeldIsClaimed
    <3>1. q # r /\ pc[q] \in Holding
      BY <2>2 DEF Holding
    <3>2. claim[key[q]] = q /\ key[q] \in Key
      BY <3>1 DEF ClaimInv, HeldIsClaimed, Located
    <3>3. key[q] # key[r]
      BY <2>2, <2>3, <3>1, <3>2 DEF Holding
    <3> QED
      BY <2>5, <2>6, <3>1, <3>2, <3>3
  <2>11. OpenRowsAreClaimed'
    BY <2>3, <2>5, <2>8 DEF ClaimInv, OpenRowsAreClaimed
  <2>12. OpenRowsHaveCause'
    <3>1. \A x \in Row : x[1] = r => ~Open(x)
      BY <1>38, <2>1, <2>2 DEF AtAttempt, ClaimInv, TypeOK
    <3> QED
      BY <2>2, <2>6, <2>8, <3>1 DEF ClaimInv, OpenRowsHaveCause, Cursor
  <2>13. OneOpenRowPerRun'
    BY <2>8 DEF ClaimInv, OneOpenRowPerRun
  <2>14. TodoIsDead'
    <3>1. \A q \in Run : \A x \in todo[q] : x \in Row
      BY DEF ClaimInv, TypeOK
    <3>2. \A q \in Run : pc[q] = "dead" => pc'[q] = "dead"
      BY <2>1, <2>2
    <3> QED
      BY <2>1, <2>2, <2>7, <2>8, <3>1, <3>2 DEF ClaimInv, TodoIsDead
  <2>15. UnclaimIsSafe'
    <3> SUFFICES ASSUME NEW q \in Run, pc'[q] = "unclaim"
                 PROVE  /\ claim'[key'[q]] \in Run
                        /\ pc'[claim'[key'[q]]] = "dead"
                        /\ TaskOf[claim'[key'[q]]] = TaskOf[q]
                        /\ \A x \in Row : Open(x)' => x[2] # key'[q]
      BY DEF UnclaimIsSafe
    <3>1. q # r /\ pc[q] = "unclaim"
      BY <2>2
    <3>2. /\ key[q] \in Key /\ claim[key[q]] \in Run
          /\ pc[claim[key[q]]] = "dead"
          /\ TaskOf[claim[key[q]]] = TaskOf[q]
          /\ \A x \in Row : Open(x) => x[2] # key[q]
      BY <3>1 DEF ClaimInv, UnclaimIsSafe, Located
    <3>3. key[q] # key[r]
      BY <2>1, <2>2, <2>3, <3>2
    <3>4. pc'[claim[key[q]]] = "dead"
      BY <2>1, <2>2, <3>2
    <3> QED
      BY <2>5, <2>6, <2>8, <3>1, <3>2, <3>3, <3>4
  <2> QED
    BY <1>0, <2>9, <2>10, <2>11, <2>12, <2>13, <2>14, <2>15 DEF ClaimInv
<1>31. ASSUME NEW r \in Run, Crash(r) PROVE ClaimInv'
  BY <1>0, <1>31, TasksAssumption, RunsAssumption
  DEF Crash, End, ResetItem, ClaimInv, TypeOK, Located, OneRunPerLock,
      HeldIsClaimed, OpenRowsAreClaimed, OpenRowsHaveCause, OneOpenRowPerRun,
      TodoIsDead, UnclaimIsSafe, Goto, store, job, Open,
      Cursor, Live, Holding, AtAttempt
<1>32. ASSUME NEW r \in Run, Abort(r) PROVE ClaimInv'
  BY <1>0, <1>32, TasksAssumption, RunsAssumption
  DEF Abort, End, ResetItem, ClaimInv, TypeOK, Located, OneRunPerLock,
      HeldIsClaimed, OpenRowsAreClaimed, OpenRowsHaveCause, OneOpenRowPerRun,
      TodoIsDead, UnclaimIsSafe, Goto, store, job, Open,
      Cursor, Live, Holding, AtAttempt
<1>33. ASSUME NEW r \in Run, Interrupt(r) PROVE ClaimInv'
  BY <1>0, <1>33, TasksAssumption, RunsAssumption
  DEF Interrupt, ClaimInv, TypeOK, Located, OneRunPerLock, HeldIsClaimed, OpenRowsAreClaimed,
      OpenRowsHaveCause, OneOpenRowPerRun, TodoIsDead, UnclaimIsSafe, Goto, store, job, Open,
      Cursor, Live, Holding, AtAttempt
<1>34. ASSUME Environment PROVE ClaimInv'
  BY <1>0, <1>34
  DEF Environment, Others, Arrive, Flag, Unflag, Remove, Renumber, ClaimInv, OneRunPerLock, HeldIsClaimed,
      OpenRowsAreClaimed, OpenRowsHaveCause, OneOpenRowPerRun, TodoIsDead, UnclaimIsSafe,
      store, job, Open, Cursor
<1>35. CASE UNCHANGED vars
  BY <1>0, <1>35
  DEF vars, ClaimInv, OneRunPerLock, HeldIsClaimed, OpenRowsAreClaimed, OpenRowsHaveCause,
      OneOpenRowPerRun, TodoIsDead, UnclaimIsSafe, store, job, Open, Cursor
<1>36. ASSUME NEW r \in Run, DropUnsupported(r) PROVE ClaimInv'
  <2>1. pc[r] = "pick" /\ pc' = [pc EXCEPT ![r] = "pick"]
    BY <1>36 DEF DropUnsupported, ClaimInv, TypeOK
  <2>2. UNCHANGED <<claim, attempt, key, seq, todo>> /\ todo[r] = {}
    BY <1>36, <2>1 DEF DropUnsupported, ClaimInv, TodoIsDead
  <2>3. \A x \in Row : x[1] = r => ~Open(x)'
    BY <1>38, <2>1, <2>2 DEF Open, AtAttempt
  <2> QED
    BY <1>0, <2>1, <2>2, <2>3, OutsideStep DEF Holding, Live, Location
<1>37. ASSUME NEW r \in Run, Unsupported(r) PROVE ClaimInv'
  <2>1. pc[r] = "in_flight" /\ pc' = [pc EXCEPT ![r] = "effect"]
    BY <1>37 DEF Unsupported, Performing, Ends, Goto
  <2>2. UNCHANGED <<claim, attempt, key, seq, todo>>
    BY <1>37 DEF Unsupported, Performing, Ends, store, job
  <2>3. \A x \in Row : x[1] = r /\ Open(x)' => "effect" \in AtAttempt /\ x = Cursor(r)'
    BY <1>38, <2>1, <2>2 DEF Open, Cursor, AtAttempt
  <2> QED
    BY <1>0, <2>1, <2>2, <2>3, HoldingStep DEF Holding
<1>39. ASSUME NEW r \in Run, Exists(r) PROVE ClaimInv'
  <2>1. pc[r] = "in_flight" /\ pc' = [pc EXCEPT ![r] = "checked"]
    BY <1>39 DEF Exists, Performing, Goto
  <2>2. UNCHANGED <<claim, attempt, key, seq, todo>>
    BY <1>39 DEF Exists, store, job
  <2>3. \A x \in Row : x[1] = r /\ Open(x)' => "checked" \in AtAttempt /\ x = Cursor(r)'
    BY <1>38, <2>1, <2>2 DEF Open, Cursor, AtAttempt
  <2> QED
    BY <1>0, <2>1, <2>2, <2>3, HoldingStep DEF Holding
<1> QED
  BY <1>1, <1>2, <1>3, <1>4, <1>5, <1>6, <1>7, <1>8, <1>9, <1>10, <1>11, <1>12,
     <1>13, <1>14, <1>15, <1>16, <1>17, <1>18, <1>19, <1>20, <1>21, <1>22, <1>23,
     <1>24, <1>25, <1>26, <1>27, <1>28, <1>29, <1>30, <1>31, <1>32, <1>33, <1>34,
     <1>35, <1>36, <1>37, <1>39
  DEF Next, Step, Fault, Phases, Pick, Verify, Perform, RunActions, Failure

\* Without signals and errors that escape an item, and with one lock file per
\* task, no two runs ever work on one message at a time, whatever is killed and
\* whichever actions fail.
THEOREM ClaimsExclude ==
    ASSUME OneLockPerTask, "interrupt" \notin Faults
    PROVE  Spec => []ClaimExclusive
<1>1. Init => ClaimInv
  BY InitClaims
<1>2. ClaimInv /\ [Next]_vars => ClaimInv'
  BY NextClaims
<1>3. ClaimInv => ClaimExclusive
  BY DEF ClaimInv, HeldIsClaimed, ClaimExclusive
<1> QED
  BY <1>1, <1>2, <1>3, PTL DEF Spec

\* Under the same hypotheses an attempt of unknown outcome keeps its claim.
THEOREM OpenRowsStayClaimed ==
    ASSUME OneLockPerTask, "interrupt" \notin Faults
    PROVE  Spec => []OpenRowsAreClaimed
<1>1. Init => ClaimInv
  BY InitClaims
<1>2. ClaimInv /\ [Next]_vars => ClaimInv'
  BY NextClaims
<1>3. ClaimInv => OpenRowsAreClaimed
  BY DEF ClaimInv
<1> QED
  BY <1>1, <1>2, <1>3, PTL DEF Spec
----------------------------------------------------------------------------
(* The claims implement the abstract lock.                                 *)

\* A step that takes no claim, gives none up and kills nobody is a stutter.
LEMMA OtherSteps ==
    ASSUME TypeOK, NEW r \in Run, claim' = claim,
           \A q \in Run : q # r => pc'[q] = pc[q] /\ key'[q] = key[q],
           pc'[r] \in Holding <=> pc[r] \in Holding,
           pc[r] \in Holding => key'[r] = key[r],
           pc'[r] = "dead" <=> pc[r] = "dead"
    PROVE  UNCHANGED Claims!vars
<1>1. Using' = Using
  BY DEF Using
<1>2. Dead' = Dead
  BY DEF Dead
<1> QED
  BY <1>1, <1>2 DEF Claims!vars

\* Each step of the runs is a step of the lock or a stutter.
LEMMA ClaimsStep ==
    ASSUME OneLockPerTask, "interrupt" \notin Faults, ClaimInv, [Next]_vars
    PROVE  [Claims!Next]_(Claims!vars)
<1> USE DEF ClaimInv, TypeOK, Goto, store, job
<1>1. ASSUME NEW r \in Run, Begin(r) PROVE UNCHANGED Claims!vars
  BY <1>1, OtherSteps DEF Begin, Holding, Live
<1>2. ASSUME NEW r \in Run, Busy(r) PROVE UNCHANGED Claims!vars
  BY <1>2, OtherSteps DEF Busy, Holding, Live
<1>3. ASSUME NEW r \in Run, CloseRow(r) PROVE UNCHANGED Claims!vars
  BY <1>3, OtherSteps DEF CloseRow, Holding, Live
<1>4. ASSUME NEW r \in Run, Scan(r) PROVE UNCHANGED Claims!vars
  BY <1>4, OtherSteps DEF Scan, Holding, Live
<1>5. ASSUME NEW r \in Run, Load(r) PROVE UNCHANGED Claims!vars
  BY <1>5, OtherSteps DEF Load, Holding, Live
<1>6. ASSUME NEW r \in Run, Decide(r) PROVE UNCHANGED Claims!vars
  BY <1>6, OtherSteps DEF Decide, Holding, Live
<1>7. ASSUME NEW r \in Run, SkipCapped(r) PROVE UNCHANGED Claims!vars
  BY <1>7, OtherSteps DEF SkipCapped, Take, Holding, Live
<1>8. ASSUME NEW r \in Run, Preview(r) PROVE UNCHANGED Claims!vars
  BY <1>8, OtherSteps DEF Preview, Take, Holding, Live
<1>9. ASSUME NEW r \in Run, ClaimRefused(r) PROVE UNCHANGED Claims!vars
  BY <1>9, OtherSteps DEF ClaimRefused, Take, Holding, Live
<1>10. ASSUME NEW r \in Run, VerifyVanished(r) PROVE UNCHANGED Claims!vars
  BY <1>10, OtherSteps DEF VerifyVanished, Holding, Live
<1>11. ASSUME NEW r \in Run, VerifyChanged(r) PROVE UNCHANGED Claims!vars
  BY <1>11, OtherSteps DEF VerifyChanged, Holding, Live
<1>12. ASSUME NEW r \in Run, VerifyProtected(r) PROVE UNCHANGED Claims!vars
  BY <1>12, OtherSteps DEF VerifyProtected, Holding, Live
<1>13. ASSUME NEW r \in Run, VerifyOk(r) PROVE UNCHANGED Claims!vars
  BY <1>13, OtherSteps DEF VerifyOk, Holding, Live
<1>14. ASSUME NEW r \in Run, VerifyError(r) PROVE UNCHANGED Claims!vars
  BY <1>14, OtherSteps DEF VerifyError, Holding, Live
<1>15. ASSUME NEW r \in Run, Insert(r) PROVE UNCHANGED Claims!vars
  BY <1>15, OtherSteps DEF Insert, Holding, Live
<1>16. ASSUME NEW r \in Run, Start(r) PROVE UNCHANGED Claims!vars
  BY <1>16, OtherSteps DEF Start, Holding, Live
<1>17. ASSUME NEW r \in Run, DoBackup(r) PROVE UNCHANGED Claims!vars
  BY <1>17, OtherSteps DEF DoBackup, Performing, Ends, Holding, Live
<1>18. ASSUME NEW r \in Run, DoRoute(r) PROVE UNCHANGED Claims!vars
  BY <1>18, OtherSteps DEF DoRoute, Performing, Ends, Holding, Live
<1>19. ASSUME NEW r \in Run, DoLabel(r) PROVE UNCHANGED Claims!vars
  BY <1>19, OtherSteps DEF DoLabel, Sending, Ends, Holding, Live
<1>20. ASSUME NEW r \in Run, DoMove(r) PROVE UNCHANGED Claims!vars
  BY <1>20, OtherSteps DEF DoMove, Sending, Ends, Holding, Live
<1>21. ASSUME NEW r \in Run, MutationVanished(r) PROVE UNCHANGED Claims!vars
  BY <1>21, OtherSteps DEF MutationVanished, Performing, Ends, Holding, Live
<1>22. ASSUME NEW r \in Run, Refused(r) PROVE UNCHANGED Claims!vars
  BY <1>22, OtherSteps DEF Refused, Performing, Sending, Ends, Holding, Live
<1>23. ASSUME NEW r \in Run, Record(r) PROVE UNCHANGED Claims!vars
  BY <1>23, OtherSteps DEF Record, Holding, Live
<1>24. ASSUME NEW r \in Run, Retire(r) PROVE UNCHANGED Claims!vars
  BY <1>24, OtherSteps DEF Retire, Holding, Live
<1>25. ASSUME NEW r \in Run, SequenceDone(r) PROVE UNCHANGED Claims!vars
  BY <1>25, OtherSteps DEF SequenceDone, Holding, Live
<1>26. ASSUME NEW r \in Run, Finish(r) PROVE UNCHANGED Claims!vars
  BY <1>26, OtherSteps DEF Finish, End, ResetItem, Holding, Live
<1>27. ASSUME NEW r \in Run, Abort(r) PROVE UNCHANGED Claims!vars
  BY <1>27, OtherSteps DEF Abort, End, ResetItem, Holding, Live
<1>28. ASSUME NEW r \in Run, Interrupt(r) PROVE UNCHANGED Claims!vars
  BY <1>28, OtherSteps DEF Interrupt, Holding, Live
<1>29. ASSUME NEW r \in Run, Claim(r) PROVE Claims!Acquire(r, NextKey(r)) /\ NextKey(r) \in Key
  <2>1. /\ pc[r] = "pick" /\ pc' = [pc EXCEPT ![r] = "verify"]
        /\ claim[NextKey(r)] = NoRun /\ claim' = [claim EXCEPT ![NextKey(r)] = r]
        /\ key' = [key EXCEPT ![r] = NextKey(r)]
    BY <1>29 DEF Claim, Take
  <2>2. Using[r] = NoKey /\ Using' = [Using EXCEPT ![r] = NextKey(r)]
    BY <2>1 DEF Using, Holding
  <2>3. r \notin Dead /\ Dead' = Dead
    BY <2>1 DEF Dead
  <2>4. NextKey(r) \in Key
    BY <1>29, OldestIsIn DEF Claim, NextKey
  <2> QED
    BY <2>1, <2>2, <2>3, <2>4 DEF Claims!Acquire
<1>30. ASSUME NEW r \in Run, Release(r) PROVE Claims!Leave(r, key[r]) /\ key[r] \in Key
  <2>1. PICK l \in {"finish", "pick"} : pc' = [pc EXCEPT ![r] = l]
    BY <1>30 DEF Release
  <2>2. /\ pc[r] = "release" /\ claim' = [claim EXCEPT ![key[r]] = NoRun]
        /\ key' = [key EXCEPT ![r] = NoKey]
    BY <1>30 DEF Release, ResetItem
  <2>3. Using[r] = key[r] /\ Using' = [Using EXCEPT ![r] = NoKey]
    BY <2>1, <2>2 DEF Using, Holding
  <2>4. Dead' = Dead
    BY <2>1, <2>2 DEF Dead
  <2> QED
    BY <2>2, <2>3, <2>4 DEF Claims!Leave, Located, Holding
<1>31. ASSUME NEW r \in Run, Unwind(r) PROVE Claims!Leave(r, key[r]) /\ key[r] \in Key
  <2>1. pc' = [pc EXCEPT ![r] = "done"]
    BY <1>31 DEF Unwind, End
  <2>2. /\ pc[r] = "unwind" /\ claim' = [claim EXCEPT ![key[r]] = NoRun]
        /\ key' = [key EXCEPT ![r] = NoKey]
    BY <1>31 DEF Unwind, End, ResetItem
  <2>3. Using[r] = key[r] /\ Using' = [Using EXCEPT ![r] = NoKey]
    BY <2>1, <2>2 DEF Using, Holding
  <2>4. Dead' = Dead
    BY <2>1, <2>2 DEF Dead
  <2> QED
    BY <2>2, <2>3, <2>4 DEF Claims!Leave, Located, Holding
<1>32. ASSUME NEW r \in Run, Unclaim(r) PROVE Claims!Reap(key[r]) /\ key[r] \in Key
  <2>1. /\ pc[r] = "unclaim" /\ pc' = [pc EXCEPT ![r] = "reconcile"]
        /\ claim' = [claim EXCEPT ![key[r]] = NoRun]
        /\ key' = [key EXCEPT ![r] = NoKey]
    BY <1>32 DEF Unclaim
  <2>2. Using' = Using
    BY <2>1 DEF Using, Holding
  <2>3. Dead' = Dead /\ claim[key[r]] \in Dead
    BY <2>1 DEF Dead, UnclaimIsSafe
  <2> QED
    BY <2>1, <2>2, <2>3 DEF Claims!Reap, Located
<1>33. ASSUME NEW r \in Run, Crash(r) PROVE Claims!Die(r)
  <2>1. /\ pc' = [pc EXCEPT ![r] = "dead"] /\ claim' = claim
        /\ key' = [key EXCEPT ![r] = NoKey]
    BY <1>33 DEF Crash, End, ResetItem
  <2>2. Using' = [Using EXCEPT ![r] = NoKey]
    BY <2>1 DEF Using, Holding
  <2>3. Dead' = Dead \cup {r}
    BY <2>1 DEF Dead
  <2> QED
    BY <2>1, <2>2, <2>3 DEF Claims!Die
<1>34. ASSUME Environment PROVE UNCHANGED Claims!vars
  BY <1>34 DEF Environment, Others, Arrive, Flag, Unflag, Remove, Renumber, Claims!vars, Using, Dead
<1>35. CASE UNCHANGED vars
  BY <1>35 DEF vars, Claims!vars, Using, Dead
<1>36. ASSUME NEW r \in Run, DropUnsupported(r) PROVE UNCHANGED Claims!vars
  BY <1>36, OtherSteps DEF DropUnsupported, Holding, Live
<1>37. ASSUME NEW r \in Run, Unsupported(r) PROVE UNCHANGED Claims!vars
  BY <1>37, OtherSteps DEF Unsupported, Performing, Ends, Holding, Live
<1>38. ASSUME NEW r \in Run, Exists(r) PROVE UNCHANGED Claims!vars
  BY <1>38, OtherSteps DEF Exists, Performing, Holding, Live
<1> QED
  BY <1>1, <1>2, <1>3, <1>4, <1>5, <1>6, <1>7, <1>8, <1>9, <1>10, <1>11, <1>12,
     <1>13, <1>14, <1>15, <1>16, <1>17, <1>18, <1>19, <1>20, <1>21, <1>22, <1>23,
     <1>24, <1>25, <1>26, <1>27, <1>28, <1>29, <1>30, <1>31, <1>32, <1>33, <1>34,
     <1>35, <1>36, <1>37, <1>38
  DEF Next, Step, Fault, Phases, Pick, Verify, Perform, RunActions, Failure, Claims!Next

\* Without signals and errors that escape an item, and with one lock file per
\* task, the claims are a lock per message that survives the death of its holder.
THEOREM ClaimsImplementKeyLock ==
    ASSUME OneLockPerTask, "interrupt" \notin Faults
    PROVE  Spec => ImplementsKeyLock
<1>1. Init => Claims!Init
  BY DEF Init, Claims!Init, Using, Dead, Holding
<1>2. Init => ClaimInv
  BY InitClaims
<1>3. ClaimInv /\ [Next]_vars => ClaimInv'
  BY NextClaims
<1>4. ClaimInv /\ [Next]_vars => [Claims!Next]_(Claims!vars)
  BY ClaimsStep
<1> QED
  BY <1>1, <1>2, <1>3, <1>4, PTL DEF Spec, ImplementsKeyLock, Claims!Spec
=============================================================================
