--------------------------- MODULE HistoryProofs ---------------------------
(***************************************************************************)
(* What Execute records is final, complete after a reconcile pass, and      *)
(* ahead of what it does -- for every fault, signals included, as long as   *)
(* the runs of a task share a lock file.                                    *)
(***************************************************************************)
EXTENDS ExecuteProofs

Early == {"idle", "reconcile", "unclaim", "load", "decide"}
Over == {"done", "dead"}

\* A run has no row of an item it has still to take, nor behind its cursor.
Unwritten(r) ==
    /\ pc[r] \in Early => \A x \in Row : x[1] = r => attempt[x] = "none"
    /\ pc[r] \in Over \cup {"idle"} => plan[r] = {}
    /\ \A x \in Row : x[1] = r /\ x[2] \in plan[r] => attempt[x] = "none"
    /\ pc[r] \notin Holding => seq[r] = 0 /\ final[r] = "completed"
    /\ pc[r] = "verify" => seq[r] = 0
    /\ pc[r] \in Holding =>
          /\ key[r] \notin plan[r]
          /\ \A x \in Row : x[1] = r /\ x[2] = key[r] /\ x[3] > seq[r] => attempt[x] = "none"

\* The row under the cursor.
AtCursor(r) ==
    /\ pc[r] = "pending" => attempt[Cursor(r)] = "pending"
    /\ pc[r] \in {"in_flight", "checked", "effect"} => attempt[Cursor(r)] = "in_flight"

\* Reconcile has before it all the open rows of its task, and those are of runs
\* that are over.
Reconciles(r) ==
    /\ \A x \in todo[r] : Open(x) /\ pc[x[1]] \in Over /\ TaskOf[x[1]] = TaskOf[r]
    /\ pc[r] \in {"reconcile", "unclaim"} =>
          \A x \in Row : Open(x) /\ TaskOf[x[1]] = TaskOf[r] => x \in todo[r]
    /\ pc[r] \notin {"reconcile", "unclaim"} => todo[r] = {}

\* The first n actions on the item of run r are done and on record.
FirstDone(r, n) ==
    \A x \in Row : x[1] = r /\ x[2] = key[r] /\ x[3] <= n =>
        attempt[x] = "completed" /\ (KindOf(x) = "backup" => key[r] \in backups)

\* As long as nothing has failed, everything before the cursor is done.
InSequence(r) ==
    /\ pc[r] \in {"pending", "in_flight", "checked"} => final[r] = "completed"
    /\ pc[r] \in AtAttempt => FirstDone(r, seq[r] - 1)
    /\ pc[r] = "effect" /\ final[r] = "completed" /\ KindOf(Cursor(r)) = "backup" => key[r] \in backups
    /\ pc[r] \in {"verify", "next", "retire"} /\ final[r] = "completed" => FirstDone(r, seq[r])

HistInv ==
    /\ TypeOK
    /\ Located
    /\ OneRunPerLock
    /\ ReconcileComplete
    /\ MovedHasTrail
    /\ \A r \in Run : Unwritten(r) /\ AtCursor(r) /\ Reconciles(r) /\ InSequence(r)
----------------------------------------------------------------------------
(* What the steps of a process have in common, that of reconcile which      *)
(* closes a row apart.                                                     *)

\* Its locals are its own,
LocalTo(r) ==
    \A q \in Run : q # r =>
        /\ pc'[q] = pc[q] /\ key'[q] = key[q] /\ seq'[q] = seq[q]
        /\ final'[q] = final[q] /\ plan'[q] = plan[q] /\ todo'[q] = todo[q]

\* and it takes rows of its own a step further.
RowsGoOn(r) ==
    \A x \in Row :
        \/ attempt'[x] = attempt[x]
        \/ /\ x[1] = r
           /\ pc[r] \in Live
           /\ \/ attempt[x] = "none"
              \/ attempt[x] = "pending" /\ attempt'[x] = "in_flight"
              \/ attempt[x] = "in_flight" /\ attempt'[x] \in Outcome

\* Whoever writes them, rows go only forward.
RowsForward ==
    \A x \in Row : \/ attempt'[x] = attempt[x]
                   \/ attempt[x] = "none"
                   \/ Open(x) /\ attempt'[x] \in Outcome \cup {"in_flight"}

TerminalStays == \A x \in Row : attempt[x] \in Terminal => attempt'[x] = attempt[x]

\* The rows of reconcile are rows.
LEMMA TodoRows == ASSUME TypeOK, NEW r \in Run, NEW x \in todo[r] PROVE x \in Row
  BY DEF TypeOK

\* A row on whose strength something was moved stays such a row.
LEMMA TrailStays ==
    ASSUME HistInv, RowsForward, backups \subseteq backups',
           \A k \in Key : server'[k] = "moved" => server[k] = "moved"
    PROVE  MovedHasTrail'
<1> SUFFICES ASSUME NEW k \in Key, server'[k] = "moved"
             PROVE  \E q \in Run : \E i \in DOMAIN Acts(q) :
                      /\ Acts(q)[i] = "move"
                      /\ attempt'[<<q, k, i>>] \notin {"none", "pending", "skipped"}
                      /\ \A j \in 1..(i - 1) :
                            /\ attempt'[<<q, k, j>>] = "completed"
                            /\ Acts(q)[j] = "backup" => k \in backups'
  BY DEF MovedHasTrail, Acts
<1>1. PICK q \in Run : \E i \in DOMAIN Acts(q) :
         /\ Acts(q)[i] = "move"
         /\ attempt[<<q, k, i>>] \notin {"none", "pending", "skipped"}
         /\ \A j \in 1..(i - 1) :
               /\ attempt[<<q, k, j>>] = "completed"
               /\ Acts(q)[j] = "backup" => k \in backups
  BY DEF HistInv, MovedHasTrail
<1>2. PICK i \in DOMAIN Acts(q) :
         /\ Acts(q)[i] = "move"
         /\ attempt[<<q, k, i>>] \notin {"none", "pending", "skipped"}
         /\ \A j \in 1..(i - 1) :
               /\ attempt[<<q, k, j>>] = "completed"
               /\ Acts(q)[j] = "backup" => k \in backups
  BY <1>1
<1>3. Acts(q) \in Seq(Kind) /\ \A j \in DOMAIN Acts(q) : <<q, k, j>> \in Row
  BY TasksAssumption DEF Acts, Row, Slot
<1>4. attempt'[<<q, k, i>>] \notin {"none", "pending", "skipped"}
  BY <1>2, <1>3 DEF RowsForward, Open, Outcome
<1>5. ASSUME NEW j \in 1..(i - 1) PROVE attempt'[<<q, k, j>>] = "completed"
  BY <1>2, <1>3, <1>5 DEF RowsForward, Open
<1> QED
  BY <1>2, <1>4, <1>5

\* What a step of one run leaves true of the others.
LEMMA RunStep ==
    ASSUME OneLockPerTask, HistInv, TypeOK', Located', NEW r \in Run,
           LocalTo(r), RowsGoOn(r), pc[r] \notin Over, backups \subseteq backups',
           pc'[r] \in Live => pc[r] \in Live \/ LockFree(r),
           MovedHasTrail',
           Unwritten(r)', AtCursor(r)', Reconciles(r)', InSequence(r)',
           pc'[r] \in Live \ {"reconcile", "unclaim"} =>
               \A x \in Row : Open(x)' /\ TaskOf[x[1]] = TaskOf[r] => x[1] = r
    PROVE  HistInv' /\ TerminalStays
<1> USE RowParts
<1>1. TerminalStays
  BY DEF TerminalStays, RowsGoOn, Terminal
<1>2. OneRunPerLock'
  BY DEF HistInv, OneRunPerLock, LocalTo, LockFree
<1>3. \A x \in Row : x[1] # r => attempt'[x] = attempt[x]
  BY DEF RowsGoOn
<1>4. ASSUME NEW q \in Run, q # r, NEW x \in Row, Open(x)', TaskOf[x[1]] = TaskOf[q], pc[q] \in Live
      PROVE  Open(x)
  <2>1. CASE attempt'[x] = attempt[x]
    BY <1>4, <2>1 DEF Open
  <2>2. CASE attempt'[x] # attempt[x]
    BY <1>4, <2>2 DEF RowsGoOn, OneLockPerTask, HistInv, OneRunPerLock
  <2> QED
    BY <2>1, <2>2
<1>5. ReconcileComplete'
  BY <1>4 DEF HistInv, ReconcileComplete, LocalTo
<1>6. ASSUME NEW q \in Run, q # r
      PROVE  Unwritten(q)' /\ AtCursor(q)' /\ Reconciles(q)' /\ InSequence(q)'
  <2>1. /\ pc'[q] = pc[q] /\ key'[q] = key[q] /\ seq'[q] = seq[q]
        /\ final'[q] = final[q] /\ plan'[q] = plan[q] /\ todo'[q] = todo[q]
    BY <1>6 DEF LocalTo
  <2>2. Cursor(q)' = Cursor(q) /\ Cursor(q)[1] = q
    BY <2>1 DEF Cursor
  <2>3. Unwritten(q)'
    BY <1>3, <1>6, <2>1 DEF HistInv, Unwritten
  <2>4. AtCursor(q)'
    BY <1>3, <1>6, <2>1, <2>2, CursorIsRow DEF HistInv, AtCursor, AtAttempt
  <2>5. \A x \in todo[q] : Open(x)' /\ pc'[x[1]] \in Over /\ TaskOf[x[1]] = TaskOf[q]
    <3> SUFFICES ASSUME NEW x \in todo[q]
                 PROVE  Open(x)' /\ pc'[x[1]] \in Over /\ TaskOf[x[1]] = TaskOf[q]
      OBVIOUS
    <3>1. x \in Row /\ Open(x) /\ pc[x[1]] \in Over /\ TaskOf[x[1]] = TaskOf[q]
      BY TodoRows DEF HistInv, Reconciles
    <3>2. x[1] # r /\ x[1] \in Run
      BY <3>1
    <3> QED
      BY <1>3, <3>1, <3>2 DEF LocalTo, Open
  <2>6. Reconciles(q)'
    BY <1>4, <1>6, <2>1, <2>5 DEF HistInv, Reconciles, Live
  <2>7. \A n : FirstDone(q, n) => FirstDone(q, n)'
    BY <1>3, <1>6, <2>1 DEF FirstDone, KindOf, Acts
  <2>8. KindOf(Cursor(q))' = KindOf(Cursor(q))
    BY <2>2 DEF KindOf, Acts
  <2>9. InSequence(q)'
    BY <2>1, <2>7, <2>8 DEF HistInv, InSequence
  <2> QED
    BY <2>3, <2>4, <2>6, <2>9
<1> QED
  BY <1>1, <1>2, <1>5, <1>6 DEF HistInv
----------------------------------------------------------------------------
\* A step within an item that writes no row.
LEMMA ItemStep ==
    ASSUME OneLockPerTask, HistInv, TypeOK', Located', NEW r \in Run, NEW l \in Holding \ {"verify"},
           pc[r] \in Holding, pc' = [pc EXCEPT ![r] = l],
           UNCHANGED <<attempt, key, seq, plan, todo>>,
           \A q \in Run : q # r => final'[q] = final[q],
           backups \subseteq backups',
           MovedHasTrail' \/ \A k \in Key : server'[k] = "moved" => server[k] = "moved",
           AtCursor(r)', InSequence(r)'
    PROVE  HistInv' /\ TerminalStays
<1>1. pc'[r] = l /\ \A q \in Run : q # r => pc'[q] = pc[q]
  BY DEF HistInv, TypeOK
<1>2. LocalTo(r) /\ RowsGoOn(r)
  BY <1>1 DEF LocalTo, RowsGoOn
<1>3. pc[r] \notin Over /\ pc[r] \in Live \ {"reconcile", "unclaim"} /\ l \notin Early \cup Over \cup {"idle"}
  BY DEF Holding, Over, Live, Early
<1>4. MovedHasTrail'
  BY <1>2, TrailStays DEF RowsGoOn, RowsForward, Open
<1>5. Unwritten(r)'
  BY <1>1, <1>3 DEF HistInv, Unwritten
<1>6. todo[r] = {} /\ todo'[r] = {} /\ l \notin {"reconcile", "unclaim"}
  BY <1>3 DEF HistInv, Reconciles, Early
<1>7. Reconciles(r)'
  BY <1>1, <1>6 DEF Reconciles
<1>8. \A x \in Row : Open(x)' /\ TaskOf[x[1]] = TaskOf[r] => x[1] = r
  BY <1>3 DEF HistInv, ReconcileComplete, Open
<1> QED
  BY <1>2, <1>3, <1>4, <1>5, <1>7, <1>8, RunStep

\* A step between the items that writes no row.
LEMMA OutsideItemStep ==
    ASSUME OneLockPerTask, HistInv, TypeOK', Located', NEW r \in Run, NEW l \in Location \ Holding,
           pc[r] \notin Over, l \in Live => pc[r] \in Live, pc' = [pc EXCEPT ![r] = l],
           UNCHANGED <<attempt, backups, server, todo>>,
           \A q \in Run : q # r => /\ key'[q] = key[q] /\ seq'[q] = seq[q] /\ final'[q] = final[q]
                                   /\ plan'[q] = plan[q],
           seq'[r] = 0, final'[r] = "completed",
           pc[r] \in Early \/ l \notin Early,
           l \in Over \cup {"idle"} => plan'[r] = {},
           plan'[r] \subseteq plan[r] \/ pc[r] \in Early,
           todo[r] = {} \/ {pc[r], l} \subseteq {"reconcile", "unclaim"},
           l \in {"reconcile", "unclaim"} => pc[r] \in {"reconcile", "unclaim"}
    PROVE  HistInv' /\ TerminalStays
<1>1. pc'[r] = l /\ \A q \in Run : q # r => pc'[q] = pc[q]
  BY DEF HistInv, TypeOK
<1>2. LocalTo(r) /\ RowsGoOn(r)
  BY <1>1 DEF LocalTo, RowsGoOn
<1>3. pc[r] \notin Over
  BY DEF Over, Live, Holding
<1>4. MovedHasTrail'
  BY <1>2, TrailStays DEF RowsGoOn, RowsForward, Open
<1>5. Unwritten(r)'
  BY <1>1 DEF HistInv, Unwritten
<1>6. AtCursor(r)' /\ InSequence(r)'
  BY <1>1 DEF AtCursor, InSequence, Holding, AtAttempt
<1>7. \A x \in Row : Open(x)' <=> Open(x)
  BY DEF Open
<1>8. Reconciles(r)'
  <2>1. \A x \in todo[r] : Open(x) /\ pc[x[1]] \in Over /\ TaskOf[x[1]] = TaskOf[r] /\ x \in Row
    BY TodoRows DEF HistInv, Reconciles
  <2>2. \A x \in todo[r] : pc'[x[1]] = pc[x[1]]
    BY <1>1, <1>3, <2>1, RowParts
  <2> QED
    BY <1>1, <1>7, <2>1, <2>2 DEF HistInv, Reconciles
<1>9. l \in Live \ {"reconcile", "unclaim"} =>
        \A x \in Row : Open(x) /\ TaskOf[x[1]] = TaskOf[r] => x[1] = r
  BY DEF HistInv, Reconciles, ReconcileComplete
<1> QED
  BY <1>1, <1>2, <1>3, <1>4, <1>5, <1>6, <1>7, <1>8, <1>9, RunStep

\* A process is over.
LEMMA EndStep ==
    ASSUME OneLockPerTask, HistInv, TypeOK', Located', NEW r \in Run, NEW l \in Over,
           pc[r] \in Live, End(r, l), UNCHANGED <<attempt, backups, server>>
    PROVE  HistInv' /\ TerminalStays
<1>1. /\ pc'[r] = l /\ seq'[r] = 0 /\ final'[r] = "completed" /\ plan'[r] = {} /\ todo'[r] = {}
      /\ LocalTo(r)
  BY DEF HistInv, TypeOK, End, ResetItem, Goto, LocalTo
<1>2. RowsGoOn(r)
  BY DEF RowsGoOn
<1>3. pc[r] \notin Over /\ l \notin Live \cup Early \cup Holding
  BY DEF Over, Live, Holding, Early
<1>4. MovedHasTrail'
  BY <1>2, TrailStays DEF RowsGoOn, RowsForward, Open
<1>5. Unwritten(r)'
  BY <1>1, <1>3 DEF Unwritten
<1>6. AtCursor(r)' /\ InSequence(r)'
  BY <1>1, <1>3 DEF AtCursor, InSequence, AtAttempt, Holding
<1>7. Reconciles(r)'
  BY <1>1, <1>3 DEF Reconciles, Live
<1> QED
  BY <1>1, <1>2, <1>3, <1>4, <1>5, <1>6, <1>7, RunStep
----------------------------------------------------------------------------
\* The inductive invariant holds before any run has started,
LEMMA InitHist == Init => HistInv
<1> SUFFICES ASSUME Init PROVE HistInv
  OBVIOUS
<1>1. TypeOK /\ Located
  BY InitTyped
<1>2. \A x \in Row : attempt[x] = "none" /\ ~Open(x)
  BY DEF Init, Open
<1>3. OneRunPerLock /\ ReconcileComplete /\ MovedHasTrail
  BY <1>2 DEF Init, OneRunPerLock, ReconcileComplete, MovedHasTrail, Live, Holding
<1>4. \A r \in Run : Unwritten(r) /\ AtCursor(r) /\ Reconciles(r) /\ InSequence(r)
  BY <1>2 DEF Init, Unwritten, AtCursor, Reconciles, InSequence, AtAttempt, Holding, Early, Over
<1> QED
  BY <1>1, <1>3, <1>4 DEF HistInv

\* a run finds the rows of its task when it takes the lock,
LEMMA BeginStep ==
    ASSUME OneLockPerTask, HistInv, TypeOK', Located', NEW r \in Run, Begin(r)
    PROVE  HistInv' /\ TerminalStays
<1> USE RowParts
<1>1. /\ pc'[r] = "reconcile" /\ todo'[r] = OpenRowsOf(TaskOf[r])
      /\ pc[r] = "idle" /\ LockFree(r)
      /\ UNCHANGED <<attempt, backups, server, key, seq, final, plan>>
  BY DEF Begin, Goto, store, HistInv, TypeOK
<1>2. LocalTo(r) /\ RowsGoOn(r)
  BY DEF Begin, Goto, store, HistInv, TypeOK, LocalTo, RowsGoOn
<1>3. MovedHasTrail'
  BY <1>1, <1>2, TrailStays DEF RowsGoOn, RowsForward, Open
<1>4. \A x \in Row : Open(x) => pc[x[1]] \notin Early
  BY DEF HistInv, Unwritten, Open
<1>5. ASSUME NEW x \in Row, Open(x), TaskOf[x[1]] = TaskOf[r] PROVE pc'[x[1]] \in Over
  <2>1. pc[x[1]] \in Location \ Early /\ x[1] # r
    BY <1>1, <1>4, <1>5 DEF HistInv, TypeOK, Early
  <2>2. pc[x[1]] \notin Live
    BY <1>1, <1>5 DEF LockFree, OneLockPerTask
  <2> QED
    BY <1>2, <2>1, <2>2 DEF LocalTo, Location, Over, Early
<1>6. Reconciles(r)'
  BY <1>1, <1>5 DEF Reconciles, OpenRowsOf, Open
<1>7. Unwritten(r)' /\ AtCursor(r)' /\ InSequence(r)'
  BY <1>1 DEF HistInv, Unwritten, AtCursor, InSequence, AtAttempt, Holding, Early, Over
<1> QED
  BY <1>1, <1>2, <1>3, <1>6, <1>7, RunStep DEF Over, Live, Holding

\* and closes them one at a time: they are of nobody who would miss them.
LEMMA CloseStep ==
    ASSUME OneLockPerTask, HistInv, TypeOK', Located', NEW r \in Run, CloseRow(r)
    PROVE  HistInv' /\ TerminalStays
<1> USE RowParts
<1>1. PICK x \in todo[r], v \in {"completed", "failed"} :
         /\ attempt' = [attempt EXCEPT ![x] = v]
         /\ todo' = [todo EXCEPT ![r] = @ \ {x}]
         /\ key' = [key EXCEPT ![r] = x[2]]
  BY DEF CloseRow, Verdicts
<1>2. /\ pc[r] = "reconcile" /\ pc' = [pc EXCEPT ![r] = "unclaim"]
      /\ UNCHANGED <<backups, server, seq, final, plan>>
  BY DEF CloseRow, Goto
<1>3. x \in Row /\ Open(x) /\ pc[x[1]] \in Over /\ TaskOf[x[1]] = TaskOf[r] /\ x[1] # r
  BY <1>2, TodoRows DEF HistInv, Reconciles, Over
<1>4. /\ pc'[r] = "unclaim" /\ todo'[r] = todo[r] \ {x}
      /\ attempt'[x] = v /\ \A y \in Row : y # x => attempt'[y] = attempt[y]
      /\ \A q \in Run : q # r => pc'[q] = pc[q] /\ todo'[q] = todo[q] /\ key'[q] = key[q]
  BY <1>1, <1>2, <1>3 DEF HistInv, TypeOK
<1>5. \A y \in Row : Open(y)' <=> Open(y) /\ y # x
  BY <1>4 DEF Open
<1>6. TerminalStays
  BY <1>3, <1>4 DEF TerminalStays, Open, Terminal
<1>7. OneRunPerLock'
  BY <1>2, <1>4 DEF HistInv, OneRunPerLock, Live
<1>8. ReconcileComplete'
  BY <1>4, <1>5 DEF HistInv, ReconcileComplete
<1>9. MovedHasTrail'
  BY <1>2, <1>3, <1>4, TrailStays DEF RowsForward, Outcome
<1>10. ASSUME NEW q \in Run
       PROVE  Unwritten(q)' /\ AtCursor(q)' /\ Reconciles(q)' /\ InSequence(q)'
  <2>1. CASE q = r
    <3>1. Unwritten(r)'
      BY <1>2, <1>3, <1>4 DEF HistInv, Unwritten, Early, Over, Holding
    <3>2. AtCursor(r)' /\ InSequence(r)'
      BY <1>4 DEF AtCursor, InSequence, AtAttempt
    <3>3. \A y \in todo[r] : y \in Row /\ Open(y) /\ pc[y[1]] \in Over /\ TaskOf[y[1]] = TaskOf[r]
      BY TodoRows DEF HistInv, Reconciles
    <3>4. \A y \in todo'[r] : Open(y)' /\ pc'[y[1]] \in Over /\ TaskOf[y[1]] = TaskOf[r]
      BY <1>2, <1>4, <1>5, <3>3 DEF Over
    <3>5. Reconciles(r)'
      BY <1>2, <1>4, <1>5, <3>4 DEF HistInv, Reconciles
    <3> QED
      BY <2>1, <3>1, <3>2, <3>5
  <2>2. CASE q # r
    <3>1. /\ pc'[q] = pc[q] /\ key'[q] = key[q] /\ seq'[q] = seq[q]
          /\ final'[q] = final[q] /\ plan'[q] = plan[q] /\ todo'[q] = todo[q]
      BY <1>2, <1>4, <2>2
    <3>2. \A y \in Row : y[1] = q /\ pc[q] \notin Over => attempt'[y] = attempt[y]
      BY <1>3, <1>4
    <3>3. Cursor(q)' = Cursor(q) /\ Cursor(q)[1] = q
      BY <3>1 DEF Cursor
    <3>4. Unwritten(q)'
      BY <3>1, <3>2 DEF HistInv, Unwritten, Early, Over, Holding
    <3>5. AtCursor(q)'
      BY <3>1, <3>2, <3>3, CursorIsRow DEF HistInv, AtCursor, AtAttempt, Over
    <3>6. Reconciles(q)'
      <4>1. CASE pc[q] \in {"reconcile", "unclaim"}
        <5>1. TaskOf[q] # TaskOf[r]
          BY <1>2, <2>2, <4>1 DEF HistInv, OneRunPerLock, OneLockPerTask, Live
        <5>2. \A y \in todo[q] : y \in Row /\ Open(y) /\ pc[y[1]] \in Over /\ TaskOf[y[1]] = TaskOf[q]
          BY TodoRows DEF HistInv, Reconciles
        <5>3. \A y \in todo[q] : Open(y)' /\ pc'[y[1]] \in Over
          BY <1>2, <1>3, <1>4, <1>5, <5>1, <5>2 DEF Over
        <5> QED
          BY <1>5, <3>1, <5>2, <5>3 DEF HistInv, Reconciles
      <4>2. CASE pc[q] \notin {"reconcile", "unclaim"}
        BY <3>1, <4>2 DEF HistInv, Reconciles
      <4> QED
        BY <4>1, <4>2
    <3>7. pc[q] \notin Over => \A n : FirstDone(q, n) => FirstDone(q, n)'
      BY <1>2, <3>1, <3>2 DEF FirstDone, KindOf, Acts
    <3>8. KindOf(Cursor(q))' = KindOf(Cursor(q))
      BY <3>3 DEF KindOf, Acts
    <3>9. InSequence(q)'
      BY <1>2, <3>1, <3>7, <3>8 DEF HistInv, InSequence, AtAttempt, Over
    <3> QED
      BY <3>4, <3>5, <3>6, <3>9
  <2> QED
    BY <2>1, <2>2
<1> QED
  BY <1>6, <1>7, <1>8, <1>9, <1>10 DEF HistInv
----------------------------------------------------------------------------
\* A dry run writes the rows of an item it takes,
LEMMA PreviewStep ==
    ASSUME OneLockPerTask, HistInv, TypeOK', Located', NEW r \in Run, Preview(r)
    PROVE  HistInv' /\ TerminalStays
<1> USE RowParts
<1>1. /\ pc[r] = "pick" /\ pc'[r] = "pick" /\ NextKey(r) \in plan[r]
      /\ plan'[r] = plan[r] \ {NextKey(r)}
      /\ UNCHANGED <<server, ended, backups, pc, key, seq, final, todo>>
  BY OldestIsIn DEF Preview, Take, NextKey, HistInv, TypeOK
<1>2. \A x \in Row :
        attempt'[x] = IF x[1] = r /\ x[2] = NextKey(r) /\ x[3] \in DOMAIN Acts(r)
                      THEN "skipped" ELSE attempt[x]
  BY DEF Preview
<1>3. \A x \in Row : x[1] = r /\ x[2] = NextKey(r) => attempt[x] = "none"
  BY <1>1 DEF HistInv, Unwritten
<1>4. LocalTo(r) /\ RowsGoOn(r)
  BY <1>1, <1>2, <1>3 DEF LocalTo, RowsGoOn, Preview, Take, HistInv, TypeOK, Live
<1>5. MovedHasTrail'
  BY <1>1, <1>4, TrailStays DEF RowsGoOn, RowsForward, Open
<1>6. Unwritten(r)'
  BY <1>1, <1>2 DEF HistInv, Unwritten, Early, Over, Holding
<1>7. AtCursor(r)' /\ InSequence(r)'
  BY <1>1 DEF AtCursor, InSequence, AtAttempt
<1>8. \A x \in Row : Open(x)' => Open(x)
  BY <1>2 DEF Open
<1>9. Reconciles(r)'
  BY <1>1 DEF HistInv, Reconciles
<1>10. \A x \in Row : Open(x)' /\ TaskOf[x[1]] = TaskOf[r] => x[1] = r
  BY <1>1, <1>8 DEF HistInv, ReconcileComplete, Live
<1> QED
  BY <1>1, <1>4, <1>5, <1>6, <1>7, <1>9, <1>10, RunStep DEF Over, Live

\* a claim takes one,
LEMMA ClaimStep ==
    ASSUME OneLockPerTask, HistInv, TypeOK', Located', NEW r \in Run, Claim(r)
    PROVE  HistInv' /\ TerminalStays
<1> USE RowParts
<1>1. /\ pc[r] = "pick" /\ pc'[r] = "verify" /\ NextKey(r) \in plan[r]
      /\ plan'[r] = plan[r] \ {NextKey(r)} /\ key'[r] = NextKey(r)
      /\ UNCHANGED <<attempt, server, backups, seq, final, todo>>
  BY OldestIsIn DEF Claim, Take, NextKey, Goto, HistInv, TypeOK
<1>2. LocalTo(r) /\ RowsGoOn(r)
  BY DEF LocalTo, RowsGoOn, Claim, Take, Goto, HistInv, TypeOK
<1>3. MovedHasTrail'
  BY <1>1, <1>2, TrailStays DEF RowsGoOn, RowsForward, Open
<1>4. seq[r] = 0 /\ final[r] = "completed" /\ todo[r] = {}
      /\ \A x \in Row : x[1] = r /\ x[2] \in plan[r] => attempt[x] = "none"
  BY <1>1 DEF HistInv, Unwritten, Reconciles, Holding
<1>5. Unwritten(r)'
  BY <1>1, <1>4 DEF Unwritten, Early, Over, Holding
<1>6. AtCursor(r)'
  BY <1>1 DEF AtCursor
<1>7. \A x \in Row : x[3] \in Nat \ {0}
  BY TasksAssumption DEF Row, Slot
<1>8. InSequence(r)'
  BY <1>1, <1>4, <1>7 DEF InSequence, AtAttempt, FirstDone
<1>9. Reconciles(r)'
  BY <1>1, <1>4 DEF Reconciles
<1>10. \A x \in Row : Open(x)' /\ TaskOf[x[1]] = TaskOf[r] => x[1] = r
  BY <1>1 DEF HistInv, ReconcileComplete, Live, Open
<1> QED
  BY <1>1, <1>2, <1>3, <1>5, <1>6, <1>8, <1>9, <1>10, RunStep DEF Over, Live, Holding

\* and the sequence writes the row under its cursor: it appears,
LEMMA InsertStep ==
    ASSUME OneLockPerTask, HistInv, TypeOK', Located', NEW r \in Run, Insert(r)
    PROVE  HistInv' /\ TerminalStays
<1> USE RowParts
<1> DEFINE y == <<r, key[r], seq[r] + 1>>
           ok == final[r] = "completed"
           l == IF ok THEN "pending" ELSE "next"
<1>1. /\ pc[r] = "next" /\ pc' = [pc EXCEPT ![r] = l]
      /\ attempt' = [attempt EXCEPT ![y] = IF ok THEN "pending" ELSE "skipped"]
      /\ seq' = [seq EXCEPT ![r] = @ + 1] /\ seq[r] \in Nat
      /\ UNCHANGED <<server, ended, backups, key, final, plan, todo>>
  BY DEF Insert, Goto, HistInv, TypeOK
<1>2. y \in Row
  BY <1>1, TasksAssumption DEF Insert, Row, Slot, Acts, HistInv, Located, Holding
<1>3. /\ pc'[r] = l /\ seq'[r] = seq[r] + 1
      /\ attempt'[y] = IF ok THEN "pending" ELSE "skipped"
      /\ \A x \in Row : x # y => attempt'[x] = attempt[x]
  BY <1>1, <1>2 DEF HistInv, TypeOK
<1>4. \A x \in Row : x[3] \in Nat \ {0} /\ x = <<x[1], x[2], x[3]>>
  BY TasksAssumption DEF Row, Slot
<1>5. attempt[y] = "none"
  BY <1>1, <1>2 DEF HistInv, Unwritten, Holding
<1>6. LocalTo(r) /\ RowsGoOn(r)
  <2>1. LocalTo(r)
    BY <1>1 DEF LocalTo, HistInv, TypeOK
  <2>2. RowsGoOn(r)
    BY <1>1, <1>3, <1>5 DEF RowsGoOn, Live, Holding
  <2> QED
    BY <2>1, <2>2
<1>7. MovedHasTrail'
  BY <1>1, <1>6, TrailStays DEF RowsGoOn, RowsForward, Open
<1>8. key[r] \notin plan[r]
      /\ \A x \in Row : x[1] = r /\ x[2] = key[r] /\ x[3] > seq[r] => attempt[x] = "none"
  BY <1>1 DEF HistInv, Unwritten, Holding
<1>9. Unwritten(r)'
  <2>1. \A x \in Row : x[1] = r /\ x[2] \in plan[r] => attempt'[x] = "none"
    BY <1>1, <1>3, <1>8 DEF HistInv, Unwritten
  <2>2. \A x \in Row : x[1] = r /\ x[2] = key[r] /\ x[3] > seq[r] + 1 => attempt'[x] = "none"
    BY <1>1, <1>3, <1>4, <1>8
  <2> QED
    BY <1>1, <1>3, <1>8, <2>1, <2>2 DEF Unwritten, Early, Over, Holding
<1>10. AtCursor(r)'
  BY <1>1, <1>3 DEF AtCursor, Cursor
<1>11. ok => FirstDone(r, seq[r])
  BY <1>1 DEF HistInv, InSequence
<1>12. seq'[r] - 1 = seq[r]
  BY <1>1, <1>3
<1>13. InSequence(r)'
  <2>1. CASE ok
    <3>1. pc'[r] = "pending" /\ final'[r] = "completed"
      BY <1>1, <1>3, <2>1
    <3>2. ASSUME NEW x \in Row, x[1] = r, x[2] = key[r], x[3] <= seq[r]
          PROVE  attempt'[x] = "completed" /\ (KindOf(x) = "backup" => key[r] \in backups')
      <4>1. x # y
        BY <1>1, <3>2
      <4> QED
        BY <1>1, <1>3, <1>11, <2>1, <3>2, <4>1 DEF FirstDone
    <3>3. FirstDone(r, seq[r] - 1)'
      BY <1>1, <1>12, <3>2 DEF FirstDone, KindOf, Acts
    <3> QED
      BY <3>1, <3>3 DEF InSequence, AtAttempt
  <2>2. CASE ~ok
    BY <1>1, <1>3, <2>2 DEF InSequence, AtAttempt
  <2> QED
    BY <2>1, <2>2
<1>14. Reconciles(r)'
  BY <1>1, <1>3 DEF HistInv, Reconciles
<1>15. \A x \in Row : Open(x)' /\ TaskOf[x[1]] = TaskOf[r] => x[1] = r
  BY <1>1, <1>3 DEF HistInv, ReconcileComplete, Live, Holding, Open
<1> QED
  BY <1>1, <1>3, <1>6, <1>7, <1>9, <1>10, <1>13, <1>14, <1>15, RunStep DEF Over, Live, Holding

\* is started,
LEMMA StartStep ==
    ASSUME OneLockPerTask, HistInv, TypeOK', Located', NEW r \in Run, Start(r)
    PROVE  HistInv' /\ TerminalStays
<1> USE RowParts
<1>1. /\ pc[r] = "pending" /\ pc' = [pc EXCEPT ![r] = "in_flight"]
      /\ attempt' = [attempt EXCEPT ![Cursor(r)] = "in_flight"]
      /\ UNCHANGED <<server, ended, backups, key, seq, final, plan, todo>>
  BY DEF Start, Goto, job
<1>2. Cursor(r) \in Row /\ Cursor(r)[1] = r /\ attempt[Cursor(r)] = "pending"
  BY <1>1, CursorIsRow DEF HistInv, AtAttempt, AtCursor
<1>3. /\ pc'[r] = "in_flight"
      /\ attempt'[Cursor(r)] = "in_flight"
      /\ \A x \in Row : x # Cursor(r) => attempt'[x] = attempt[x]
  BY <1>1, <1>2 DEF HistInv, TypeOK
<1>4. LocalTo(r)
  BY <1>1 DEF LocalTo, HistInv, TypeOK
<1>5. RowsGoOn(r)
  BY <1>1, <1>2, <1>3 DEF RowsGoOn, Live, Holding
<1>6. MovedHasTrail'
  BY <1>1, <1>5, TrailStays DEF RowsGoOn, RowsForward, Open
<1>7. \A x \in Row : attempt[x] \in {"none", "completed"} => attempt'[x] = attempt[x]
  BY <1>2, <1>3
<1>8. Unwritten(r)'
  BY <1>1, <1>3, <1>7 DEF HistInv, Unwritten, Early, Over, Holding
<1>9. AtCursor(r)'
  BY <1>1, <1>3 DEF AtCursor, Cursor
<1>10. InSequence(r)'
  BY <1>1, <1>3, <1>7 DEF HistInv, InSequence, AtAttempt, FirstDone, KindOf, Acts
<1>11. Reconciles(r)'
  BY <1>1, <1>3 DEF HistInv, Reconciles
<1>12. \A x \in Row : Open(x)' => Open(x)
  BY <1>2, <1>3 DEF Open
<1>13. \A x \in Row : Open(x)' /\ TaskOf[x[1]] = TaskOf[r] => x[1] = r
  BY <1>1, <1>12 DEF HistInv, ReconcileComplete, Live, Holding
<1> QED
  BY <1>1, <1>3, <1>4, <1>5, <1>6, <1>8, <1>9, <1>10, <1>11, <1>13, RunStep
  DEF Over, Live, Holding

\* and gets its outcome;
LEMMA RecordStep ==
    ASSUME OneLockPerTask, HistInv, TypeOK', Located', NEW r \in Run, Record(r)
    PROVE  HistInv' /\ TerminalStays
<1> USE RowParts
<1>1. PICK l \in {"retire", "next"} :
        /\ pc[r] = "effect" /\ pc' = [pc EXCEPT ![r] = l]
        /\ attempt' = [attempt EXCEPT ![Cursor(r)] = final[r]]
        /\ UNCHANGED <<server, ended, backups, key, seq, final, plan, todo>>
  BY DEF Record, Goto, job
<1>2. /\ Cursor(r) \in Row /\ Cursor(r)[1] = r /\ attempt[Cursor(r)] = "in_flight"
      /\ final[r] \in Outcome /\ seq[r] \in Nat
  BY <1>1, CursorIsRow DEF HistInv, AtAttempt, AtCursor, TypeOK
<1>3. /\ pc'[r] = l
      /\ attempt'[Cursor(r)] = final[r]
      /\ \A x \in Row : x # Cursor(r) => attempt'[x] = attempt[x]
  BY <1>1, <1>2 DEF HistInv, TypeOK
<1>4. LocalTo(r)
  BY <1>1 DEF LocalTo, HistInv, TypeOK
<1>5. RowsGoOn(r)
  BY <1>1, <1>2, <1>3 DEF RowsGoOn, Live, Holding
<1>6. MovedHasTrail'
  BY <1>1, <1>5, TrailStays DEF RowsGoOn, RowsForward, Open
<1>7. \A x \in Row : attempt[x] \in {"none", "completed"} => attempt'[x] = attempt[x]
  BY <1>2, <1>3
<1>8. Unwritten(r)'
  BY <1>1, <1>3, <1>7 DEF HistInv, Unwritten, Early, Over, Holding
<1>9. AtCursor(r)'
  BY <1>1, <1>3 DEF AtCursor
<1>10. final[r] = "completed" => FirstDone(r, seq[r])'
  <2> SUFFICES ASSUME final[r] = "completed", NEW x \in Row, x[1] = r, x[2] = key[r], x[3] <= seq[r]
               PROVE  attempt'[x] = "completed" /\ (KindOf(x) = "backup" => key[r] \in backups)
    BY <1>1 DEF FirstDone, KindOf, Acts
  <2>1. x[3] \in Nat /\ x = <<x[1], x[2], x[3]>>
    BY TasksAssumption DEF Row, Slot
  <2>2. CASE x[3] = seq[r]
    <3>1. x = Cursor(r)
      BY <2>1, <2>2 DEF Cursor
    <3> QED
      BY <1>1, <1>3, <3>1 DEF HistInv, InSequence
  <2>3. CASE x[3] # seq[r]
    <3>1. x[3] <= seq[r] - 1
      BY <1>2, <2>1, <2>3
    <3>2. FirstDone(r, seq[r] - 1)
      BY <1>1 DEF HistInv, InSequence, AtAttempt
    <3> QED
      BY <1>7, <3>1, <3>2 DEF FirstDone
  <2> QED
    BY <2>2, <2>3
<1>11. InSequence(r)'
  BY <1>1, <1>3, <1>10 DEF InSequence, AtAttempt, FirstDone, KindOf, Acts
<1>12. Reconciles(r)'
  BY <1>1, <1>3 DEF HistInv, Reconciles
<1>13. \A x \in Row : Open(x)' => Open(x)
  BY <1>2, <1>3 DEF Open, Outcome
<1>14. \A x \in Row : Open(x)' /\ TaskOf[x[1]] = TaskOf[r] => x[1] = r
  BY <1>1, <1>13 DEF HistInv, ReconcileComplete, Live, Holding
<1> QED
  BY <1>1, <1>3, <1>4, <1>5, <1>6, <1>8, <1>9, <1>11, <1>12, <1>14, RunStep
  DEF Over, Live, Holding

\* before a message is moved, everything listed ahead of the move is done.
LEMMA MoveStep ==
    ASSUME OneLockPerTask, HistInv, TypeOK', Located', NEW r \in Run, DoMove(r)
    PROVE  HistInv' /\ TerminalStays
<1>1. /\ pc[r] = "checked" /\ pc' = [pc EXCEPT ![r] = "effect"] /\ KindOf(Cursor(r)) = "move"
      /\ server' = [server EXCEPT ![key[r]] = IF Present(key[r]) THEN "moved" ELSE @]
      /\ UNCHANGED <<attempt, backups, key, seq, plan, todo>>
      /\ \A q \in Run : q # r => final'[q] = final[q]
  BY DEF DoMove, Sending, Ends, Goto, store, HistInv, TypeOK
<1>2. FirstDone(r, seq[r] - 1) /\ attempt[Cursor(r)] = "in_flight"
  BY <1>1 DEF HistInv, InSequence, AtCursor, AtAttempt
<1>3. seq[r] \in DOMAIN Acts(r) /\ key[r] \in Key /\ Acts(r) \in Seq(Kind)
  BY <1>1, TasksAssumption DEF HistInv, Located, AtAttempt, Holding, Acts
<1>4. /\ Acts(r)[seq[r]] = "move"
      /\ attempt[<<r, key[r], seq[r]>>] = "in_flight"
      /\ \A j \in 1..(seq[r] - 1) :
            /\ attempt[<<r, key[r], j>>] = "completed"
            /\ Acts(r)[j] = "backup" => key[r] \in backups
  <2>1. ASSUME NEW j \in 1..(seq[r] - 1)
        PROVE  attempt[<<r, key[r], j>>] = "completed" /\ (Acts(r)[j] = "backup" => key[r] \in backups)
    <3>1. <<r, key[r], j>> \in Row
      BY <1>3, TasksAssumption DEF Row, Slot, Acts
    <3>2. j <= seq[r] - 1
      BY <1>3
    <3> QED
      BY <1>2, <3>1, <3>2 DEF FirstDone, KindOf
  <2> QED
    BY <1>1, <1>2, <2>1 DEF Cursor, KindOf
<1>5. MovedHasTrail'
  <2> SUFFICES ASSUME NEW k \in Key, server'[k] = "moved"
               PROVE  \E q \in Run : \E i \in DOMAIN Acts(q) :
                        /\ Acts(q)[i] = "move"
                        /\ attempt[<<q, k, i>>] \notin {"none", "pending", "skipped"}
                        /\ \A j \in 1..(i - 1) :
                              /\ attempt[<<q, k, j>>] = "completed"
                              /\ Acts(q)[j] = "backup" => k \in backups
    BY <1>1 DEF MovedHasTrail, Acts
  <2>1. CASE k = key[r]
    BY <1>3, <1>4, <2>1
  <2>2. CASE k # key[r]
    <3>1. server[k] = "moved"
      BY <1>1, <2>2 DEF HistInv, TypeOK
    <3> QED
      BY <3>1 DEF HistInv, MovedHasTrail
  <2> QED
    BY <2>1, <2>2
<1>6. AtCursor(r)'
  BY <1>1, <1>2 DEF AtCursor, Cursor, HistInv, TypeOK
<1>7. InSequence(r)'
  BY <1>1, <1>2 DEF InSequence, AtAttempt, FirstDone, Cursor, KindOf, Acts, HistInv, TypeOK
<1> QED
  BY <1>1, <1>5, <1>6, <1>7, ItemStep DEF Holding

\* An action that moves nothing comes to an outcome.
LEMMA OutcomeStep ==
    ASSUME OneLockPerTask, HistInv, TypeOK', Located', NEW r \in Run, NEW o \in Outcome,
           pc[r] \in {"in_flight", "checked"}, Ends(r, o),
           attempt' = attempt, server' = server, backups \subseteq backups',
           o = "completed" /\ KindOf(Cursor(r)) = "backup" => key[r] \in backups'
    PROVE  HistInv' /\ TerminalStays
<1>1. /\ pc' = [pc EXCEPT ![r] = "effect"] /\ pc'[r] = "effect" /\ final'[r] = o
      /\ UNCHANGED <<key, seq, plan, todo>>
      /\ \A q \in Run : q # r => final'[q] = final[q]
  BY DEF Ends, Goto, HistInv, TypeOK
<1>2. FirstDone(r, seq[r] - 1) /\ attempt[Cursor(r)] = "in_flight"
  BY DEF HistInv, InSequence, AtCursor, AtAttempt
<1>3. AtCursor(r)'
  BY <1>1, <1>2 DEF AtCursor, Cursor
<1>4. FirstDone(r, seq[r] - 1)'
  BY <1>1, <1>2 DEF FirstDone, KindOf, Acts
<1>5. Cursor(r)' = Cursor(r) /\ KindOf(Cursor(r))' = KindOf(Cursor(r))
  BY <1>1 DEF Cursor, KindOf, Acts
<1>6. InSequence(r)'
  BY <1>1, <1>4, <1>5 DEF InSequence, AtAttempt
<1> QED
  BY <1>1, <1>3, <1>6, ItemStep DEF Holding

\* The other clients do not touch the records,
LEMMA StillStep ==
    ASSUME HistInv, TypeOK', Located',
           UNCHANGED <<attempt, backups, pc, key, seq, final, plan, todo>>,
           \A k \in Key : server'[k] = "moved" => server[k] = "moved"
    PROVE  HistInv' /\ TerminalStays
<1>1. TerminalStays
  BY DEF TerminalStays
<1>2. MovedHasTrail'
  BY TrailStays DEF RowsForward
<1>3. OneRunPerLock' /\ ReconcileComplete'
  BY DEF HistInv, OneRunPerLock, ReconcileComplete, Open
<1>4. \A r \in Run : Unwritten(r)' /\ AtCursor(r)' /\ Reconciles(r)' /\ InSequence(r)'
  BY DEF HistInv, Unwritten, AtCursor, Reconciles, InSequence, FirstDone, Cursor, KindOf, Acts, Open
<1> QED
  BY <1>1, <1>2, <1>3, <1>4 DEF HistInv

\* and neither does the re-verification of an item, whatever it finds.
LEMMA FromVerify ==
    ASSUME OneLockPerTask, HistInv, TypeOK', Located', NEW r \in Run,
           NEW l \in {"retire", "release", "next", "unwind"},
           pc[r] = "verify", pc' = [pc EXCEPT ![r] = l],
           UNCHANGED <<server, ended, backups, attempt, key, seq, final, plan, todo>>
    PROVE  HistInv' /\ TerminalStays
<1>1. pc'[r] = l /\ seq[r] = 0
  BY DEF HistInv, TypeOK, Unwritten
<1>2. \A x \in Row : x[3] \in Nat \ {0}
  BY TasksAssumption DEF Row, Slot
<1>3. AtCursor(r)' /\ InSequence(r)'
  BY <1>1, <1>2 DEF AtCursor, InSequence, AtAttempt, FirstDone
<1> QED
  BY <1>3, ItemStep DEF Holding

\* Every step keeps the invariant and leaves what is settled as it is.
LEMMA HistoryStep ==
    ASSUME OneLockPerTask, HistInv, [Next]_vars
    PROVE  HistInv' /\ TerminalStays
<1>0. TypeOK' /\ Located'
  BY NextTyped DEF HistInv
<1>1. ASSUME NEW r \in Run, Begin(r) PROVE HistInv' /\ TerminalStays
  BY <1>0, <1>1, BeginStep
<1>2. ASSUME NEW r \in Run, CloseRow(r) PROVE HistInv' /\ TerminalStays
  BY <1>0, <1>2, CloseStep
<1>3. ASSUME NEW r \in Run, Preview(r) PROVE HistInv' /\ TerminalStays
  BY <1>0, <1>3, PreviewStep
<1>4. ASSUME NEW r \in Run, Claim(r) PROVE HistInv' /\ TerminalStays
  BY <1>0, <1>4, ClaimStep
<1>5. ASSUME NEW r \in Run, Insert(r) PROVE HistInv' /\ TerminalStays
  BY <1>0, <1>5, InsertStep
<1>6. ASSUME NEW r \in Run, Start(r) PROVE HistInv' /\ TerminalStays
  BY <1>0, <1>6, StartStep
<1>7. ASSUME NEW r \in Run, Record(r) PROVE HistInv' /\ TerminalStays
  BY <1>0, <1>7, RecordStep
<1>8. ASSUME NEW r \in Run, DoMove(r) PROVE HistInv' /\ TerminalStays
  BY <1>0, <1>8, MoveStep
<1>9. ASSUME NEW r \in Run, Busy(r) PROVE HistInv' /\ TerminalStays
  <2>1. /\ pc[r] = "idle" /\ pc' = [pc EXCEPT ![r] = "done"]
        /\ UNCHANGED <<attempt, backups, server, todo, seq, final>>
        /\ \A q \in Run : q # r => key'[q] = key[q] /\ plan'[q] = plan[q]
    BY <1>9 DEF Busy, Goto, store, job, HistInv, TypeOK
  <2>2. /\ seq[r] = 0 /\ final[r] = "completed"
        /\ pc[r] \notin {"reconcile", "unclaim"} => todo[r] = {}
        /\ pc[r] = "idle" => plan[r] = {}
    BY <2>1 DEF HistInv, Unwritten, Reconciles, Holding
  <2>3. plan'[r] = {} /\ todo[r] = {}
    BY <1>9, <2>1, <2>2 DEF Busy, HistInv, TypeOK, Early, job
  <2> QED
    BY <1>0, <2>1, <2>2, <2>3, OutsideItemStep DEF Location, Live, Holding, Early, Over
<1>10. ASSUME NEW r \in Run, Unclaim(r) PROVE HistInv' /\ TerminalStays
  <2>1. /\ pc[r] = "unclaim" /\ pc' = [pc EXCEPT ![r] = "reconcile"]
        /\ UNCHANGED <<attempt, backups, server, todo, seq, final>>
        /\ \A q \in Run : q # r => key'[q] = key[q] /\ plan'[q] = plan[q]
    BY <1>10 DEF Unclaim, Goto, store, job, HistInv, TypeOK
  <2>2. /\ seq[r] = 0 /\ final[r] = "completed"
        /\ pc[r] \notin {"reconcile", "unclaim"} => todo[r] = {}
        /\ pc[r] = "idle" => plan[r] = {}
    BY <2>1 DEF HistInv, Unwritten, Reconciles, Holding
  <2>3. plan'[r] \subseteq plan[r] \/ pc[r] \in Early
    BY <1>10, <2>1, <2>2 DEF Unclaim, HistInv, TypeOK, Early, job
  <2> QED
    BY <1>0, <2>1, <2>2, <2>3, OutsideItemStep DEF Location, Live, Holding, Early, Over
<1>11. ASSUME NEW r \in Run, Scan(r) PROVE HistInv' /\ TerminalStays
  <2>1. /\ pc[r] = "reconcile" /\ pc' = [pc EXCEPT ![r] = "load"]
        /\ UNCHANGED <<attempt, backups, server, todo, seq, final>>
        /\ \A q \in Run : q # r => key'[q] = key[q] /\ plan'[q] = plan[q]
    BY <1>11 DEF Scan, Goto, store, job, HistInv, TypeOK
  <2>2. /\ seq[r] = 0 /\ final[r] = "completed"
        /\ pc[r] \notin {"reconcile", "unclaim"} => todo[r] = {}
        /\ pc[r] = "idle" => plan[r] = {}
    BY <2>1 DEF HistInv, Unwritten, Reconciles, Holding
  <2>3. todo[r] = {}
    BY <1>11, <2>1, <2>2 DEF Scan, HistInv, TypeOK, Early, job
  <2> QED
    BY <1>0, <2>1, <2>2, <2>3, OutsideItemStep DEF Location, Live, Holding, Early, Over
<1>12. ASSUME NEW r \in Run, Load(r) PROVE HistInv' /\ TerminalStays
  <2>1. /\ pc[r] = "load" /\ pc' = [pc EXCEPT ![r] = "decide"]
        /\ UNCHANGED <<attempt, backups, server, todo, seq, final>>
        /\ \A q \in Run : q # r => key'[q] = key[q] /\ plan'[q] = plan[q]
    BY <1>12 DEF Load, Goto, store, job, HistInv, TypeOK
  <2>2. /\ seq[r] = 0 /\ final[r] = "completed"
        /\ pc[r] \notin {"reconcile", "unclaim"} => todo[r] = {}
        /\ pc[r] = "idle" => plan[r] = {}
    BY <2>1 DEF HistInv, Unwritten, Reconciles, Holding
  <2>3. plan'[r] \subseteq plan[r] \/ pc[r] \in Early
    BY <1>12, <2>1, <2>2 DEF Load, HistInv, TypeOK, Early, job
  <2> QED
    BY <1>0, <2>1, <2>2, <2>3, OutsideItemStep DEF Location, Live, Holding, Early, Over
<1>13. ASSUME NEW r \in Run, Decide(r) PROVE HistInv' /\ TerminalStays
  <2>1. /\ pc[r] = "decide" /\ pc' = [pc EXCEPT ![r] = "pick"]
        /\ UNCHANGED <<attempt, backups, server, todo, seq, final>>
        /\ \A q \in Run : q # r => key'[q] = key[q] /\ plan'[q] = plan[q]
    BY <1>13 DEF Decide, Goto, store, job, HistInv, TypeOK
  <2>2. /\ seq[r] = 0 /\ final[r] = "completed"
        /\ pc[r] \notin {"reconcile", "unclaim"} => todo[r] = {}
        /\ pc[r] = "idle" => plan[r] = {}
    BY <2>1 DEF HistInv, Unwritten, Reconciles, Holding
  <2>3. plan'[r] \subseteq plan[r] \/ pc[r] \in Early
    BY <1>13, <2>1, <2>2 DEF Decide, HistInv, TypeOK, Early, job
  <2> QED
    BY <1>0, <2>1, <2>2, <2>3, OutsideItemStep DEF Location, Live, Holding, Early, Over
<1>14. ASSUME NEW r \in Run, SkipCapped(r) PROVE HistInv' /\ TerminalStays
  <2>1. /\ pc[r] = "pick" /\ pc' = [pc EXCEPT ![r] = "pick"]
        /\ UNCHANGED <<attempt, backups, server, todo, seq, final>>
        /\ \A q \in Run : q # r => key'[q] = key[q] /\ plan'[q] = plan[q]
    BY <1>14 DEF SkipCapped, Take, Goto, store, job, HistInv, TypeOK
  <2>2. /\ seq[r] = 0 /\ final[r] = "completed"
        /\ pc[r] \notin {"reconcile", "unclaim"} => todo[r] = {}
        /\ pc[r] = "idle" => plan[r] = {}
    BY <2>1 DEF HistInv, Unwritten, Reconciles, Holding
  <2>3. plan'[r] \subseteq plan[r] \/ pc[r] \in Early
    BY <1>14, <2>1, <2>2 DEF SkipCapped, Take, HistInv, TypeOK, Early, job
  <2> QED
    BY <1>0, <2>1, <2>2, <2>3, OutsideItemStep DEF Location, Live, Holding, Early, Over
<1>15. ASSUME NEW r \in Run, ClaimRefused(r) PROVE HistInv' /\ TerminalStays
  <2>1. /\ pc[r] = "pick" /\ pc' = [pc EXCEPT ![r] = "pick"]
        /\ UNCHANGED <<attempt, backups, server, todo, seq, final>>
        /\ \A q \in Run : q # r => key'[q] = key[q] /\ plan'[q] = plan[q]
    BY <1>15 DEF ClaimRefused, Take, Goto, store, job, HistInv, TypeOK
  <2>2. /\ seq[r] = 0 /\ final[r] = "completed"
        /\ pc[r] \notin {"reconcile", "unclaim"} => todo[r] = {}
        /\ pc[r] = "idle" => plan[r] = {}
    BY <2>1 DEF HistInv, Unwritten, Reconciles, Holding
  <2>3. plan'[r] \subseteq plan[r] \/ pc[r] \in Early
    BY <1>15, <2>1, <2>2 DEF ClaimRefused, Take, HistInv, TypeOK, Early, job
  <2> QED
    BY <1>0, <2>1, <2>2, <2>3, OutsideItemStep DEF Location, Live, Holding, Early, Over
<1>16. ASSUME NEW r \in Run, DropUnsupported(r) PROVE HistInv' /\ TerminalStays
  <2>1. /\ pc[r] = "pick" /\ pc' = [pc EXCEPT ![r] = "pick"]
        /\ UNCHANGED <<attempt, backups, server, todo, seq, final>>
        /\ \A q \in Run : q # r => key'[q] = key[q] /\ plan'[q] = plan[q]
    BY <1>16 DEF DropUnsupported, Goto, store, job, HistInv, TypeOK
  <2>2. /\ seq[r] = 0 /\ final[r] = "completed"
        /\ pc[r] \notin {"reconcile", "unclaim"} => todo[r] = {}
        /\ pc[r] = "idle" => plan[r] = {}
    BY <2>1 DEF HistInv, Unwritten, Reconciles, Holding
  <2>3. plan'[r] \subseteq plan[r] \/ pc[r] \in Early
    BY <1>16, <2>1, <2>2 DEF DropUnsupported, HistInv, TypeOK, Early, job
  <2> QED
    BY <1>0, <2>1, <2>2, <2>3, OutsideItemStep DEF Location, Live, Holding, Early, Over
<1>17. ASSUME NEW r \in Run, Release(r) PROVE HistInv' /\ TerminalStays
  <2>1. PICK l \in {"finish", "pick"} :
          /\ pc[r] = "release" /\ pc' = [pc EXCEPT ![r] = l]
          /\ UNCHANGED <<attempt, backups, server, todo, plan>>
          /\ seq'[r] = 0 /\ final'[r] = "completed"
          /\ \A q \in Run : q # r => key'[q] = key[q] /\ seq'[q] = seq[q] /\ final'[q] = final[q]
    BY <1>17 DEF Release, ResetItem, Goto, HistInv, TypeOK
  <2>2. todo[r] = {}
    BY <2>1 DEF HistInv, Reconciles
  <2> QED
    BY <1>0, <2>1, <2>2, OutsideItemStep DEF Location, Live, Holding, Early, Over
<1>18. ASSUME NEW r \in Run, VerifyVanished(r) PROVE HistInv' /\ TerminalStays
  BY <1>0, <1>18, FromVerify DEF VerifyVanished, Goto, store, job
<1>19. ASSUME NEW r \in Run, VerifyChanged(r) PROVE HistInv' /\ TerminalStays
  BY <1>0, <1>19, FromVerify DEF VerifyChanged, Goto, store, job
<1>20. ASSUME NEW r \in Run, VerifyProtected(r) PROVE HistInv' /\ TerminalStays
  BY <1>0, <1>20, FromVerify DEF VerifyProtected, Goto, store, job
<1>21. ASSUME NEW r \in Run, VerifyOk(r) PROVE HistInv' /\ TerminalStays
  BY <1>0, <1>21, FromVerify DEF VerifyOk, Goto, store, job
<1>22. ASSUME NEW r \in Run, VerifyError(r) PROVE HistInv' /\ TerminalStays
  BY <1>0, <1>22, FromVerify DEF VerifyError, Goto, store, job
<1>23. ASSUME NEW r \in Run, Exists(r) PROVE HistInv' /\ TerminalStays
  <2>1. /\ pc[r] = "in_flight" /\ pc' = [pc EXCEPT ![r] = "checked"] /\ pc'[r] = "checked"
        /\ UNCHANGED <<server, ended, backups, attempt, key, seq, final, plan, todo>>
    BY <1>23 DEF Exists, Performing, Goto, store, job, HistInv, TypeOK
  <2>2. AtCursor(r)' /\ InSequence(r)'
    BY <2>1 DEF HistInv, AtCursor, InSequence, AtAttempt, FirstDone, Cursor, KindOf, Acts
  <2> QED
    BY <1>0, <2>1, <2>2, ItemStep DEF Holding
<1>24. ASSUME NEW r \in Run, Retire(r) PROVE HistInv' /\ TerminalStays
  <2>1. PICK l \in {"release", "next"} :
          /\ pc[r] = "retire" /\ pc' = [pc EXCEPT ![r] = l] /\ pc'[r] = l
          /\ UNCHANGED <<server, ended, backups, attempt, key, seq, final, plan, todo>>
    BY <1>24 DEF Retire, Goto, job, HistInv, TypeOK
  <2>2. AtCursor(r)' /\ InSequence(r)'
    BY <2>1 DEF HistInv, AtCursor, InSequence, AtAttempt, FirstDone, KindOf, Acts
  <2> QED
    BY <1>0, <2>1, <2>2, ItemStep DEF Holding
<1>25. ASSUME NEW r \in Run, SequenceDone(r) PROVE HistInv' /\ TerminalStays
  <2>1. /\ pc[r] \in Holding /\ pc' = [pc EXCEPT ![r] = "release"] /\ pc'[r] = "release"
        /\ UNCHANGED <<server, ended, backups, attempt, key, seq, final, plan, todo>>
    BY <1>25 DEF SequenceDone, Goto, store, job, HistInv, TypeOK, Holding
  <2>2. AtCursor(r)' /\ InSequence(r)'
    BY <2>1 DEF AtCursor, InSequence, AtAttempt
  <2> QED
    BY <1>0, <2>1, <2>2, ItemStep DEF Holding
<1>26. ASSUME NEW r \in Run, Interrupt(r) PROVE HistInv' /\ TerminalStays
  <2>1. /\ pc[r] \in Holding /\ pc' = [pc EXCEPT ![r] = "unwind"] /\ pc'[r] = "unwind"
        /\ UNCHANGED <<server, ended, backups, attempt, key, seq, final, plan, todo>>
    BY <1>26 DEF Interrupt, Goto, store, job, HistInv, TypeOK, Holding
  <2>2. AtCursor(r)' /\ InSequence(r)'
    BY <2>1 DEF AtCursor, InSequence, AtAttempt
  <2> QED
    BY <1>0, <2>1, <2>2, ItemStep DEF Holding
<1>27. ASSUME NEW r \in Run, DoBackup(r) PROVE HistInv' /\ TerminalStays
  BY <1>0, <1>27, OutcomeStep DEF DoBackup, Performing, Outcome
<1>28. ASSUME NEW r \in Run, DoRoute(r) PROVE HistInv' /\ TerminalStays
  BY <1>0, <1>28, OutcomeStep DEF DoRoute, Performing, Outcome
<1>29. ASSUME NEW r \in Run, DoLabel(r) PROVE HistInv' /\ TerminalStays
  BY <1>0, <1>29, OutcomeStep DEF DoLabel, Sending, Outcome, store
<1>30. ASSUME NEW r \in Run, MutationVanished(r) PROVE HistInv' /\ TerminalStays
  BY <1>0, <1>30, OutcomeStep DEF MutationVanished, Performing, Outcome, store
<1>31. ASSUME NEW r \in Run, Refused(r) PROVE HistInv' /\ TerminalStays
  BY <1>0, <1>31, OutcomeStep DEF Refused, Performing, Sending, Outcome, store
<1>32. ASSUME NEW r \in Run, Unsupported(r) PROVE HistInv' /\ TerminalStays
  BY <1>0, <1>32, OutcomeStep DEF Unsupported, Performing, Outcome, store
<1>33. ASSUME NEW r \in Run, Finish(r) PROVE HistInv' /\ TerminalStays
  BY <1>0, <1>33, EndStep DEF Finish, Over, Live, Holding, store
<1>34. ASSUME NEW r \in Run, Crash(r) PROVE HistInv' /\ TerminalStays
  BY <1>0, <1>34, EndStep DEF Crash, Over, Live, Holding, store
<1>35. ASSUME NEW r \in Run, Abort(r) PROVE HistInv' /\ TerminalStays
  BY <1>0, <1>35, EndStep DEF Abort, Over, Live, Holding, store
<1>36. ASSUME NEW r \in Run, Unwind(r) PROVE HistInv' /\ TerminalStays
  BY <1>0, <1>36, EndStep DEF Unwind, Over, Live, Holding, store
<1>37. ASSUME Environment PROVE HistInv' /\ TerminalStays
  <2>1. /\ UNCHANGED <<attempt, backups, pc, key, seq, final, plan, todo>>
        /\ \A j \in Key : server'[j] = "moved" => server[j] = "moved"
    BY <1>37 DEF Environment, Others, Arrive, Flag, Unflag, Remove, Renumber, store, job, HistInv, TypeOK
  <2> QED
    BY <1>0, <2>1, StillStep
<1>38. CASE UNCHANGED vars
  BY <1>0, <1>38, StillStep DEF vars, store, job
<1> QED
  BY <1>1, <1>2, <1>3, <1>4, <1>5, <1>6, <1>7, <1>8, <1>9, <1>10, <1>11, <1>12,
     <1>13, <1>14, <1>15, <1>16, <1>17, <1>18, <1>19, <1>20, <1>21, <1>22, <1>23,
     <1>24, <1>25, <1>26, <1>27, <1>28, <1>29, <1>30, <1>31, <1>32, <1>33, <1>34,
     <1>35, <1>36, <1>37, <1>38
  DEF Next, Step, Fault, Phases, Pick, Verify, Perform, RunActions, Failure
----------------------------------------------------------------------------
\* Whatever fails, dies or is stopped, and in whatever order runs come: neither a
\* run nor the reconcile pass of a later one rewrites the outcome of an attempt.
THEOREM HistoryStaysFinal ==
    ASSUME OneLockPerTask PROVE Spec => HistoryIsFinal
<1>1. Init => HistInv
  BY InitHist
<1>2. HistInv /\ [Next]_vars => HistInv'
  BY HistoryStep
<1>3. HistInv /\ [Next]_vars => [\A x \in Row : attempt[x] \in Terminal => attempt'[x] = attempt[x]]_vars
  BY HistoryStep DEF TerminalStays
<1> QED
  BY <1>1, <1>2, <1>3, PTL DEF Spec, HistoryIsFinal

\* A run that is past its reconcile pass never shares its task with an attempt
\* of unknown outcome of an earlier run.
THEOREM ReconcileLeavesNothingOpen ==
    ASSUME OneLockPerTask PROVE Spec => []ReconcileComplete
<1>1. Init => HistInv
  BY InitHist
<1>2. HistInv /\ [Next]_vars => HistInv'
  BY HistoryStep
<1>3. HistInv => ReconcileComplete
  BY DEF HistInv
<1> QED
  BY <1>1, <1>2, <1>3, PTL DEF Spec

\* No message is moved before its attempt is on record and everything listed
\* ahead of the move is recorded as completed, the backup with its manifest.
THEOREM MovesLeaveATrail ==
    ASSUME OneLockPerTask PROVE Spec => []MovedHasTrail
<1>1. Init => HistInv
  BY InitHist
<1>2. HistInv /\ [Next]_vars => HistInv'
  BY HistoryStep
<1>3. HistInv => MovedHasTrail
  BY DEF HistInv
<1> QED
  BY <1>1, <1>2, <1>3, PTL DEF Spec
=============================================================================
