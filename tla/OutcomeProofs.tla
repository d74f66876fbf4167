--------------------------- MODULE OutcomeProofs ---------------------------
(***************************************************************************)
(* What the owner of a mailbox may rely on afterwards: what the report     *)
(* shows as completed was done to the end, and a message that was moved    *)
(* away and put back is left alone.                                        *)
(***************************************************************************)
EXTENDS Report, HistoryProofs, MailboxProofs

\* Nothing cuts a sequence of actions short.
Uninterrupted == {"crash", "interrupt"} \cap Faults = {}

\* What has still to be verified is not on record as acted upon.
Fresh(r) ==
    /\ pc[r] \in Undecided => \A k \in Key : item[<<r, k>>] # "pending"
    /\ \A k \in plan[r] : item[<<r, k>>] # "pending"
    /\ pc[r] \in Holding => key[r] \notin plan[r]
    /\ pc[r] = "verify" => item[<<r, key[r]>>] # "pending"
    /\ pc[r] \notin Holding \ {"verify"} => seq[r] = 0

\* An item on which a run acts, or has acted, has a row for every action so far.
RowsSoFar(r) == \A i \in DOMAIN Acts(r) : i <= seq[r] => attempt[<<r, key[r], i>>] # "none"
AllRows(r, k) == \A i \in DOMAIN Acts(r) : attempt[<<r, k, i>>] # "none"
Written(r) ==
    \A k \in Key : item[<<r, k>>] = "pending" =>
        IF pc[r] \in Holding /\ key[r] = k
        THEN /\ pc[r] # "unwind"
             /\ RowsSoFar(r)
             /\ pc[r] = "release" => seq[r] + 1 \notin DOMAIN Acts(r)
        ELSE AllRows(r, k)

ReportInv ==
    /\ TypeOK
    /\ Located
    /\ \A r \in Run : Fresh(r) /\ Written(r)
----------------------------------------------------------------------------
(* What report shows.                                                      *)

\* A row is never taken back,
RowsKept == \A x \in Row : attempt[x] # "none" => attempt'[x] # "none"

\* and a step of one run leaves the others as they are.
Alone(q) ==
    /\ pc'[q] = pc[q] /\ key'[q] = key[q] /\ seq'[q] = seq[q] /\ plan'[q] = plan[q]
    /\ \A k \in Key : item'[<<q, k>>] = item[<<q, k>>]

LEMMA ActionRows ==
    ASSUME NEW r \in Run, NEW k \in Key, NEW i \in DOMAIN Acts(r)
    PROVE  <<r, k, i>> \in Row
  BY TasksAssumption DEF Row, Slot, Acts

\* Actions are counted from one.
LEMMA ActsFromOne ==
    ASSUME NEW r \in Run
    PROVE  \A i \in DOMAIN Acts(r) : i \in Nat /\ ~(i <= 0)
<1>1. Acts(r) \in Seq(Kind)
  BY TasksAssumption DEF Acts
<1> QED
  BY <1>1

\* What comes after the last of them has not been left out.
LEMMA PastTheLast ==
    ASSUME NEW r \in Run, NEW n \in Nat, n + 1 \notin DOMAIN Acts(r)
    PROVE  \A i \in DOMAIN Acts(r) : i <= n
<1>1. Acts(r) \in Seq(Kind)
  BY TasksAssumption DEF Acts
<1> QED
  BY <1>1

LEMMA StillWritten ==
    ASSUME ReportInv, RowsKept, NEW q \in Run, Alone(q)
    PROVE  Fresh(q)' /\ Written(q)'
<1>1. \A k \in plan[q] : k \in Key
  BY DEF ReportInv, TypeOK
<1>2. pc[q] \in Holding => key[q] \in Key
  BY DEF ReportInv, Located
<1>3. Fresh(q)'
  BY <1>1, <1>2 DEF ReportInv, Fresh, Alone, Holding
<1>4. \A k \in Key, i \in DOMAIN Acts(q) :
        attempt[<<q, k, i>>] # "none" => attempt'[<<q, k, i>>] # "none"
  BY ActionRows DEF RowsKept
<1>5. \A k \in Key : AllRows(q, k) => AllRows(q, k)'
  BY <1>4 DEF AllRows, Acts
<1>6. seq[q] \in Nat /\ Acts(q)' = Acts(q)
  BY DEF ReportInv, TypeOK, Acts
<1>7. Written(q)'
  <2> SUFFICES ASSUME NEW k \in Key, item'[<<q, k>>] = "pending"
               PROVE  IF pc'[q] \in Holding /\ key'[q] = k
                      THEN /\ pc'[q] # "unwind"
                           /\ RowsSoFar(q)'
                           /\ pc'[q] = "release" => seq'[q] + 1 \notin DOMAIN Acts(q)
                      ELSE AllRows(q, k)'
    BY <1>6 DEF Written
  <2>2. IF pc[q] \in Holding /\ key[q] = k
        THEN /\ pc[q] # "unwind"
             /\ RowsSoFar(q)
             /\ pc[q] = "release" => seq[q] + 1 \notin DOMAIN Acts(q)
        ELSE AllRows(q, k)
    BY DEF ReportInv, Written, Alone
  <2>3. seq'[q] = seq[q] /\ pc'[q] = pc[q] /\ key'[q] = key[q]
    BY DEF Alone
  <2>4. key[q] = k /\ RowsSoFar(q) => RowsSoFar(q)'
    BY <1>4, <2>3 DEF RowsSoFar, Acts
  <2> QED
    BY <1>5, <2>2, <2>3, <2>4
<1> QED
  BY <1>3, <1>7

LEMMA RunWritten ==
    ASSUME ReportInv, TypeOK', Located', RowsKept, NEW r \in Run,
           \A q \in Run : q # r => Alone(q),
           Fresh(r)', Written(r)'
    PROVE  ReportInv'
  BY StillWritten DEF ReportInv

\* A step outside of an item.
LEMMA OutsideWritten ==
    ASSUME ReportInv, TypeOK', Located', RowsKept, NEW r \in Run, NEW l \in Location \ Holding,
           pc[r] \notin Holding, pc' = [pc EXCEPT ![r] = l],
           l \in Undecided => pc[r] \in Undecided,
           \A q \in Run : q # r => key'[q] = key[q] /\ seq'[q] = seq[q] /\ plan'[q] = plan[q],
           \A q \in Run, k \in Key :
               item'[<<q, k>>] = item[<<q, k>>] \/ (q = r /\ item'[<<q, k>>] # "pending"),
           seq'[r] = 0,
           plan'[r] \subseteq plan[r] \/ pc[r] \in Undecided
    PROVE  ReportInv'
<1>1. pc'[r] = l /\ \A q \in Run : q # r => Alone(q)
  BY DEF ReportInv, TypeOK, Alone
<1>2. \A k \in plan'[r] : k \in Key
  BY DEF TypeOK
<1>3. Fresh(r)'
  BY <1>1, <1>2 DEF ReportInv, Fresh, Holding
<1>4. Written(r)'
  <2> SUFFICES ASSUME NEW k \in Key, item'[<<r, k>>] = "pending"
               PROVE  AllRows(r, k)'
    BY <1>1 DEF Written
  <2>1. item[<<r, k>>] = "pending"
    OBVIOUS
  <2>2. AllRows(r, k)
    BY <2>1 DEF ReportInv, Written
  <2> QED
    BY <2>2, ActionRows DEF AllRows, RowsKept, Acts
<1> QED
  BY <1>1, <1>3, <1>4, RunWritten

\* A step within an item that has been verified.
LEMMA WithinWritten ==
    ASSUME ReportInv, TypeOK', Located', RowsKept,
           NEW r \in Run, NEW l \in Holding \ {"verify", "unwind"},
           pc[r] \in Holding \ {"verify"}, pc' = [pc EXCEPT ![r] = l], UNCHANGED <<item, key, plan>>,
           \A q \in Run : q # r => seq'[q] = seq[q],
           item[<<r, key[r]>>] = "pending" /\ RowsSoFar(r) =>
               /\ RowsSoFar(r)'
               /\ l = "release" => seq'[r] + 1 \notin DOMAIN Acts(r)
    PROVE  ReportInv'
<1>1. pc'[r] = l /\ key[r] \in Key /\ Acts(r)' = Acts(r)
  BY DEF ReportInv, TypeOK, Located, Acts
<1>2. \A q \in Run : q # r => Alone(q)
  BY DEF ReportInv, TypeOK, Alone
<1>3. l \notin Undecided
  BY DEF Undecided, Holding
<1>4. Fresh(r)'
  BY <1>1, <1>3 DEF ReportInv, Fresh
<1>5. Written(r)'
  <2> SUFFICES ASSUME NEW k \in Key, item'[<<r, k>>] = "pending"
               PROVE  IF key'[r] = k
                      THEN /\ RowsSoFar(r)'
                           /\ l = "release" => seq'[r] + 1 \notin DOMAIN Acts(r)
                      ELSE AllRows(r, k)'
    BY <1>1 DEF Written
  <2>1. IF key[r] = k THEN RowsSoFar(r) ELSE AllRows(r, k)
    BY DEF ReportInv, Written
  <2>2. CASE key[r] = k
    BY <2>1, <2>2 DEF RowsSoFar
  <2>3. CASE key[r] # k
    BY <2>1, <2>3, ActionRows DEF AllRows, RowsKept, Acts
  <2> QED
    BY <2>2, <2>3
<1> QED
  BY <1>1, <1>2, <1>4, <1>5, RunWritten

\* The same without a row or a cursor being touched.
LEMMA QuietWritten ==
    ASSUME ReportInv, TypeOK', Located', NEW r \in Run, NEW l \in Holding \ {"verify", "unwind", "release"},
           pc[r] \in Holding \ {"verify"}, pc' = [pc EXCEPT ![r] = l],
           UNCHANGED <<item, key, plan, seq>>,
           RowsKept
    PROVE  ReportInv'
<1>1. key[r] \in Key
  BY DEF ReportInv, Located
<1>2. RowsSoFar(r) => RowsSoFar(r)'
  BY <1>1, ActionRows DEF RowsSoFar, RowsKept, Acts
<1> QED
  BY <1>2, WithinWritten

\* An item is taken in hand,
LEMMA ClaimWritten ==
    ASSUME ReportInv, TypeOK', Located', NEW r \in Run, Claim(r)
    PROVE  ReportInv'
<1>1. /\ pc[r] = "pick" /\ pc' = [pc EXCEPT ![r] = "verify"] /\ pc'[r] = "verify"
      /\ NextKey(r) \in plan[r] /\ NextKey(r) \in Key
      /\ key' = [key EXCEPT ![r] = NextKey(r)] /\ key'[r] = NextKey(r)
      /\ plan' = [plan EXCEPT ![r] = @ \ {NextKey(r)}] /\ plan'[r] = plan[r] \ {NextKey(r)}
      /\ UNCHANGED <<item, attempt, seq>>
  BY OldestIsIn DEF Claim, Take, NextKey, Goto, ReportInv, TypeOK
<1>2. \A q \in Run : q # r => Alone(q)
  BY <1>1 DEF Alone, ReportInv, TypeOK
<1>3. Fresh(r)'
  BY <1>1 DEF ReportInv, Fresh, Holding, Undecided
<1>4. Written(r)'
  <2> SUFFICES ASSUME NEW k \in Key, item[<<r, k>>] = "pending" PROVE k # key'[r] /\ AllRows(r, k)'
    BY <1>1 DEF Written
  <2>1. k # key'[r] /\ AllRows(r, k)
    BY <1>1 DEF ReportInv, Fresh, Written, Holding
  <2> QED
    BY <1>1, <2>1 DEF AllRows, Acts
<1> QED
  BY <1>1, <1>2, <1>3, <1>4, RunWritten DEF RowsKept

\* re-verified,
LEMMA VerifyWritten ==
    ASSUME ReportInv, TypeOK', Located', NEW r \in Run,
           NEW s \in ItemStatus, NEW l \in {"retire", "release", "next"},
           s = "pending" => l = "next",
           pc[r] = "verify", pc' = [pc EXCEPT ![r] = l],
           item' = [item EXCEPT ![<<r, key[r]>>] = s], UNCHANGED <<attempt, key, plan, seq>>
    PROVE  ReportInv'
<1>1. pc'[r] = l /\ key[r] \in Key /\ key[r] \notin plan[r] /\ seq[r] = 0
  BY DEF ReportInv, TypeOK, Located, Fresh, Holding
<1>2. \A q \in Run, k \in Key : item'[<<q, k>>] = IF q = r /\ k = key[r] THEN s ELSE item[<<q, k>>]
  BY <1>1 DEF ReportInv, TypeOK
<1>3. \A q \in Run : q # r => Alone(q)
  BY <1>2 DEF Alone, ReportInv, TypeOK
<1>4. \A k \in plan[r] : k \in Key /\ item'[<<r, k>>] # "pending"
  BY <1>1, <1>2 DEF ReportInv, Fresh, TypeOK
<1>5. Fresh(r)'
  BY <1>1, <1>4 DEF Fresh, Holding, Undecided
<1>6. Written(r)'
  <2> SUFFICES ASSUME NEW k \in Key, item'[<<r, k>>] = "pending"
               PROVE  IF key[r] = k THEN l = "next" /\ RowsSoFar(r)' ELSE AllRows(r, k)'
    BY <1>1 DEF Written, Holding
  <2>1. CASE key[r] = k
    BY <1>1, <1>2, <2>1, ActsFromOne DEF RowsSoFar, Acts
  <2>2. CASE key[r] # k
    <3>1. AllRows(r, k)
      BY <1>2, <2>2 DEF ReportInv, Written
    <3> QED
      BY <2>2, <3>1 DEF AllRows, Acts
  <2> QED
    BY <2>1, <2>2
<1> QED
  BY <1>3, <1>5, <1>6, RunWritten DEF RowsKept

\* or given up by an exception before that,
LEMMA ErrorWritten ==
    ASSUME ReportInv, TypeOK', Located', NEW r \in Run, VerifyError(r)
    PROVE  ReportInv'
<1>1. /\ pc[r] = "verify" /\ pc' = [pc EXCEPT ![r] = "unwind"] /\ pc'[r] = "unwind"
      /\ UNCHANGED <<item, attempt, key, plan, seq>>
  BY DEF VerifyError, Goto, store, job, ReportInv, TypeOK
<1>2. \A q \in Run : q # r => Alone(q)
  BY <1>1 DEF Alone, ReportInv, TypeOK
<1>3. Fresh(r)'
  BY <1>1 DEF ReportInv, Fresh, Holding, Undecided
<1>4. Written(r)'
  <2> SUFFICES ASSUME NEW k \in Key, item[<<r, k>>] = "pending" PROVE k # key[r] /\ AllRows(r, k)'
    BY <1>1 DEF Written
  <2>1. k # key[r] /\ AllRows(r, k)
    BY <1>1 DEF ReportInv, Fresh, Written, Holding
  <2> QED
    BY <1>1, <2>1 DEF AllRows, Acts
<1> QED
  BY <1>1, <1>2, <1>3, <1>4, RunWritten DEF RowsKept

\* and let go of when all its rows are there.
LEMMA LetGoWritten ==
    ASSUME ReportInv, TypeOK', Located', NEW r \in Run, NEW l \in {"pick", "finish", "done"},
           pc[r] \in {"release", "unwind"}, pc' = [pc EXCEPT ![r] = l],
           seq' = [seq EXCEPT ![r] = 0], UNCHANGED <<item, attempt>>,
           plan'[r] \subseteq plan[r],
           \A q \in Run : q # r => key'[q] = key[q] /\ plan'[q] = plan[q]
    PROVE  ReportInv'
<1>1. pc'[r] = l /\ seq'[r] = 0 /\ seq[r] \in Nat /\ key[r] \in Key
  BY DEF ReportInv, TypeOK, Located, Holding
<1>2. \A q \in Run : q # r => Alone(q)
  BY DEF Alone, ReportInv, TypeOK
<1>3. Fresh(r)'
  BY <1>1 DEF ReportInv, Fresh, Holding, Undecided
<1>4. Written(r)'
  <2> SUFFICES ASSUME NEW k \in Key, item[<<r, k>>] = "pending" PROVE AllRows(r, k)'
    BY <1>1 DEF Written, Holding
  <2>1. CASE key[r] = k
    <3>1. RowsSoFar(r) /\ seq[r] + 1 \notin DOMAIN Acts(r)
      BY <2>1 DEF ReportInv, Written, Holding
    <3>2. \A i \in DOMAIN Acts(r) : i <= seq[r]
      BY <1>1, <3>1, PastTheLast
    <3> QED
      BY <2>1, <3>1, <3>2 DEF RowsSoFar, AllRows, Acts
  <2>2. CASE key[r] # k
    <3>1. AllRows(r, k)
      BY <2>2 DEF ReportInv, Written
    <3> QED
      BY <3>1 DEF AllRows, Acts
  <2> QED
    BY <2>1, <2>2
<1> QED
  BY <1>2, <1>3, <1>4, RunWritten DEF RowsKept

\* Each row goes on the list before its action is begun.
LEMMA InsertWritten ==
    ASSUME ReportInv, TypeOK', Located', NEW r \in Run, Insert(r)
    PROVE  ReportInv'
<1> DEFINE y == <<r, key[r], seq[r] + 1>>
<1>1. PICK l \in {"pending", "next"}, s \in {"pending", "skipped"} :
        /\ pc[r] = "next" /\ pc' = [pc EXCEPT ![r] = l]
        /\ attempt' = [attempt EXCEPT ![y] = s]
        /\ seq' = [seq EXCEPT ![r] = @ + 1] /\ seq[r] + 1 \in DOMAIN Acts(r)
        /\ UNCHANGED <<item, key, plan>>
  BY DEF Insert, Goto
<1>2. key[r] \in Key /\ seq[r] \in Nat /\ seq'[r] = seq[r] + 1 /\ y \in Row
  BY <1>1, ActionRows DEF ReportInv, TypeOK, Located, Holding
<1>3. attempt \in [Row -> AttemptState]
  BY DEF ReportInv, TypeOK
<1>4. attempt'[y] # "none" /\ \A x \in Row : x # y => attempt'[x] = attempt[x]
  BY <1>1, <1>2, <1>3
<1>5. RowsKept
  BY <1>4 DEF RowsKept
<1>6. RowsSoFar(r) => RowsSoFar(r)'
  <2> SUFFICES ASSUME RowsSoFar(r), NEW i \in DOMAIN Acts(r), i <= seq[r] + 1
               PROVE  attempt'[<<r, key[r], i>>] # "none"
    BY <1>1, <1>2 DEF RowsSoFar, Acts
  <2>1. CASE i = seq[r] + 1
    BY <2>1, <1>4
  <2>2. CASE i # seq[r] + 1
    <3>1. i <= seq[r]
      BY <2>2, <1>2, TasksAssumption DEF Acts
    <3>2. attempt[<<r, key[r], i>>] # "none"
      BY <3>1 DEF RowsSoFar
    <3> QED
      BY <3>2, <1>2, <1>5, ActionRows DEF RowsKept
  <2> QED
    BY <2>1, <2>2
<1>7. \A q \in Run : q # r => seq'[q] = seq[q]
  BY <1>1 DEF ReportInv, TypeOK
<1> QED
  BY <1>1, <1>5, <1>6, <1>7, WithinWritten DEF Holding

LEMMA InitWritten == Init => ReportInv
<1> SUFFICES ASSUME Init PROVE ReportInv
  OBVIOUS
<1>1. TypeOK /\ Located
  BY InitTyped
<1> QED
  BY <1>1 DEF Init, ReportInv, Fresh, Written, Holding

LEMMA WrittenStep ==
    ASSUME Uninterrupted, ReportInv, [Next]_vars
    PROVE  ReportInv'
<1>0. TypeOK' /\ Located'
  BY NextTyped DEF ReportInv
<1>1. ASSUME NEW r \in Run, Begin(r) PROVE ReportInv'
  <2>1. /\ pc[r] = "idle" /\ pc' = [pc EXCEPT ![r] = "reconcile"] /\ UNCHANGED <<item, seq>>
        /\ \A q \in Run : q # r => key'[q] = key[q] /\ plan'[q] = plan[q]
        /\ seq[r] = 0
    BY <1>1 DEF Begin, Goto, store, job, ReportInv, TypeOK, Fresh, Holding
  <2>2. RowsKept
    BY <1>1 DEF Begin, store, RowsKept, ReportInv, TypeOK
  <2> QED
    BY <1>0, <2>1, <2>2, OutsideWritten DEF Location, Live, Holding, Undecided
<1>2. ASSUME NEW r \in Run, Busy(r) PROVE ReportInv'
  <2>1. /\ pc[r] = "idle" /\ pc' = [pc EXCEPT ![r] = "done"] /\ UNCHANGED <<item, seq>>
        /\ \A q \in Run : q # r => key'[q] = key[q] /\ plan'[q] = plan[q]
        /\ seq[r] = 0
    BY <1>2 DEF Busy, Goto, store, job, ReportInv, TypeOK, Fresh, Holding
  <2>2. RowsKept
    BY <1>2 DEF Busy, store, RowsKept, ReportInv, TypeOK
  <2> QED
    BY <1>0, <2>1, <2>2, OutsideWritten DEF Location, Live, Holding, Undecided
<1>3. ASSUME NEW r \in Run, CloseRow(r) PROVE ReportInv'
  <2>1. /\ pc[r] = "reconcile" /\ pc' = [pc EXCEPT ![r] = "unclaim"] /\ UNCHANGED <<item, seq>>
        /\ \A q \in Run : q # r => key'[q] = key[q] /\ plan'[q] = plan[q]
        /\ seq[r] = 0
    BY <1>3 DEF CloseRow, Goto, job, ReportInv, TypeOK, Fresh, Holding
  <2>2. RowsKept
    BY <1>3 DEF CloseRow, Verdicts, RowsKept, ReportInv, TypeOK
  <2> QED
    BY <1>0, <2>1, <2>2, OutsideWritten DEF Location, Live, Holding, Undecided
<1>4. ASSUME NEW r \in Run, Unclaim(r) PROVE ReportInv'
  <2>1. /\ pc[r] = "unclaim" /\ pc' = [pc EXCEPT ![r] = "reconcile"] /\ UNCHANGED <<item, seq>>
        /\ \A q \in Run : q # r => key'[q] = key[q] /\ plan'[q] = plan[q]
        /\ seq[r] = 0
    BY <1>4 DEF Unclaim, Goto, job, ReportInv, TypeOK, Fresh, Holding
  <2>2. RowsKept
    BY <1>4 DEF Unclaim, store, RowsKept, ReportInv, TypeOK
  <2> QED
    BY <1>0, <2>1, <2>2, OutsideWritten DEF Location, Live, Holding, Undecided
<1>5. ASSUME NEW r \in Run, Scan(r) PROVE ReportInv'
  <2>1. /\ pc[r] = "reconcile" /\ pc' = [pc EXCEPT ![r] = "load"] /\ UNCHANGED <<item, seq>>
        /\ \A q \in Run : q # r => key'[q] = key[q] /\ plan'[q] = plan[q]
        /\ seq[r] = 0
    BY <1>5 DEF Scan, Goto, job, ReportInv, TypeOK, Fresh, Holding
  <2>2. RowsKept
    BY <1>5 DEF Scan, store, RowsKept, ReportInv, TypeOK
  <2> QED
    BY <1>0, <2>1, <2>2, OutsideWritten DEF Location, Live, Holding, Undecided
<1>6. ASSUME NEW r \in Run, Load(r) PROVE ReportInv'
  <2>1. /\ pc[r] = "load" /\ pc' = [pc EXCEPT ![r] = "decide"] /\ UNCHANGED <<item, seq>>
        /\ \A q \in Run : q # r => key'[q] = key[q] /\ plan'[q] = plan[q]
        /\ seq[r] = 0
    BY <1>6 DEF Load, Goto, store, job, ReportInv, TypeOK, Fresh, Holding
  <2>2. RowsKept
    BY <1>6 DEF Load, store, RowsKept, ReportInv, TypeOK
  <2> QED
    BY <1>0, <2>1, <2>2, OutsideWritten DEF Location, Live, Holding, Undecided
<1>7. ASSUME NEW r \in Run, Decide(r) PROVE ReportInv'
  <2>1. /\ pc[r] = "decide" /\ pc' = [pc EXCEPT ![r] = "pick"] /\ UNCHANGED <<attempt, key, seq>>
        /\ \A q \in Run : q # r => plan'[q] = plan[q]
        /\ seq[r] = 0
    BY <1>7 DEF Decide, Goto, ReportInv, TypeOK, Fresh, Holding
  <2>2. \A q \in Run, k \in Key :
          item'[<<q, k>>] = item[<<q, k>>] \/ (q = r /\ item'[<<q, k>>] # "pending")
    BY <1>7 DEF Decide, ReportInv, TypeOK
  <2> QED
    BY <1>0, <2>1, <2>2, OutsideWritten DEF Location, Live, Holding, Undecided, RowsKept
<1>8. ASSUME NEW r \in Run, SkipCapped(r) PROVE ReportInv'
  <2>1. /\ pc[r] = "pick" /\ pc' = [pc EXCEPT ![r] = "pick"] /\ UNCHANGED <<key, seq>>
        /\ \A q \in Run : q # r => plan'[q] = plan[q]
        /\ plan'[r] \subseteq plan[r]
        /\ seq[r] = 0
    BY <1>8 DEF SkipCapped, Take, ReportInv, TypeOK, Fresh, Holding
  <2>2. \A q \in Run, k \in Key :
          item'[<<q, k>>] = item[<<q, k>>] \/ (q = r /\ item'[<<q, k>>] # "pending")
    BY <1>8 DEF SkipCapped, ReportInv, TypeOK
  <2>3. RowsKept
    BY <1>8 DEF SkipCapped, RowsKept, ReportInv, TypeOK
  <2> QED
    BY <1>0, <2>1, <2>2, <2>3, OutsideWritten DEF Location, Live, Holding, Undecided
<1>9. ASSUME NEW r \in Run, Preview(r) PROVE ReportInv'
  <2>1. /\ pc[r] = "pick" /\ pc' = [pc EXCEPT ![r] = "pick"] /\ UNCHANGED <<key, seq>>
        /\ \A q \in Run : q # r => plan'[q] = plan[q]
        /\ plan'[r] \subseteq plan[r]
        /\ seq[r] = 0
    BY <1>9 DEF Preview, Take, ReportInv, TypeOK, Fresh, Holding
  <2>2. \A q \in Run, k \in Key :
          item'[<<q, k>>] = item[<<q, k>>] \/ (q = r /\ item'[<<q, k>>] # "pending")
    BY <1>9 DEF Preview, ReportInv, TypeOK
  <2>3. RowsKept
    BY <1>9 DEF Preview, RowsKept, ReportInv, TypeOK
  <2> QED
    BY <1>0, <2>1, <2>2, <2>3, OutsideWritten DEF Location, Live, Holding, Undecided
<1>10. ASSUME NEW r \in Run, ClaimRefused(r) PROVE ReportInv'
  <2>1. /\ pc[r] = "pick" /\ pc' = [pc EXCEPT ![r] = "pick"] /\ UNCHANGED <<key, seq>>
        /\ \A q \in Run : q # r => plan'[q] = plan[q]
        /\ plan'[r] \subseteq plan[r]
        /\ seq[r] = 0
    BY <1>10 DEF ClaimRefused, Take, ReportInv, TypeOK, Fresh, Holding
  <2>2. \A q \in Run, k \in Key :
          item'[<<q, k>>] = item[<<q, k>>] \/ (q = r /\ item'[<<q, k>>] # "pending")
    BY <1>10 DEF ClaimRefused, ReportInv, TypeOK
  <2>3. RowsKept
    BY <1>10 DEF ClaimRefused, RowsKept, ReportInv, TypeOK
  <2> QED
    BY <1>0, <2>1, <2>2, <2>3, OutsideWritten DEF Location, Live, Holding, Undecided
<1>11. ASSUME NEW r \in Run, DropUnsupported(r) PROVE ReportInv'
  <2>1. /\ pc[r] = "pick" /\ pc' = [pc EXCEPT ![r] = "pick"] /\ UNCHANGED <<key, seq>>
        /\ \A q \in Run : q # r => plan'[q] = plan[q]
        /\ plan'[r] \subseteq plan[r]
        /\ seq[r] = 0
    <3>1. /\ pc[r] = "pick" /\ UNCHANGED <<pc, key, seq>> /\ pc \in [Run -> Location]
          /\ \E k \in plan[r] : plan' = [plan EXCEPT ![r] = @ \ {k}]
      BY <1>11 DEF DropUnsupported, ReportInv, TypeOK
    <3>2. seq[r] = 0 /\ plan \in [Run -> SUBSET Key]
      BY <3>1 DEF ReportInv, TypeOK, Fresh, Holding
    <3> QED
      BY <3>1, <3>2
  <2>2. \A q \in Run, k \in Key :
          item'[<<q, k>>] = item[<<q, k>>] \/ (q = r /\ item'[<<q, k>>] # "pending")
    BY <1>11 DEF DropUnsupported, ReportInv, TypeOK
  <2>3. RowsKept
    BY <1>11 DEF DropUnsupported, RowsKept, ReportInv, TypeOK
  <2> QED
    BY <1>0, <2>1, <2>2, <2>3, OutsideWritten DEF Location, Live, Holding, Undecided
<1>12. ASSUME NEW r \in Run, Finish(r) PROVE ReportInv'
  <2>1. /\ pc[r] \notin Holding /\ pc' = [pc EXCEPT ![r] = "done"] /\ UNCHANGED <<item, attempt>>
        /\ \A q \in Run : q # r => key'[q] = key[q] /\ seq'[q] = seq[q] /\ plan'[q] = plan[q]
        /\ seq'[r] = 0 /\ plan'[r] = {}
    BY <1>12 DEF Finish, End, ResetItem, Goto, store, ReportInv, TypeOK, Holding
  <2> QED
    BY <1>0, <2>1, OutsideWritten DEF Location, Undecided, Holding, Live, RowsKept
<1>13. ASSUME NEW r \in Run, Abort(r) PROVE ReportInv'
  <2>1. /\ pc[r] \notin Holding /\ pc' = [pc EXCEPT ![r] = "done"] /\ UNCHANGED <<item, attempt>>
        /\ \A q \in Run : q # r => key'[q] = key[q] /\ seq'[q] = seq[q] /\ plan'[q] = plan[q]
        /\ seq'[r] = 0 /\ plan'[r] = {}
    BY <1>13 DEF Abort, End, ResetItem, Goto, store, ReportInv, TypeOK, Holding
  <2> QED
    BY <1>0, <2>1, OutsideWritten DEF Location, Undecided, Holding, Live, RowsKept
<1>14. ASSUME NEW r \in Run, Claim(r) PROVE ReportInv'
  BY <1>0, <1>14, ClaimWritten
<1>15. ASSUME NEW r \in Run, VerifyVanished(r) PROVE ReportInv'
  BY <1>0, <1>15, VerifyWritten DEF VerifyVanished, Goto, job, ItemStatus
<1>16. ASSUME NEW r \in Run, VerifyChanged(r) PROVE ReportInv'
  BY <1>0, <1>16, VerifyWritten DEF VerifyChanged, Goto, job, ItemStatus
<1>17. ASSUME NEW r \in Run, VerifyProtected(r) PROVE ReportInv'
  BY <1>0, <1>17, VerifyWritten DEF VerifyProtected, Goto, job, ItemStatus
<1>18. ASSUME NEW r \in Run, VerifyOk(r) PROVE ReportInv'
  BY <1>0, <1>18, VerifyWritten DEF VerifyOk, Goto, job, ItemStatus
<1>19. ASSUME NEW r \in Run, VerifyError(r) PROVE ReportInv'
  BY <1>0, <1>19, ErrorWritten
<1>20. ASSUME NEW r \in Run, Insert(r) PROVE ReportInv'
  BY <1>0, <1>20, InsertWritten
<1>21. ASSUME NEW r \in Run, Start(r) PROVE ReportInv'
  <2>1. /\ pc[r] \in {"pending"} /\ pc' = [pc EXCEPT ![r] = "in_flight"]
          /\ UNCHANGED <<item, key, plan, seq>>
    BY <1>21 DEF Start, Goto, store, job
  <2>2. RowsKept
    BY <1>21 DEF Start, RowsKept, store, ReportInv, TypeOK, Outcome
  <2> QED
    BY <1>0, <2>1, <2>2, QuietWritten DEF Holding
<1>22. ASSUME NEW r \in Run, Exists(r) PROVE ReportInv'
  <2>1. /\ pc[r] \in {"in_flight"} /\ pc' = [pc EXCEPT ![r] = "checked"]
          /\ UNCHANGED <<item, key, plan, seq>>
    BY <1>22 DEF Exists, Goto, store, job, Performing
  <2>2. RowsKept
    BY <1>22 DEF Exists, RowsKept, store
  <2> QED
    BY <1>0, <2>1, <2>2, QuietWritten DEF Holding
<1>23. ASSUME NEW r \in Run, DoBackup(r) PROVE ReportInv'
  <2>1. /\ pc[r] \in {"in_flight"} /\ pc' = [pc EXCEPT ![r] = "effect"]
          /\ UNCHANGED <<item, key, plan, seq>>
    BY <1>23 DEF DoBackup, Goto, store, job, Performing, Ends
  <2>2. RowsKept
    BY <1>23 DEF DoBackup, RowsKept, store
  <2> QED
    BY <1>0, <2>1, <2>2, QuietWritten DEF Holding
<1>24. ASSUME NEW r \in Run, DoRoute(r) PROVE ReportInv'
  <2>1. /\ pc[r] \in {"in_flight"} /\ pc' = [pc EXCEPT ![r] = "effect"]
          /\ UNCHANGED <<item, key, plan, seq>>
    BY <1>24 DEF DoRoute, Goto, store, job, Performing, Ends
  <2>2. RowsKept
    BY <1>24 DEF DoRoute, RowsKept, store
  <2> QED
    BY <1>0, <2>1, <2>2, QuietWritten DEF Holding
<1>25. ASSUME NEW r \in Run, MutationVanished(r) PROVE ReportInv'
  <2>1. /\ pc[r] \in {"in_flight"} /\ pc' = [pc EXCEPT ![r] = "effect"]
          /\ UNCHANGED <<item, key, plan, seq>>
    BY <1>25 DEF MutationVanished, Goto, store, job, Performing, Ends
  <2>2. RowsKept
    BY <1>25 DEF MutationVanished, RowsKept, store
  <2> QED
    BY <1>0, <2>1, <2>2, QuietWritten DEF Holding
<1>26. ASSUME NEW r \in Run, Unsupported(r) PROVE ReportInv'
  <2>1. /\ pc[r] \in {"in_flight"} /\ pc' = [pc EXCEPT ![r] = "effect"]
          /\ UNCHANGED <<item, key, plan, seq>>
    BY <1>26 DEF Unsupported, Goto, store, job, Performing, Ends
  <2>2. RowsKept
    BY <1>26 DEF Unsupported, RowsKept, store
  <2> QED
    BY <1>0, <2>1, <2>2, QuietWritten DEF Holding
<1>27. ASSUME NEW r \in Run, DoLabel(r) PROVE ReportInv'
  <2>1. /\ pc[r] \in {"checked"} /\ pc' = [pc EXCEPT ![r] = "effect"]
          /\ UNCHANGED <<item, key, plan, seq>>
    BY <1>27 DEF DoLabel, Goto, store, job, Sending, Ends
  <2>2. RowsKept
    BY <1>27 DEF DoLabel, RowsKept, store
  <2> QED
    BY <1>0, <2>1, <2>2, QuietWritten DEF Holding
<1>28. ASSUME NEW r \in Run, DoMove(r) PROVE ReportInv'
  <2>1. /\ pc[r] \in {"checked"} /\ pc' = [pc EXCEPT ![r] = "effect"]
          /\ UNCHANGED <<item, key, plan, seq>>
    BY <1>28 DEF DoMove, Goto, store, job, Sending, Ends
  <2>2. RowsKept
    BY <1>28 DEF DoMove, RowsKept, store
  <2> QED
    BY <1>0, <2>1, <2>2, QuietWritten DEF Holding
<1>29. ASSUME NEW r \in Run, Refused(r) PROVE ReportInv'
  <2>1. /\ pc[r] \in {"in_flight", "checked"} /\ pc' = [pc EXCEPT ![r] = "effect"]
          /\ UNCHANGED <<item, key, plan, seq>>
    BY <1>29 DEF Refused, Goto, store, job, Performing, Sending, Ends
  <2>2. RowsKept
    BY <1>29 DEF Refused, RowsKept, store
  <2> QED
    BY <1>0, <2>1, <2>2, QuietWritten DEF Holding
<1>30. ASSUME NEW r \in Run, Record(r) PROVE ReportInv'
  <2>1. PICK l \in {"retire", "next"} : /\ pc[r] \in {"effect"} /\ pc' = [pc EXCEPT ![r] = l]
          /\ UNCHANGED <<item, key, plan, seq>>
    BY <1>30 DEF Record, Goto, store, job
  <2>2. RowsKept
    BY <1>30 DEF Record, RowsKept, store, ReportInv, TypeOK, Outcome
  <2> QED
    BY <1>0, <2>1, <2>2, QuietWritten DEF Holding
<1>31. ASSUME NEW r \in Run, Retire(r) PROVE ReportInv'
  <2>1. pc[r] = "retire" /\ UNCHANGED <<item, attempt, key, plan, seq>>
    BY <1>31 DEF Retire, job
  <2>2. RowsSoFar(r) => RowsSoFar(r)'
    BY <2>1 DEF RowsSoFar, Acts
  <2>3. PICK l \in {"release", "next"} :
          /\ pc' = [pc EXCEPT ![r] = l]
          /\ l = "release" => item[<<r, key[r]>>] = "vanished"
    BY <1>31 DEF Retire, Goto
  <2> QED
    BY <1>0, <2>1, <2>2, <2>3, WithinWritten DEF Holding, RowsKept
<1>32. ASSUME NEW r \in Run, SequenceDone(r) PROVE ReportInv'
  <2>1. /\ pc[r] = "next" /\ pc' = [pc EXCEPT ![r] = "release"]
        /\ UNCHANGED <<item, attempt, key, plan, seq>>
        /\ seq[r] + 1 \notin DOMAIN Acts(r)
    BY <1>32 DEF SequenceDone, Goto, store, job
  <2>2. RowsSoFar(r) => RowsSoFar(r)'
    BY <2>1 DEF RowsSoFar, Acts
  <2> QED
    BY <1>0, <2>1, <2>2, WithinWritten DEF Holding, RowsKept
<1>33. ASSUME NEW r \in Run, Release(r) PROVE ReportInv'
  <2>1. PICK l \in {"pick", "finish"} : /\ pc[r] = "release" /\ pc' = [pc EXCEPT ![r] = l]
          /\ seq' = [seq EXCEPT ![r] = 0] /\ UNCHANGED <<item, attempt, plan>>
          /\ \A q \in Run : q # r => key'[q] = key[q]
    BY <1>33 DEF Release, ResetItem, Goto, ReportInv, TypeOK
  <2> QED
    BY <1>0, <2>1, LetGoWritten
<1>34. ASSUME NEW r \in Run, Unwind(r) PROVE ReportInv'
  <2>1. /\ pc[r] = "unwind" /\ pc' = [pc EXCEPT ![r] = "done"]
        /\ seq' = [seq EXCEPT ![r] = 0] /\ UNCHANGED <<item, attempt>> /\ plan'[r] = {}
        /\ \A q \in Run : q # r => key'[q] = key[q] /\ plan'[q] = plan[q]
    BY <1>34 DEF Unwind, End, ResetItem, Goto, ReportInv, TypeOK
  <2> QED
    BY <1>0, <2>1, LetGoWritten
<1>35. ASSUME NEW r \in Run, Crash(r) \/ Interrupt(r) PROVE ReportInv'
  BY <1>35 DEF Crash, Interrupt, Uninterrupted
<1>36. ASSUME Environment PROVE ReportInv'
  <2>1. \A q \in Run : Alone(q)
    BY <1>36 DEF Environment, Others, Arrive, Flag, Unflag, Remove, Renumber, store, job, Alone
  <2>2. RowsKept
    BY <1>36 DEF Environment, Others, Arrive, Flag, Unflag, Remove, Renumber, store, RowsKept
  <2> QED
    BY <1>0, <2>1, <2>2, StillWritten DEF ReportInv
<1>37. CASE UNCHANGED vars
  <2>1. \A q \in Run : Alone(q)
    BY <1>37 DEF vars, store, job, Alone
  <2>2. RowsKept
    BY <1>37 DEF vars, store, RowsKept
  <2> QED
    BY <1>0, <2>1, <2>2, StillWritten DEF ReportInv
<1> QED
  BY <1>1, <1>2, <1>3, <1>4, <1>5, <1>6, <1>7, <1>8, <1>9, <1>10, <1>11, <1>12, <1>13,
     <1>14, <1>15, <1>16, <1>17, <1>18, <1>19, <1>20, <1>21, <1>22, <1>23, <1>24, <1>25,
     <1>26, <1>27, <1>28, <1>29, <1>30, <1>31, <1>32, <1>33, <1>34, <1>35, <1>36, <1>37
  DEF Next, Step, Fault, Phases, Pick, Verify, Perform, RunActions, Failure

\* As long as no process is killed or stopped by a signal or by an error that
\* escapes an item, whichever actions fail and whatever replies are lost, an
\* item that report shows as completed had every action of its rule carried out.
THEOREM ReportStaysHonest ==
    ASSUME Uninterrupted PROVE Spec => []ReportHonest
<1>1. Init => ReportInv
  BY InitWritten
<1>2. ReportInv /\ [Next]_vars => ReportInv'
  BY WrittenStep
<1>3. ReportInv => ReportHonest
  <2> SUFFICES ASSUME ReportInv, NEW r \in Run, NEW k \in Key, pc[r] \in {"done", "dead"},
                      EffectiveStatus(r, k) = "completed", NEW i \in DOMAIN Acts(r)
               PROVE  attempt[<<r, k, i>>] = "completed"
    BY DEF ReportHonest
  <2>1. item[<<r, k>>] # "completed"
    BY DEF ReportInv, TypeOK, ItemStatus
  <2>2. item[<<r, k>>] = "pending" /\ RowStates(r, k) = {"completed"}
    BY <2>1 DEF EffectiveStatus
  <2>3. attempt[<<r, k, i>>] # "none"
    BY <2>2 DEF ReportInv, Written, AllRows, Holding
  <2> QED
    BY <2>2, <2>3 DEF RowStates
<1> QED
  BY <1>1, <1>2, <1>3, PTL DEF Spec
----------------------------------------------------------------------------
Moves(r) == \E i \in DOMAIN Acts(r) : Acts(r)[i] = "move"

\* The runs that move mail are all of one task, hear what becomes of it, and find
\* the mailboxes numbered as they were.
OneMover == \A q, r \in Run : Moves(q) /\ Moves(r) => TaskOf[q] = TaskOf[r]
Heard == {"lost_reply", "error"} \cap Faults = {}
NeverRenumbered == "renumber" \notin Faults

\* A message is not there twice.
NoTwin ==
    \A j, k \in Key : j # k /\ Holds[j] = Holds[k] => ~(Present(j) /\ Present(k))

\* A move that was made is on record as completed, or will be by its run or by
\* the reconcile pass of the next.
Settled(x) ==
    \/ attempt[x] = "completed"
    \/ /\ attempt[x] = "in_flight"
       /\ pc[x[1]] \in AtAttempt /\ Cursor(x[1]) = x
             => pc[x[1]] = "effect" /\ final[x[1]] = "completed"
MovedOnRecord ==
    \A k \in Key : server[k] = "moved" =>
        \E x \in Row : /\ x[2] = k
                       /\ x[3] \in DOMAIN Acts(x[1])
                       /\ KindOf(x) = "move"
                       /\ Settled(x)

\* What a run may still move is not a message that was moved before, unless it
\* has left again.
InWork(r) ==
    (IF pc[r] \in Holding \cup {"pick"} THEN plan[r] ELSE {})
        \cup (IF pc[r] \in Holding THEN {key[r]} ELSE {})
NotMovedBefore(r) ==
    \A k \in InWork(r), j \in Key :
        j # k /\ Holds[j] = Holds[k] /\ server[j] = "moved" => ~Present(k)

RestInv ==
    /\ HistInv
    /\ MailInv
    /\ NoTwin
    /\ MovedOnRecord
    /\ \A r \in Run : Moves(r) => NotMovedBefore(r)
    /\ RestoredRespected
----------------------------------------------------------------------------
(* What the steps have in common.                                          *)

\* A run moves on by itself: it takes nothing else in hand, comes to an open
\* row only by writing it, and what it closes it closes with its result.
MovesOn(r) ==
    /\ \A q \in Run : q # r =>
          /\ pc'[q] = pc[q] /\ key'[q] = key[q] /\ seq'[q] = seq[q]
          /\ final'[q] = final[q] /\ plan'[q] = plan[q]
    /\ \A x \in Row : attempt[x] = "in_flight" =>
          \/ attempt'[x] = "in_flight"
          \/ pc[r] = "effect" /\ x = Cursor(r) /\ attempt'[x] = final[r]
    /\ pc'[r] \in AtAttempt =>
          \/ attempt[<<r, key'[r], seq'[r]>>] # "in_flight"
          \/ pc[r] \in {"in_flight", "checked"} /\ key'[r] = key[r] /\ seq'[r] = seq[r]
    /\ InWork(r)' \subseteq InWork(r)

\* What becomes of the record of a move,
SettledStays ==
    \A x \in Row : x[3] \in DOMAIN Acts(x[1]) /\ KindOf(x) = "move"
                   /\ server[x[2]] = "moved" /\ Settled(x)
        => Settled(x)'
\* and of what the runs have in hand.
WorkShrinks == \A q \in Run : InWork(q)' \subseteq InWork(q)

\* No message comes under a key that was in use, and none is moved.
MailQuiet ==
    \A k \in Key : /\ server[k] # "absent" /\ Present(k)' => Present(k)
                   /\ server'[k] = "moved" => server[k] = "moved"

LEMMA MovesOnKeeps ==
    ASSUME RestInv, TerminalStays, NEW r \in Run, MovesOn(r)
    PROVE  SettledStays /\ WorkShrinks
<1> USE RowParts
<1>1. WorkShrinks
  BY DEF WorkShrinks, MovesOn, InWork
<1>2. SettledStays
  <2> SUFFICES ASSUME NEW x \in Row, Settled(x) PROVE Settled(x)'
    BY DEF SettledStays
  <2>1. CASE attempt[x] = "completed"
    BY <2>1 DEF TerminalStays, Terminal, AttemptState, Settled
  <2>2. CASE attempt[x] = "in_flight" /\ attempt'[x] # "in_flight"
    BY <2>2 DEF MovesOn, Settled, AtAttempt, Cursor
  <2>3. CASE attempt[x] = "in_flight" /\ attempt'[x] = "in_flight"
    <3>1. CASE x[1] # r
      BY <2>3, <3>1 DEF MovesOn, Settled, Cursor
    <3>2. CASE x[1] = r
      <4>1. pc[r] \in AtAttempt /\ Cursor(r) = x => pc[r] = "effect" /\ final[r] = "completed"
        BY <2>3, <3>2 DEF Settled
      <4>2. ~(pc'[r] \in AtAttempt /\ <<r, key'[r], seq'[r]>> = x)
        BY <2>3, <4>1 DEF MovesOn, Cursor, AtAttempt
      <4> QED
        BY <2>3, <3>2, <4>2 DEF Settled, Cursor
    <3> QED
      BY <3>1, <3>2
  <2> QED
    BY <2>1, <2>2, <2>3 DEF Settled
<1> QED
  BY <1>1, <1>2

\* What a run has in hand was on the server once.
LEMMA WorkIsSeen ==
    ASSUME MailInv, NEW r \in Run, NEW k \in InWork(r)
    PROVE  k \in Key /\ server[k] # "absent"
  BY DEF MailInv, TypeOK, Located, Known, Seen, InWork

\* As long as nothing is moved, nothing else is needed.
LEMMA QuietRest ==
    ASSUME RestInv, HistInv', MailInv', MailQuiet, NoTwin', SettledStays, WorkShrinks
    PROVE  RestInv'
<1>1. MovedOnRecord'
  <2> SUFFICES ASSUME NEW k \in Key, server'[k] = "moved"
               PROVE  \E x \in Row : /\ x[2] = k
                                     /\ x[3] \in DOMAIN Acts(x[1])
                                     /\ KindOf(x) = "move"
                                     /\ Settled(x)'
    BY DEF MovedOnRecord, KindOf, Acts
  <2>1. PICK x \in Row : /\ x[2] = k
                         /\ x[3] \in DOMAIN Acts(x[1])
                         /\ KindOf(x) = "move"
                         /\ Settled(x)
    BY DEF MailQuiet, RestInv, MovedOnRecord
  <2> QED
    BY <2>1 DEF SettledStays, MailQuiet
<1>2. \A r \in Run : Moves(r)' => NotMovedBefore(r)'
  <2> SUFFICES ASSUME NEW r \in Run, Moves(r), NEW k \in InWork(r)', NEW j \in Key,
                      j # k, Holds[j] = Holds[k], server'[j] = "moved", Present(k)'
               PROVE  FALSE
    BY DEF NotMovedBefore, Moves, Acts
  <2>1. k \in InWork(r)
    BY DEF WorkShrinks
  <2>2. k \in Key /\ server[k] # "absent"
    BY <2>1, WorkIsSeen DEF RestInv
  <2> QED
    BY <2>1, <2>2 DEF MailQuiet, RestInv, NotMovedBefore
<1>3. RestoredRespected'
  BY DEF MailQuiet, RestInv, RestoredRespected
<1> QED
  BY <1>1, <1>2, <1>3 DEF RestInv

LEMMA RunRest ==
    ASSUME RestInv, HistInv', MailInv', TerminalStays, NEW r \in Run, MovesOn(r), UNCHANGED <<server, ended>>
    PROVE  RestInv'
<1>1. MailQuiet /\ NoTwin'
  BY DEF MailQuiet, NoTwin, RestInv, Present, Current
<1> QED
  BY <1>1, MovesOnKeeps, QuietRest
----------------------------------------------------------------------------
(* The three steps that matter.                                            *)

\* Reconcile settles the row of a move that was made the right way,
LEMMA CloseRest ==
    ASSUME Heard, NeverRenumbered, RestInv, HistInv', MailInv', TerminalStays, NEW r \in Run,
           CloseRow(r)
    PROVE  RestInv'
<1> USE RowParts
<1>a. /\ pc[r] = "reconcile" /\ pc' = [pc EXCEPT ![r] = "unclaim"]
      /\ UNCHANGED <<server, ended, seq, final, plan>>
      /\ \E y \in todo[r] : \E v \in Verdicts(y) :
            attempt' = [attempt EXCEPT ![y] = v] /\ key' = [key EXCEPT ![r] = y[2]]
  BY DEF CloseRow, Goto
<1>b. PICK y \in todo[r] : \E v \in Verdicts(y) :
        attempt' = [attempt EXCEPT ![y] = v] /\ key' = [key EXCEPT ![r] = y[2]]
  BY <1>a
<1>1. PICK v \in Verdicts(y) :
        attempt' = [attempt EXCEPT ![y] = v] /\ key' = [key EXCEPT ![r] = y[2]]
  BY <1>b
<1>2. /\ y \in Row
      /\ pc'[r] = "unclaim"
      /\ \A q \in Run : q # r => pc'[q] = pc[q] /\ key'[q] = key[q]
      /\ \A x \in Row : attempt'[x] = IF x = y THEN v ELSE attempt[x]
  BY <1>a, <1>1, TodoRows DEF RestInv, HistInv, TypeOK
<1>3. WorkShrinks
  BY <1>a, <1>1, <1>2 DEF WorkShrinks, InWork, Holding
<1>4. SettledStays
  <2> SUFFICES ASSUME NEW x \in Row, KindOf(x) = "move", server[x[2]] = "moved", Settled(x)
               PROVE  Settled(x)'
    BY DEF SettledStays
  <2>1. CASE x = y
    <3>1. v = "completed"
      BY <2>1 DEF Verdicts, Present, Current, Heard, NeverRenumbered, RestInv, MailInv, Seen
    <3> QED
      BY <1>2, <2>1, <3>1 DEF Settled
  <2>2. CASE x # y
    <3>1. attempt'[x] = attempt[x]
      BY <1>2, <2>2
    <3>2. CASE x[1] = r
      BY <1>2, <3>1, <3>2 DEF Settled, AtAttempt
    <3>3. CASE x[1] # r
      BY <1>a, <1>1, <1>2, <3>1, <3>3 DEF Settled, Cursor
    <3> QED
      BY <3>2, <3>3
  <2> QED
    BY <2>1, <2>2
<1>5. MailQuiet /\ NoTwin'
  BY <1>a DEF MailQuiet, NoTwin, RestInv, Present, Current
<1> QED
  BY <1>3, <1>4, <1>5, QuietRest

\* the check before the execution finds every move made so far,
LEMMA DecideRest ==
    ASSUME OneMover, RestInv, HistInv', MailInv', TerminalStays, NEW r \in Run, Decide(r)
    PROVE  RestInv'
<1> USE RowParts
<1>1. /\ pc[r] = "decide" /\ pc' = [pc EXCEPT ![r] = "pick"]
      /\ UNCHANGED <<server, ended, attempt, key, seq, final>>
      /\ \A q \in Run : q # r => plan'[q] = plan[q]
      /\ \A k \in plan'[r] : k \in Key /\ ~PriorMove(r, Holds[k])
  BY DEF Decide, Goto, RestInv, HistInv, TypeOK
<1>2. pc'[r] = "pick" /\ \A q \in Run : q # r => pc'[q] = pc[q] /\ InWork(q)' = InWork(q)
  BY <1>1 DEF RestInv, HistInv, TypeOK, InWork
<1>3. InWork(r)' = plan'[r]
  BY <1>2 DEF InWork, Holding
<1>4. MailQuiet /\ NoTwin' /\ RestoredRespected'
  BY <1>1 DEF MailQuiet, NoTwin, RestInv, Present, Current, RestoredRespected
<1>5. SettledStays
  BY <1>1, <1>2 DEF SettledStays, Settled, Cursor, AtAttempt
<1>6. MovedOnRecord'
  <2> SUFFICES ASSUME NEW k \in Key, server[k] = "moved"
               PROVE  \E x \in Row : /\ x[2] = k
                                     /\ x[3] \in DOMAIN Acts(x[1])
                                     /\ KindOf(x) = "move"
                                     /\ Settled(x)'
    BY <1>1 DEF MovedOnRecord, KindOf, Acts
  <2> QED
    BY <1>5 DEF RestInv, MovedOnRecord, SettledStays
<1>7. ASSUME NEW q \in Run, Moves(q) PROVE NotMovedBefore(q)'
  <2>1. CASE q # r
    BY <1>1, <1>2, <1>7, <2>1 DEF RestInv, NotMovedBefore, Present, Current
  <2>2. CASE q = r
    <3> SUFFICES ASSUME NEW k \in plan'[r], NEW j \in Key,
                        Holds[j] = Holds[k], server[j] = "moved"
                 PROVE  FALSE
      BY <1>1, <1>3, <2>2 DEF NotMovedBefore
    <3>1. PICK x \in Row : /\ x[2] = j
                           /\ x[3] \in DOMAIN Acts(x[1])
                           /\ KindOf(x) = "move"
                           /\ Settled(x)
      BY DEF RestInv, MovedOnRecord
    <3>2. attempt[x] \in {"completed", "in_flight"}
      BY <3>1 DEF Settled
    <3>3. x[1] # r
      BY <1>1, <3>2 DEF RestInv, HistInv, Unwritten, Early
    <3>4. attempt[x] # "completed"
      BY <1>1, <3>1, <3>3 DEF PriorMove
    <3>5. Open(x) /\ TaskOf[x[1]] = TaskOf[r]
      BY <1>7, <2>2, <3>1, <3>2, <3>4 DEF Open, OneMover, Moves, KindOf
    <3> QED
      BY <1>1, <3>3, <3>5 DEF RestInv, HistInv, ReconcileComplete, Live, Holding
  <2> QED
    BY <2>1, <2>2
<1>8. \A q \in Run : Moves(q)' => NotMovedBefore(q)'
  BY <1>7 DEF Moves, Acts
<1> QED
  BY <1>4, <1>6, <1>8 DEF RestInv

\* and a message is moved only then.
LEMMA MoveRest ==
    ASSUME Heard, RestInv, HistInv', MailInv', TerminalStays, NEW r \in Run, DoMove(r)
    PROVE  RestInv'
<1> USE RowParts
<1> DEFINE k == key[r]
<1>1. /\ pc[r] = "checked" /\ pc' = [pc EXCEPT ![r] = "effect"] /\ KindOf(Cursor(r)) = "move"
      /\ server' = [server EXCEPT ![k] = IF Present(k) THEN "moved" ELSE @]
      /\ final' = [final EXCEPT ![r] = "completed"]
      /\ UNCHANGED <<ended, attempt, key, seq, plan>>
  BY DEF DoMove, Sending, Ends, Goto, store, Heard
<1>2. /\ pc'[r] = "effect" /\ final'[r] = "completed"
      /\ \A q \in Run : q # r => pc'[q] = pc[q] /\ final'[q] = final[q]
      /\ k \in Key
      /\ \A j \in Key : server'[j] = IF j = k /\ Present(k) THEN "moved" ELSE server[j]
  BY <1>1 DEF RestInv, HistInv, TypeOK, Located, Holding
<1>3. Cursor(r) \in Row /\ seq[r] \in DOMAIN Acts(r) /\ attempt[Cursor(r)] = "in_flight"
  BY <1>1, CursorIsRow DEF RestInv, HistInv, Located, AtCursor, AtAttempt
<1>4. k \in InWork(r) /\ InWork(r)' = InWork(r) /\ Moves(r)
  BY <1>1, <1>2, <1>3 DEF InWork, Holding, Moves, KindOf, Cursor
<1>5. MovesOn(r)
  BY <1>1, <1>2, <1>4 DEF MovesOn
<1>6. SettledStays /\ WorkShrinks
  BY <1>5, MovesOnKeeps
<1>7. CASE ~Present(k)
  <2>1. MailQuiet /\ NoTwin'
    BY <1>1, <1>2, <1>7 DEF MailQuiet, NoTwin, RestInv, Present, Current
  <2> QED
    BY <1>6, <2>1, QuietRest
<1>8. CASE Present(k)
  <2>1. ended' = ended /\ \A j \in Key : server'[j] = IF j = k THEN "moved" ELSE server[j]
    BY <1>1, <1>2, <1>8
  <2>2. \A j \in Key : Present(j)' => j # k /\ Present(j)
    BY <2>1 DEF Present, Current
  <2>3. NoTwin'
    BY <2>2 DEF NoTwin, RestInv
  <2>4. MovedOnRecord'
    <3> SUFFICES ASSUME NEW j \in Key, server'[j] = "moved"
                 PROVE  \E x \in Row : /\ x[2] = j
                                       /\ x[3] \in DOMAIN Acts(x[1])
                                       /\ KindOf(x) = "move"
                                       /\ Settled(x)'
      BY DEF MovedOnRecord, KindOf, Acts
    <3>1. CASE j = k
      <4>1. Settled(Cursor(r))'
        BY <1>1, <1>2, <1>3 DEF Settled, Cursor
      <4> QED
        BY <1>1, <1>3, <3>1, <4>1 DEF Cursor
    <3>2. CASE j # k
      BY <1>6, <2>1, <3>2 DEF RestInv, MovedOnRecord, SettledStays
    <3> QED
      BY <3>1, <3>2
  <2>5. ASSUME NEW q \in Run, Moves(q) PROVE NotMovedBefore(q)'
    <3> SUFFICES ASSUME NEW i \in InWork(q)', NEW j \in Key,
                        j # i, Holds[j] = Holds[i], server'[j] = "moved", Present(i)'
                 PROVE  FALSE
      BY DEF NotMovedBefore
    <3>1. i \in InWork(q) /\ i \in Key /\ Present(i)
      BY <1>6, <2>2, WorkIsSeen DEF WorkShrinks, RestInv
    <3>2. CASE j = k
      BY <1>8, <3>1, <3>2 DEF RestInv, NoTwin
    <3>3. CASE j # k
      BY <2>1, <2>5, <3>1, <3>3 DEF RestInv, NotMovedBefore
    <3> QED
      BY <3>2, <3>3
  <2>6. \A j \in Key : j # k /\ Holds[j] = Holds[k] => server[j] # "moved"
    BY <1>2, <1>4, <1>8 DEF RestInv, NotMovedBefore
  <2>7. RestoredRespected'
    BY <2>1, <2>6, <1>2 DEF RestoredRespected, RestInv
  <2>8. \A q \in Run : Moves(q)' => NotMovedBefore(q)'
    BY <2>5 DEF Moves, Acts
  <2> QED
    BY <2>3, <2>4, <2>7, <2>8 DEF RestInv
<1> QED
  BY <1>7, <1>8

LEMMA InitRest == Init => RestInv
<1> SUFFICES ASSUME Init PROVE RestInv
  OBVIOUS
<1>1. HistInv /\ MailInv
  BY InitHist, InitMail
<1>2. \A k \in Key : server[k] \in {"present", "absent"}
  BY DEF Init
<1>3. NoTwin
  BY <1>2 DEF Init, NoTwin, Present, Current
<1> QED
  BY <1>1, <1>2, <1>3 DEF RestInv, MovedOnRecord, NotMovedBefore, RestoredRespected

LEMMA RestStep ==
    ASSUME OneLockPerTask, OneMover, Heard, NeverRenumbered, RestInv, [Next]_vars
    PROVE  RestInv'
<1> USE RowParts
<1>0. HistInv' /\ MailInv' /\ TerminalStays
  BY HistoryStep, MailStep DEF RestInv
<1>1. ASSUME NEW r \in Run, Begin(r) PROVE RestInv'
  <2>1. MovesOn(r) /\ UNCHANGED <<server, ended>>
    BY <1>1 DEF Begin, Goto, store, job, MovesOn, InWork, Holding, AtAttempt,
       Live, RestInv, HistInv, TypeOK
  <2> QED
    BY <1>0, <2>1, RunRest
<1>2. ASSUME NEW r \in Run, Busy(r) PROVE RestInv'
  <2>1. MovesOn(r) /\ UNCHANGED <<server, ended>>
    BY <1>2 DEF Busy, Goto, store, job, MovesOn, InWork, Holding, AtAttempt,
       Live, RestInv, HistInv, TypeOK
  <2> QED
    BY <1>0, <2>1, RunRest
<1>3. ASSUME NEW r \in Run, Unclaim(r) PROVE RestInv'
  <2>1. MovesOn(r) /\ UNCHANGED <<server, ended>>
    BY <1>3 DEF Unclaim, Goto, store, job, MovesOn, InWork, Holding, AtAttempt,
       Live, RestInv, HistInv, TypeOK
  <2> QED
    BY <1>0, <2>1, RunRest
<1>4. ASSUME NEW r \in Run, Scan(r) PROVE RestInv'
  <2>1. MovesOn(r) /\ UNCHANGED <<server, ended>>
    BY <1>4 DEF Scan, Goto, store, job, MovesOn, InWork, Holding, AtAttempt,
       Live, RestInv, HistInv, TypeOK
  <2> QED
    BY <1>0, <2>1, RunRest
<1>5. ASSUME NEW r \in Run, Load(r) PROVE RestInv'
  <2>1. MovesOn(r) /\ UNCHANGED <<server, ended>>
    BY <1>5 DEF Load, Goto, store, job, MovesOn, InWork, Holding, AtAttempt,
       Live, RestInv, HistInv, TypeOK
  <2> QED
    BY <1>0, <2>1, RunRest
<1>6. ASSUME NEW r \in Run, SkipCapped(r) PROVE RestInv'
  <2>1. MovesOn(r) /\ UNCHANGED <<server, ended>>
    BY <1>6 DEF SkipCapped, Take, Goto, store, job, MovesOn, InWork, Holding,
       AtAttempt, Live, RestInv, HistInv, TypeOK
  <2> QED
    BY <1>0, <2>1, RunRest
<1>7. ASSUME NEW r \in Run, Preview(r) PROVE RestInv'
  <2>1. /\ pc[r] = "pick" /\ NextKey(r) \in plan[r]
        /\ plan' = [plan EXCEPT ![r] = @ \ {NextKey(r)}]
        /\ UNCHANGED <<server, ended, pc, key, seq, final>>
    BY <1>7, OldestIsIn DEF Preview, Take, NextKey, RestInv, HistInv, TypeOK
  <2>2. \A x \in Row : attempt[x] = "in_flight" => attempt'[x] = "in_flight"
    <3>1. \A x \in Row :
            attempt'[x] = IF x[1] = r /\ x[2] = NextKey(r) /\ x[3] \in DOMAIN Acts(r)
                          THEN "skipped" ELSE attempt[x]
      BY <1>7 DEF Preview
    <3> QED
      BY <2>1, <3>1 DEF RestInv, HistInv, Unwritten
  <2>3. MovesOn(r) /\ UNCHANGED <<server, ended>>
    BY <2>1, <2>2 DEF MovesOn, InWork, Holding, AtAttempt, RestInv, HistInv, TypeOK
  <2> QED
    BY <1>0, <2>3, RunRest
<1>8. ASSUME NEW r \in Run, Claim(r) PROVE RestInv'
  <2>1. NextKey(r) \in plan[r]
    BY <1>8, OldestIsIn DEF Claim, NextKey, RestInv, HistInv, TypeOK
  <2>2. MovesOn(r) /\ UNCHANGED <<server, ended>>
    BY <1>8, <2>1 DEF Claim, Take, NextKey, Goto, store, job, MovesOn, InWork,
       Holding, AtAttempt, Live, RestInv, HistInv, TypeOK
  <2> QED
    BY <1>0, <2>2, RunRest
<1>9. ASSUME NEW r \in Run, ClaimRefused(r) PROVE RestInv'
  <2>1. MovesOn(r) /\ UNCHANGED <<server, ended>>
    BY <1>9 DEF ClaimRefused, Take, Goto, store, job, MovesOn, InWork, Holding,
       AtAttempt, Live, RestInv, HistInv, TypeOK
  <2> QED
    BY <1>0, <2>1, RunRest
<1>10. ASSUME NEW r \in Run, DropUnsupported(r) PROVE RestInv'
  <2>1. MovesOn(r) /\ UNCHANGED <<server, ended>>
    BY <1>10 DEF DropUnsupported, Goto, store, job, MovesOn, InWork, Holding,
       AtAttempt, Live, RestInv, HistInv, TypeOK
  <2> QED
    BY <1>0, <2>1, RunRest
<1>11. ASSUME NEW r \in Run, VerifyVanished(r) PROVE RestInv'
  <2>1. MovesOn(r) /\ UNCHANGED <<server, ended>>
    BY <1>11 DEF VerifyVanished, Goto, store, job, MovesOn, InWork, Holding,
       AtAttempt, Live, RestInv, HistInv, TypeOK
  <2> QED
    BY <1>0, <2>1, RunRest
<1>12. ASSUME NEW r \in Run, VerifyChanged(r) PROVE RestInv'
  <2>1. MovesOn(r) /\ UNCHANGED <<server, ended>>
    BY <1>12 DEF VerifyChanged, Goto, store, job, MovesOn, InWork, Holding,
       AtAttempt, Live, RestInv, HistInv, TypeOK
  <2> QED
    BY <1>0, <2>1, RunRest
<1>13. ASSUME NEW r \in Run, VerifyProtected(r) PROVE RestInv'
  <2>1. MovesOn(r) /\ UNCHANGED <<server, ended>>
    BY <1>13 DEF VerifyProtected, Goto, store, job, MovesOn, InWork, Holding,
       AtAttempt, Live, RestInv, HistInv, TypeOK
  <2> QED
    BY <1>0, <2>1, RunRest
<1>14. ASSUME NEW r \in Run, VerifyOk(r) PROVE RestInv'
  <2>1. MovesOn(r) /\ UNCHANGED <<server, ended>>
    BY <1>14 DEF VerifyOk, Goto, store, job, MovesOn, InWork, Holding,
       AtAttempt, Live, RestInv, HistInv, TypeOK
  <2> QED
    BY <1>0, <2>1, RunRest
<1>15. ASSUME NEW r \in Run, VerifyError(r) PROVE RestInv'
  <2>1. MovesOn(r) /\ UNCHANGED <<server, ended>>
    BY <1>15 DEF VerifyError, Goto, store, job, MovesOn, InWork, Holding,
       AtAttempt, Live, RestInv, HistInv, TypeOK
  <2> QED
    BY <1>0, <2>1, RunRest
<1>16. ASSUME NEW r \in Run, Insert(r) PROVE RestInv'
  <2>1. pc[r] = "next" /\ seq'[r] > seq[r] /\ key'[r] = key[r] /\ <<r, key[r], seq'[r]>> \in Row
    BY <1>16, ActionRows DEF Insert, RestInv, HistInv, TypeOK, Located, Holding
  <2>2. attempt[<<r, key'[r], seq'[r]>>] = "none"
    BY <2>1 DEF RestInv, HistInv, Unwritten, Holding
  <2>3. MovesOn(r) /\ UNCHANGED <<server, ended>>
    BY <1>16, <2>1, <2>2 DEF Insert, Goto, store, job, MovesOn, InWork, Holding,
       AtAttempt, Live, RestInv, HistInv, TypeOK
  <2> QED
    BY <1>0, <2>3, RunRest
<1>17. ASSUME NEW r \in Run, Start(r) PROVE RestInv'
  <2>1. attempt[Cursor(r)] = "pending"
    BY <1>17 DEF Start, RestInv, HistInv, AtCursor
  <2>2. MovesOn(r) /\ UNCHANGED <<server, ended>>
    BY <1>17, <2>1 DEF Start, Cursor, Goto, store, job, MovesOn, InWork,
       Holding, AtAttempt, Live, RestInv, HistInv, TypeOK
  <2> QED
    BY <1>0, <2>2, RunRest
<1>18. ASSUME NEW r \in Run, Exists(r) PROVE RestInv'
  <2>1. MovesOn(r) /\ UNCHANGED <<server, ended>>
    BY <1>18 DEF Exists, Performing, Goto, store, job, MovesOn, InWork, Holding,
       AtAttempt, Live, RestInv, HistInv, TypeOK
  <2> QED
    BY <1>0, <2>1, RunRest
<1>19. ASSUME NEW r \in Run, DoBackup(r) PROVE RestInv'
  <2>1. MovesOn(r) /\ UNCHANGED <<server, ended>>
    BY <1>19 DEF DoBackup, Performing, Ends, Goto, store, job, MovesOn, InWork,
       Holding, AtAttempt, Live, RestInv, HistInv, TypeOK
  <2> QED
    BY <1>0, <2>1, RunRest
<1>20. ASSUME NEW r \in Run, DoRoute(r) PROVE RestInv'
  <2>1. MovesOn(r) /\ UNCHANGED <<server, ended>>
    BY <1>20 DEF DoRoute, Performing, Ends, Goto, store, job, MovesOn, InWork,
       Holding, AtAttempt, Live, RestInv, HistInv, TypeOK
  <2> QED
    BY <1>0, <2>1, RunRest
<1>21. ASSUME NEW r \in Run, DoLabel(r) PROVE RestInv'
  <2>1. MovesOn(r) /\ UNCHANGED <<server, ended>>
    BY <1>21 DEF DoLabel, Sending, Ends, Goto, store, job, MovesOn, InWork,
       Holding, AtAttempt, Live, RestInv, HistInv, TypeOK
  <2> QED
    BY <1>0, <2>1, RunRest
<1>22. ASSUME NEW r \in Run, MutationVanished(r) PROVE RestInv'
  <2>1. MovesOn(r) /\ UNCHANGED <<server, ended>>
    BY <1>22 DEF MutationVanished, Performing, Ends, Goto, store, job, MovesOn,
       InWork, Holding, AtAttempt, Live, RestInv, HistInv, TypeOK
  <2> QED
    BY <1>0, <2>1, RunRest
<1>23. ASSUME NEW r \in Run, Refused(r) PROVE RestInv'
  <2>1. MovesOn(r) /\ UNCHANGED <<server, ended>>
    BY <1>23 DEF Refused, Performing, Sending, Ends, Goto, store, job, MovesOn,
       InWork, Holding, AtAttempt, Live, RestInv, HistInv, TypeOK
  <2> QED
    BY <1>0, <2>1, RunRest
<1>24. ASSUME NEW r \in Run, Unsupported(r) PROVE RestInv'
  <2>1. MovesOn(r) /\ UNCHANGED <<server, ended>>
    BY <1>24 DEF Unsupported, Performing, Ends, Goto, store, job, MovesOn,
       InWork, Holding, AtAttempt, Live, RestInv, HistInv, TypeOK
  <2> QED
    BY <1>0, <2>1, RunRest
<1>25. ASSUME NEW r \in Run, Record(r) PROVE RestInv'
  <2>1. MovesOn(r) /\ UNCHANGED <<server, ended>>
    BY <1>25 DEF Record, Goto, store, job, MovesOn, InWork, Holding, AtAttempt,
       Live, RestInv, HistInv, TypeOK
  <2> QED
    BY <1>0, <2>1, RunRest
<1>26. ASSUME NEW r \in Run, Retire(r) PROVE RestInv'
  <2>1. MovesOn(r) /\ UNCHANGED <<server, ended>>
    BY <1>26 DEF Retire, Goto, store, job, MovesOn, InWork, Holding, AtAttempt,
       Live, RestInv, HistInv, TypeOK
  <2> QED
    BY <1>0, <2>1, RunRest
<1>27. ASSUME NEW r \in Run, SequenceDone(r) PROVE RestInv'
  <2>1. MovesOn(r) /\ UNCHANGED <<server, ended>>
    BY <1>27 DEF SequenceDone, Goto, store, job, MovesOn, InWork, Holding,
       AtAttempt, Live, RestInv, HistInv, TypeOK
  <2> QED
    BY <1>0, <2>1, RunRest
<1>28. ASSUME NEW r \in Run, Release(r) PROVE RestInv'
  <2>1. MovesOn(r) /\ UNCHANGED <<server, ended>>
    BY <1>28 DEF Release, ResetItem, Goto, store, job, MovesOn, InWork, Holding,
       AtAttempt, Live, RestInv, HistInv, TypeOK
  <2> QED
    BY <1>0, <2>1, RunRest
<1>29. ASSUME NEW r \in Run, Finish(r) PROVE RestInv'
  <2>1. MovesOn(r) /\ UNCHANGED <<server, ended>>
    BY <1>29 DEF Finish, End, ResetItem, Goto, store, job, MovesOn, InWork,
       Holding, AtAttempt, Live, RestInv, HistInv, TypeOK
  <2> QED
    BY <1>0, <2>1, RunRest
<1>30. ASSUME NEW r \in Run, Unwind(r) PROVE RestInv'
  <2>1. MovesOn(r) /\ UNCHANGED <<server, ended>>
    BY <1>30 DEF Unwind, End, ResetItem, Goto, store, job, MovesOn, InWork,
       Holding, AtAttempt, Live, RestInv, HistInv, TypeOK
  <2> QED
    BY <1>0, <2>1, RunRest
<1>31. ASSUME NEW r \in Run, Crash(r) PROVE RestInv'
  <2>1. MovesOn(r) /\ UNCHANGED <<server, ended>>
    BY <1>31 DEF Crash, End, ResetItem, Goto, store, job, MovesOn, InWork,
       Holding, AtAttempt, Live, RestInv, HistInv, TypeOK
  <2> QED
    BY <1>0, <2>1, RunRest
<1>32. ASSUME NEW r \in Run, Abort(r) PROVE RestInv'
  <2>1. MovesOn(r) /\ UNCHANGED <<server, ended>>
    BY <1>32 DEF Abort, End, ResetItem, Goto, store, job, MovesOn, InWork,
       Holding, AtAttempt, Live, RestInv, HistInv, TypeOK
  <2> QED
    BY <1>0, <2>1, RunRest
<1>33. ASSUME NEW r \in Run, Interrupt(r) PROVE RestInv'
  <2>1. MovesOn(r) /\ UNCHANGED <<server, ended>>
    BY <1>33 DEF Interrupt, Goto, store, job, MovesOn, InWork, Holding,
       AtAttempt, Live, RestInv, HistInv, TypeOK
  <2> QED
    BY <1>0, <2>1, RunRest
<1>34. ASSUME NEW r \in Run, CloseRow(r) PROVE RestInv'
  BY <1>0, <1>34, CloseRest
<1>35. ASSUME NEW r \in Run, Decide(r) PROVE RestInv'
  BY <1>0, <1>35, DecideRest
<1>36. ASSUME NEW r \in Run, DoMove(r) PROVE RestInv'
  BY <1>0, <1>36, MoveRest
<1>37. ASSUME NEW k \in Key, Others(k) PROVE RestInv'
  <2>1. UNCHANGED <<ended, attempt, pc, key, seq, final, plan>>
    BY <1>37 DEF Others, Arrive, Flag, Unflag, Remove, store, job
  <2>2. SettledStays /\ WorkShrinks
    BY <2>1 DEF SettledStays, WorkShrinks, Settled, Cursor, InWork
  <2>3. CASE Arrive(k)
    <3>1. /\ server[k] = "absent" /\ \A j \in Key : Holds[j] = Holds[k] => ~Present(j)
          /\ \A j \in Key : server'[j] = IF j = k THEN "present" ELSE server[j]
      BY <2>3 DEF Arrive, RestInv, HistInv, TypeOK
    <3>2. MailQuiet /\ NoTwin'
      BY <2>1, <3>1 DEF MailQuiet, NoTwin, RestInv, Present, Current
    <3> QED
      BY <1>0, <2>2, <3>2, QuietRest
  <2>4. CASE Flag(k) \/ Unflag(k) \/ Remove(k)
    <3>1. PICK s \in {"present", "flagged", "gone"} :
            Present(k) /\ server' = [server EXCEPT ![k] = s]
      BY <2>4 DEF Flag, Unflag, Remove, Present
    <3>2. \A j \in Key : server'[j] = IF j = k THEN s ELSE server[j]
      BY <3>1 DEF RestInv, HistInv, TypeOK
    <3>3. MailQuiet /\ NoTwin'
      BY <2>1, <3>1, <3>2 DEF MailQuiet, NoTwin, RestInv, Present, Current
    <3> QED
      BY <1>0, <2>2, <3>3, QuietRest
  <2> QED
    BY <1>37, <2>3, <2>4 DEF Others
<1>38. CASE UNCHANGED vars
  <2>1. SettledStays /\ WorkShrinks /\ MailQuiet /\ NoTwin'
    BY <1>38 DEF vars, store, job, SettledStays, Settled, Cursor, WorkShrinks, InWork, MailQuiet,
       NoTwin, RestInv, Present, Current
  <2> QED
    BY <1>0, <2>1, QuietRest
<1> QED
  BY <1>1, <1>2, <1>3, <1>4, <1>5, <1>6, <1>7, <1>8, <1>9, <1>10, <1>11, <1>12,
     <1>13, <1>14, <1>15, <1>16, <1>17, <1>18, <1>19, <1>20, <1>21, <1>22, <1>23,
     <1>24, <1>25, <1>26, <1>27, <1>28, <1>29, <1>30, <1>31, <1>32, <1>33, <1>34,
     <1>35, <1>36, <1>37, <1>38
  DEF Next, NeverRenumbered, Environment, Renumber, Step, Fault, Phases, Pick, Verify, Perform, RunActions, Failure

\* Where one task moves mail and hears what becomes of every move, and no mailbox
\* gets another UIDVALIDITY, a message it moved away and its owner put back is not
\* moved again: not by a later run, not by one that read its candidates before the
\* move, and not after a crash between the move and its record. A renumbered
\* mailbox may have reused the UID, and reconcile then takes the move for failed.
THEOREM RestoredStaysPut ==
    ASSUME OneLockPerTask, OneMover, Heard, NeverRenumbered PROVE Spec => []RestoredRespected
<1>1. Init => RestInv
  BY InitRest
<1>2. RestInv /\ [Next]_vars => RestInv'
  BY RestStep
<1>3. RestInv => RestoredRespected
  BY DEF RestInv
<1> QED
  BY <1>1, <1>2, <1>3, PTL DEF Spec
=============================================================================
