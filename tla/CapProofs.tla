----------------------------- MODULE CapProofs -----------------------------
(***************************************************************************)
(* `max_actions` is exact: for any cap, any number of messages, every fault *)
(* and whatever other runs do.                                             *)
(***************************************************************************)
EXTENDS ExecuteProofs, FiniteSetTheorems

Before == {"idle", "reconcile", "unclaim", "load", "decide"}
Over == {"done", "dead"}
Cap(r) == MaxActions[TaskOf[r]]

\* What counts against the cap: the items answered, and the one in hand.
Counted(r) == Handled(r) \cup (IF pc[r] \in Holding THEN {key[r]} ELSE {})

\* What is left has no answer yet, and what is in hand gets one.
Answers(r) ==
    /\ pc[r] \in Before => taken[r] = 0 /\ \A k \in Key : item[<<r, k>>] = "none"
    /\ \A k \in plan[r] : item[<<r, k>>] = "none"
    /\ pc[r] \in Holding =>
          /\ key[r] \notin plan[r]
          /\ item[<<r, key[r]>>] \notin {"no_match", "restored", "unsupported", "capped"}
    /\ pc[r] \in Holding \ {"verify", "unwind"} => key[r] \in Handled(r)

\* The counter of a run that goes on is exact.
Counts(r) ==
    /\ IsFiniteSet(Counted(r))
    /\ pc[r] \notin Over => Cardinality(Counted(r)) = taken[r]
    /\ Cardinality(Counted(r)) <= Cap(r)

\* Items are taken in order, and capped only when the cap is used up.
Ordered(r) ==
    /\ \A j \in Counted(r), k \in plan[r] : Age[j] <= Age[k]
    /\ \A k \in Key : item[<<r, k>>] = "capped" =>
          /\ pc[r] \notin Holding
          /\ Cardinality(Counted(r)) = Cap(r)
          /\ \A j \in Counted(r) : Age[j] <= Age[k]

CapInv ==
    /\ TypeOK
    /\ Located
    /\ \A r \in Run : Answers(r) /\ Counts(r) /\ Ordered(r)
----------------------------------------------------------------------------
\* No run has answered anything before it has started.
LEMMA InitCap == Init => CapInv
<1> SUFFICES ASSUME Init PROVE CapInv
  OBVIOUS
<1>1. TypeOK /\ Located
  BY InitTyped
<1>2. ASSUME NEW r \in Run PROVE Answers(r) /\ Counts(r) /\ Ordered(r)
  <2>1. /\ pc[r] = "idle" /\ plan[r] = {} /\ taken[r] = 0
        /\ \A k \in Key : item[<<r, k>>] = "none"
    BY <1>2 DEF Init
  <2>2. Counted(r) = {}
    BY <2>1 DEF Counted, Handled, Holding
  <2>3. Cap(r) \in Nat
    BY TasksAssumption, RunsAssumption DEF Cap
  <2> QED
    BY <2>1, <2>2, <2>3, FS_EmptySet DEF Answers, Counts, Ordered, Holding, Over
<1> QED
  BY <1>1, <1>2 DEF CapInv

\* What the steps of another run, and of the clients, leave a run with.
Untouched(q) ==
    /\ pc'[q] = pc[q] /\ key'[q] = key[q] /\ plan'[q] = plan[q] /\ taken'[q] = taken[q]
    /\ \A k \in Key : item'[<<q, k>>] = item[<<q, k>>]

LEMMA StillCapped ==
    ASSUME CapInv, TypeOK', NEW q \in Run, Untouched(q)
    PROVE  Answers(q)' /\ Counts(q)' /\ Ordered(q)'
<1>1. Handled(q)' = Handled(q)
  BY DEF Untouched, Handled
<1>2. Counted(q)' = Counted(q)
  BY <1>1 DEF Untouched, Counted
<1>3. \A k \in plan[q] : k \in Key
  BY DEF CapInv, TypeOK
<1>4. pc[q] \in Holding => key[q] \in Key
  BY DEF CapInv, Located
<1>5. Answers(q)'
  BY <1>1, <1>3, <1>4 DEF CapInv, Answers, Untouched
<1>6. Counts(q)'
  BY <1>2 DEF CapInv, Counts, Untouched, Cap
<1>7. Ordered(q)'
  BY <1>2 DEF CapInv, Ordered, Untouched, Cap
<1> QED
  BY <1>5, <1>6, <1>7

LEMMA RunCap ==
    ASSUME CapInv, TypeOK', Located', NEW r \in Run,
           \A q \in Run : q # r => Untouched(q),
           Answers(r)', Counts(r)', Ordered(r)'
    PROVE  CapInv'
  BY StillCapped DEF CapInv

\* A step that counts nothing new,
SameCount(r) ==
    /\ Counted(r)' = Counted(r)
    /\ pc'[r] \notin Over => pc[r] \notin Over /\ taken'[r] = taken[r]
    /\ plan'[r] \subseteq plan[r] \/ pc[r] \in Before
    /\ \A k \in Key : item'[<<r, k>>] = "capped" => item[<<r, k>>] = "capped"
    /\ pc'[r] \in Holding => pc[r] \in Holding

LEMMA BeforeNone ==
    ASSUME CapInv, NEW r \in Run, pc[r] \in Before
    PROVE  Counted(r) = {} /\ \A k \in Key : item[<<r, k>>] = "none"
  BY DEF CapInv, Answers, Counted, Handled, Before, Holding

LEMMA SameStep ==
    ASSUME CapInv, TypeOK', Located', NEW r \in Run,
           \A q \in Run : q # r => Untouched(q),
           SameCount(r), Answers(r)'
    PROVE  CapInv'
<1>1. Counts(r)'
  BY DEF CapInv, Counts, SameCount, Cap
<1>2. Ordered(r)'
  <2>1. \A j \in Counted(r), k \in plan'[r] : Age[j] <= Age[k]
    BY BeforeNone DEF CapInv, Ordered, SameCount
  <2>2. ASSUME NEW k \in Key, item'[<<r, k>>] = "capped"
        PROVE  /\ pc'[r] \notin Holding
               /\ Cardinality(Counted(r)) = Cap(r)
               /\ \A j \in Counted(r) : Age[j] <= Age[k]
    <3>1. item[<<r, k>>] = "capped"
      BY <2>2 DEF SameCount
    <3>2. /\ pc[r] \notin Holding
          /\ Cardinality(Counted(r)) = Cap(r)
          /\ \A j \in Counted(r) : Age[j] <= Age[k]
      BY <3>1 DEF CapInv, Ordered
    <3> QED
      BY <3>2 DEF SameCount
  <2> QED
    BY <2>1, <2>2 DEF Ordered, SameCount, Cap
<1> QED
  BY <1>1, <1>2, RunCap

\* one that takes up the oldest item left,
OneMore(r) ==
    /\ pc[r] = "pick" /\ plan[r] # {} /\ ~Capped(r) /\ pc'[r] \notin Over
    /\ Counted(r)' = Counted(r) \cup {NextKey(r)}
    /\ taken'[r] = taken[r] + 1
    /\ plan'[r] = plan[r] \ {NextKey(r)}
    /\ \A k \in Key : item'[<<r, k>>] = "capped" => item[<<r, k>>] = "capped"

LEMMA MoreStep ==
    ASSUME CapInv, TypeOK', Located', NEW r \in Run,
           \A q \in Run : q # r => Untouched(q),
           OneMore(r), Answers(r)'
    PROVE  CapInv'
<1> USE DEF OneMore
<1>1. NextKey(r) \in plan[r] /\ NextKey(r) \in Key /\ \A k \in plan[r] : Age[NextKey(r)] <= Age[k]
  BY OldestIsIn DEF NextKey, CapInv, TypeOK
<1>2. NextKey(r) \notin Counted(r)
  BY <1>1 DEF CapInv, Answers, Counted, Handled, Holding
<1>3. /\ IsFiniteSet(Counted(r)) /\ Cardinality(Counted(r)) = taken[r]
      /\ Cap(r) \in Nat /\ taken[r] \in Nat /\ taken[r] < Cap(r)
  <2>1. IsFiniteSet(Counted(r)) /\ Cardinality(Counted(r)) = taken[r]
    BY DEF CapInv, Counts, Over
  <2>2. Cap(r) \in Nat /\ taken[r] \in Nat
    BY TasksAssumption, RunsAssumption DEF CapInv, TypeOK, Cap
  <2>3. ~(taken[r] >= Cap(r))
    BY DEF Capped, Cap
  <2> QED
    BY <2>1, <2>2, <2>3
<1>4. IsFiniteSet(Counted(r)') /\ Cardinality(Counted(r)') = taken[r] + 1
  BY <1>2, <1>3, FS_AddElement
<1>5. Counts(r)'
  BY <1>3, <1>4 DEF Counts, Cap
<1>6. \A k \in Key : item'[<<r, k>>] # "capped"
  BY <1>3 DEF CapInv, Ordered
<1>7. Ordered(r)'
  BY <1>1, <1>6 DEF CapInv, Ordered
<1> QED
  BY <1>5, <1>7, RunCap

\* and the end of a process, which may leave the item in hand unanswered.
LEMMA LastStep ==
    ASSUME CapInv, TypeOK', Located', NEW r \in Run, NEW l \in Over,
           End(r, l), item' = item
    PROVE  CapInv'
<1>1. /\ pc'[r] = l /\ plan'[r] = {}
      /\ \A q \in Run : q # r => Untouched(q)
  BY DEF End, Goto, ResetItem, CapInv, TypeOK, Untouched
<1>2. l \notin Holding \cup Before
  BY DEF Over, Holding, Before
<1>3. Counted(r)' = Handled(r) /\ Counted(r)' \subseteq Counted(r)
  BY <1>1, <1>2 DEF Counted, Handled
<1>4. /\ IsFiniteSet(Counted(r)) /\ Cardinality(Counted(r)) <= Cap(r)
      /\ Cap(r) \in Nat
  BY TasksAssumption, RunsAssumption DEF CapInv, Counts, Cap
<1>5. /\ IsFiniteSet(Counted(r)') /\ Cardinality(Counted(r)') <= Cardinality(Counted(r))
  BY <1>3, <1>4, FS_Subset
<1>6. Cardinality(Counted(r)) \in Nat /\ Cardinality(Counted(r)') \in Nat
  BY <1>4, <1>5, FS_CardinalityType
<1>7. Counts(r)'
  BY <1>1, <1>4, <1>5, <1>6 DEF Counts, Cap
<1>8. ASSUME NEW k \in Key, item[<<r, k>>] = "capped"
      PROVE  /\ Cardinality(Counted(r)') = Cap(r)
             /\ \A j \in Counted(r)' : Age[j] <= Age[k]
  <2>1. /\ pc[r] \notin Holding
        /\ Cardinality(Counted(r)) = Cap(r)
        /\ \A j \in Counted(r) : Age[j] <= Age[k]
    BY <1>8 DEF CapInv, Ordered
  <2>2. Counted(r)' = Counted(r)
    BY <1>3, <2>1 DEF Counted
  <2> QED
    BY <2>1, <2>2
<1>9. Ordered(r)'
  BY <1>1, <1>2, <1>8 DEF Ordered, Cap
<1>10. Answers(r)'
  BY <1>1, <1>2 DEF Answers
<1> QED
  BY <1>1, <1>7, <1>9, <1>10, RunCap
----------------------------------------------------------------------------
\* Before its items a run answers none that counts.
LEMMA DecideCap ==
    ASSUME CapInv, TypeOK', Located', NEW r \in Run, Decide(r)
    PROVE  CapInv'
<1>1. PICK matched \in SUBSET plan[r] :
        LET restored == {k \in matched : PriorMove(r, Holds[k])}
        IN  /\ item' = [x \in Run \X Key |->
                  CASE x[1] = r /\ x[2] \in restored -> "restored"
                    [] x[1] = r /\ x[2] \in plan[r] \ matched -> "no_match"
                    [] OTHER -> item[x]]
            /\ plan' = [plan EXCEPT ![r] = matched \ restored]
  BY DEF Decide
<1> DEFINE restored == {k \in matched : PriorMove(r, Holds[k])}
<1>2. pc[r] = "decide" /\ pc' = [pc EXCEPT ![r] = "pick"] /\ pc'[r] = "pick" /\ UNCHANGED <<key, taken>>
  BY DEF Decide, Goto, CapInv, TypeOK
<1>3. Counted(r) = {} /\ \A k \in Key : item[<<r, k>>] = "none"
  BY <1>2, BeforeNone DEF Before
<1>4. /\ \A q \in Run, k \in Key : q # r => item'[<<q, k>>] = item[<<q, k>>]
      /\ \A k \in Key : item'[<<r, k>>] = IF k \in restored THEN "restored"
                                          ELSE IF k \in plan[r] \ matched THEN "no_match"
                                          ELSE item[<<r, k>>]
      /\ plan'[r] = matched \ restored
      /\ \A q \in Run : q # r => plan'[q] = plan[q]
  BY <1>1 DEF CapInv, TypeOK
<1> HIDE DEF restored
<1>5. \A q \in Run : q # r => Untouched(q)
  BY <1>2, <1>4 DEF Untouched, CapInv, TypeOK
<1>6. Handled(r)' = {}
  BY <1>3, <1>4 DEF Handled
<1>7. Counted(r)' = {}
  BY <1>2, <1>6 DEF Counted, Holding
<1>8. Answers(r)'
  <2>1. \A k \in plan'[r] : k \in Key /\ item'[<<r, k>>] = "none"
    BY <1>3, <1>4 DEF CapInv, TypeOK
  <2> QED
    BY <1>2, <2>1 DEF Answers, Before, Holding
<1>9. SameCount(r)
  BY <1>2, <1>3, <1>4, <1>7 DEF SameCount, Over, Before, Holding
<1> QED
  BY <1>5, <1>8, <1>9, SameStep

\* An item is capped when as many as the cap have been taken, all of them older.
LEMMA CappedCap ==
    ASSUME CapInv, TypeOK', Located', NEW r \in Run, SkipCapped(r)
    PROVE  CapInv'
<1>1. /\ pc[r] = "pick" /\ pc' = pc /\ Capped(r)
      /\ NextKey(r) \in plan[r] /\ NextKey(r) \in Key
      /\ plan'[r] = plan[r] \ {NextKey(r)} /\ taken'[r] = taken[r]
      /\ UNCHANGED key
  BY OldestIsIn DEF SkipCapped, Take, NextKey, CapInv, TypeOK
<1>2. \A q \in Run, k \in Key : item'[<<q, k>>] = IF q = r /\ k = NextKey(r) THEN "capped" ELSE item[<<q, k>>]
  BY <1>1 DEF SkipCapped, CapInv, TypeOK
<1>3. \A q \in Run : q # r => Untouched(q)
  BY <1>1, <1>2 DEF SkipCapped, Take, Untouched, CapInv, TypeOK
<1>4. item[<<r, NextKey(r)>>] = "none"
  BY <1>1 DEF CapInv, Answers
<1>5. Handled(r)' = Handled(r)
  BY <1>2, <1>4 DEF Handled
<1>6. Counted(r)' = Counted(r)
  BY <1>1, <1>5 DEF Counted
<1>7. Answers(r)'
  <2>1. \A k \in plan[r] : k \in Key /\ item[<<r, k>>] = "none"
    BY DEF CapInv, Answers, TypeOK
  <2>2. \A k \in plan'[r] : item'[<<r, k>>] = "none"
    BY <1>1, <1>2, <2>1
  <2> QED
    BY <1>1, <2>2 DEF Answers, Before, Holding
<1>8. Counts(r)'
  BY <1>1, <1>6 DEF CapInv, Counts, Cap
<1>9. Cardinality(Counted(r)) = Cap(r)
  <2>1. /\ Cardinality(Counted(r)) = taken[r] /\ Cardinality(Counted(r)) <= Cap(r)
        /\ taken[r] >= Cap(r) /\ taken[r] \in Nat /\ Cap(r) \in Nat
    BY <1>1, TasksAssumption, RunsAssumption DEF CapInv, Counts, Over, Capped, Cap, TypeOK
  <2> QED
    BY <2>1
<1>10. Ordered(r)'
  <2>1. \A j \in Counted(r), k \in plan[r] : Age[j] <= Age[k]
    BY DEF CapInv, Ordered
  <2>2. ASSUME NEW k \in Key, item'[<<r, k>>] = "capped"
        PROVE  \A j \in Counted(r) : Age[j] <= Age[k]
    BY <1>1, <1>2, <2>1, <2>2 DEF CapInv, Ordered
  <2> QED
    BY <1>1, <1>6, <1>9, <2>1, <2>2 DEF Ordered, Holding, Cap
<1> QED
  BY <1>3, <1>7, <1>8, <1>10, RunCap

\* An item that is answered or taken in hand counts.
LEMMA ClaimCap ==
    ASSUME CapInv, TypeOK', Located', NEW r \in Run, Claim(r)
    PROVE  CapInv'
<1>1. /\ pc[r] = "pick" /\ pc' = [pc EXCEPT ![r] = "verify"] /\ pc'[r] = "verify"
      /\ plan[r] # {} /\ ~Capped(r)
      /\ NextKey(r) \in plan[r] /\ NextKey(r) \in Key
      /\ key' = [key EXCEPT ![r] = NextKey(r)] /\ key'[r] = NextKey(r)
      /\ plan' = [plan EXCEPT ![r] = @ \ {NextKey(r)}] /\ plan'[r] = plan[r] \ {NextKey(r)}
      /\ taken' = [taken EXCEPT ![r] = @ + 1] /\ taken'[r] = taken[r] + 1
      /\ UNCHANGED item
  BY OldestIsIn DEF Claim, Take, NextKey, Goto, CapInv, TypeOK
<1>2. \A q \in Run : q # r => Untouched(q)
  BY <1>1 DEF Untouched, CapInv, TypeOK
<1>3. Counted(r)' = Counted(r) \cup {NextKey(r)}
  BY <1>1 DEF Counted, Handled, Holding
<1>4. \A k \in plan[r] : item[<<r, k>>] = "none"
  BY DEF CapInv, Answers
<1>5. Answers(r)'
  BY <1>1, <1>4 DEF Answers, Before, Holding
<1>6. OneMore(r)
  BY <1>1, <1>3 DEF OneMore, Over
<1> QED
  BY <1>2, <1>5, <1>6, MoreStep

LEMMA AnswerCap ==
    ASSUME CapInv, TypeOK', Located', NEW r \in Run, Preview(r) \/ ClaimRefused(r)
    PROVE  CapInv'
<1>1. PICK s \in {"dry_run", "claimed_by_other_run"} :
      /\ pc[r] = "pick" /\ pc' = pc /\ plan[r] # {} /\ ~Capped(r)
      /\ item' = [item EXCEPT ![<<r, NextKey(r)>>] = s]
      /\ Take(r, 1)
      /\ UNCHANGED key
  BY DEF Preview, ClaimRefused
<1>2. /\ NextKey(r) \in plan[r] /\ NextKey(r) \in Key
      /\ plan' = [plan EXCEPT ![r] = @ \ {NextKey(r)}] /\ plan'[r] = plan[r] \ {NextKey(r)}
      /\ taken' = [taken EXCEPT ![r] = @ + 1] /\ taken'[r] = taken[r] + 1
  BY <1>1, OldestIsIn DEF Take, NextKey, CapInv, TypeOK
<1>3. \A q \in Run, k \in Key : item'[<<q, k>>] = IF q = r /\ k = NextKey(r) THEN s ELSE item[<<q, k>>]
  BY <1>1, <1>2 DEF CapInv, TypeOK
<1>4. \A q \in Run : q # r => Untouched(q)
  BY <1>1, <1>2, <1>3 DEF Untouched, CapInv, TypeOK
<1>5. Handled(r)' = Handled(r) \cup {NextKey(r)}
  BY <1>2, <1>3 DEF Handled
<1>6. Counted(r)' = Counted(r) \cup {NextKey(r)}
  BY <1>1, <1>5 DEF Counted, Holding
<1>7. \A k \in plan'[r] : k \in Key /\ item'[<<r, k>>] = "none"
  BY <1>2, <1>3 DEF CapInv, Answers, TypeOK
<1>8. Answers(r)'
  BY <1>1, <1>7 DEF Answers, Before, Holding
<1>9. \A k \in Key : item'[<<r, k>>] = "capped" => item[<<r, k>>] = "capped"
  BY <1>3
<1>10. OneMore(r)
  BY <1>1, <1>2, <1>6, <1>9 DEF OneMore, Over
<1> QED
  BY <1>4, <1>8, <1>10, MoreStep

\* What is dropped before the start does not count.
LEMMA DropCap ==
    ASSUME CapInv, TypeOK', Located', NEW r \in Run, DropUnsupported(r)
    PROVE  CapInv'
<1>1. PICK d \in plan[r] :
      /\ pc[r] = "pick" /\ pc' = pc /\ UNCHANGED <<key, taken>>
      /\ item' = [item EXCEPT ![<<r, d>>] = "unsupported"]
      /\ plan' = [plan EXCEPT ![r] = @ \ {d}]
  BY DEF DropUnsupported
<1>2. d \in Key /\ plan'[r] = plan[r] \ {d}
  BY <1>1 DEF CapInv, TypeOK
<1>3. \A q \in Run, k \in Key : item'[<<q, k>>] = IF q = r /\ k = d THEN "unsupported" ELSE item[<<q, k>>]
  BY <1>1, <1>2 DEF CapInv, TypeOK
<1>4. \A q \in Run : q # r => Untouched(q)
  BY <1>1, <1>3 DEF Untouched, CapInv, TypeOK
<1>5. item[<<r, d>>] = "none"
  BY DEF CapInv, Answers
<1>6. Handled(r)' = Handled(r)
  BY <1>3, <1>5 DEF Handled
<1>7. Counted(r)' = Counted(r)
  BY <1>1, <1>6 DEF Counted
<1>8. \A k \in plan'[r] : item'[<<r, k>>] = "none"
  <2>1. \A k \in plan[r] : k \in Key /\ item[<<r, k>>] = "none"
    BY DEF CapInv, Answers, TypeOK
  <2> QED
    BY <1>2, <1>3, <2>1
<1>9. Answers(r)'
  BY <1>1, <1>8 DEF Answers, Before, Holding
<1>10. SameCount(r)
  BY <1>1, <1>2, <1>3, <1>7 DEF SameCount, Over, Holding
<1> QED
  BY <1>4, <1>9, <1>10, SameStep

\* The re-verification answers the item in hand.
LEMMA VerifyCap ==
    ASSUME CapInv, TypeOK', Located', NEW r \in Run,
           NEW s \in {"vanished", "changed", "protected", "pending"},
           NEW l \in {"retire", "release", "next"},
           pc[r] = "verify", pc' = [pc EXCEPT ![r] = l],
           item' = [item EXCEPT ![<<r, key[r]>>] = s], UNCHANGED <<key, plan, taken>>
    PROVE  CapInv'
<1>1. pc'[r] = l /\ key[r] \in Key /\ key[r] \notin plan[r]
  BY DEF CapInv, TypeOK, Located, Answers, Holding
<1>2. \A q \in Run, k \in Key : item'[<<q, k>>] = IF q = r /\ k = key[r] THEN s ELSE item[<<q, k>>]
  BY <1>1 DEF CapInv, TypeOK
<1>3. \A q \in Run : q # r => Untouched(q)
  BY <1>2 DEF Untouched, CapInv, TypeOK
<1>4. Handled(r)' = Handled(r) \cup {key[r]}
  BY <1>1, <1>2 DEF Handled
<1>5. Counted(r)' = Counted(r)
  BY <1>1, <1>4 DEF Counted, Holding
<1>6. \A k \in plan[r] : item'[<<r, k>>] = "none"
  BY <1>1, <1>2 DEF CapInv, Answers, TypeOK
<1>7. Answers(r)'
  BY <1>1, <1>2, <1>4, <1>6 DEF Answers, Before, Holding
<1>8. SameCount(r)
  BY <1>1, <1>2, <1>5 DEF SameCount, Over, Holding
<1> QED
  BY <1>3, <1>7, <1>8, SameStep

\* Within the item nothing is answered,
LEMMA WithinCap ==
    ASSUME CapInv, TypeOK', Located', NEW r \in Run, NEW l \in Holding \ {"verify"},
           pc[r] \in Holding, l # "unwind" => pc[r] \notin {"verify", "unwind"},
           pc' = [pc EXCEPT ![r] = l], UNCHANGED <<item, key, plan, taken>>
    PROVE  CapInv'
<1>1. pc'[r] = l
  BY DEF CapInv, TypeOK
<1>2. \A q \in Run : q # r => Untouched(q)
  BY DEF Untouched, CapInv, TypeOK
<1>3. Handled(r)' = Handled(r)
  BY DEF Handled
<1>4. Counted(r)' = Counted(r)
  BY <1>1, <1>3 DEF Counted
<1>5. l \notin Before
  BY DEF Before, Holding
<1>6. Answers(r)'
  BY <1>1, <1>3, <1>5 DEF CapInv, Answers
<1>7. SameCount(r)
  BY <1>1, <1>4 DEF SameCount, Over, Holding
<1> QED
  BY <1>2, <1>6, <1>7, SameStep

\* and when it is released it has been.
LEMMA ReleaseCap ==
    ASSUME CapInv, TypeOK', Located', NEW r \in Run, Release(r)
    PROVE  CapInv'
<1>1. PICK l \in {"finish", "pick"} :
      /\ pc[r] = "release" /\ pc' = [pc EXCEPT ![r] = l] /\ pc'[r] = l
      /\ key' = [key EXCEPT ![r] = NoKey] /\ UNCHANGED <<item, plan, taken>>
  BY DEF Release, ResetItem, Goto, CapInv, TypeOK
<1>2. \A q \in Run : q # r => Untouched(q)
  BY <1>1 DEF Untouched, CapInv, TypeOK
<1>3. Handled(r)' = Handled(r) /\ key[r] \in Handled(r)
  BY <1>1 DEF Handled, CapInv, Answers, Holding
<1>4. Counted(r)' = Counted(r)
  BY <1>1, <1>3 DEF Counted, Holding
<1>5. Answers(r)'
  BY <1>1 DEF CapInv, Answers, Before, Holding
<1>6. SameCount(r)
  BY <1>1, <1>4 DEF SameCount, Over, Holding
<1> QED
  BY <1>2, <1>5, <1>6, SameStep

\* The phases before the items.
LEMMA EarlyCap ==
    ASSUME CapInv, TypeOK', Located', NEW r \in Run, NEW l \in Location \ (Holding \cup {"dead"}),
           pc[r] \in Before, pc' = [pc EXCEPT ![r] = l], UNCHANGED <<item, taken>>,
           \A q \in Run : q # r => key'[q] = key[q] /\ plan'[q] = plan[q]
    PROVE  CapInv'
<1>1. pc'[r] = l /\ pc[r] \notin Holding
  BY DEF CapInv, TypeOK, Before, Holding
<1>2. \A q \in Run : q # r => Untouched(q)
  BY DEF Untouched, CapInv, TypeOK
<1>3. Counted(r) = {} /\ (\A k \in Key : item[<<r, k>>] = "none") /\ taken[r] = 0
  BY BeforeNone DEF CapInv, Answers
<1>4. Counted(r)' = {}
  BY <1>1, <1>3 DEF Counted, Handled
<1>5. \A k \in plan'[r] : k \in Key
  BY DEF TypeOK
<1>6. Answers(r)'
  BY <1>1, <1>3, <1>5 DEF Answers
<1>7. SameCount(r)
  BY <1>1, <1>3, <1>4 DEF SameCount, Before, Over
<1> QED
  BY <1>2, <1>6, <1>7, SameStep
----------------------------------------------------------------------------
\* Every step keeps the invariant.
LEMMA CapStep ==
    ASSUME CapInv, [Next]_vars
    PROVE  CapInv'
<1>0. TypeOK' /\ Located'
  BY NextTyped DEF CapInv
<1>1. ASSUME NEW r \in Run, Decide(r) PROVE CapInv'
  BY <1>0, <1>1, DecideCap
<1>2. ASSUME NEW r \in Run, SkipCapped(r) PROVE CapInv'
  BY <1>0, <1>2, CappedCap
<1>3. ASSUME NEW r \in Run, Claim(r) PROVE CapInv'
  BY <1>0, <1>3, ClaimCap
<1>4. ASSUME NEW r \in Run, DropUnsupported(r) PROVE CapInv'
  BY <1>0, <1>4, DropCap
<1>5. ASSUME NEW r \in Run, Release(r) PROVE CapInv'
  BY <1>0, <1>5, ReleaseCap
<1>6. ASSUME NEW r \in Run, Preview(r) \/ ClaimRefused(r) PROVE CapInv'
  BY <1>0, <1>6, AnswerCap
<1>7. ASSUME NEW r \in Run, Begin(r) PROVE CapInv'
  <2>1. /\ pc[r] = "idle" /\ pc' = [pc EXCEPT ![r] = "reconcile"] /\ UNCHANGED <<item, taken>>
        /\ \A q \in Run : q # r => key'[q] = key[q] /\ plan'[q] = plan[q]
    BY <1>7 DEF Begin, Goto, store, job, CapInv, TypeOK
  <2> QED
    BY <1>0, <2>1, EarlyCap DEF Before, Location, Live, Holding
<1>8. ASSUME NEW r \in Run, Busy(r) PROVE CapInv'
  <2>1. /\ pc[r] = "idle" /\ pc' = [pc EXCEPT ![r] = "done"] /\ UNCHANGED <<item, taken>>
        /\ \A q \in Run : q # r => key'[q] = key[q] /\ plan'[q] = plan[q]
    BY <1>8 DEF Busy, Goto, store, job, CapInv, TypeOK
  <2> QED
    BY <1>0, <2>1, EarlyCap DEF Before, Location, Live, Holding
<1>9. ASSUME NEW r \in Run, CloseRow(r) PROVE CapInv'
  <2>1. /\ pc[r] = "reconcile" /\ pc' = [pc EXCEPT ![r] = "unclaim"] /\ UNCHANGED <<item, taken>>
        /\ \A q \in Run : q # r => key'[q] = key[q] /\ plan'[q] = plan[q]
    BY <1>9 DEF CloseRow, Goto, store, job, CapInv, TypeOK
  <2> QED
    BY <1>0, <2>1, EarlyCap DEF Before, Location, Live, Holding
<1>10. ASSUME NEW r \in Run, Unclaim(r) PROVE CapInv'
  <2>1. /\ pc[r] = "unclaim" /\ pc' = [pc EXCEPT ![r] = "reconcile"] /\ UNCHANGED <<item, taken>>
        /\ \A q \in Run : q # r => key'[q] = key[q] /\ plan'[q] = plan[q]
    BY <1>10 DEF Unclaim, Goto, store, job, CapInv, TypeOK
  <2> QED
    BY <1>0, <2>1, EarlyCap DEF Before, Location, Live, Holding
<1>11. ASSUME NEW r \in Run, Scan(r) PROVE CapInv'
  <2>1. /\ pc[r] = "reconcile" /\ pc' = [pc EXCEPT ![r] = "load"] /\ UNCHANGED <<item, taken>>
        /\ \A q \in Run : q # r => key'[q] = key[q] /\ plan'[q] = plan[q]
    BY <1>11 DEF Scan, Goto, store, job, CapInv, TypeOK
  <2> QED
    BY <1>0, <2>1, EarlyCap DEF Before, Location, Live, Holding
<1>12. ASSUME NEW r \in Run, Load(r) PROVE CapInv'
  <2>1. /\ pc[r] = "load" /\ pc' = [pc EXCEPT ![r] = "decide"] /\ UNCHANGED <<item, taken>>
        /\ \A q \in Run : q # r => key'[q] = key[q] /\ plan'[q] = plan[q]
    BY <1>12 DEF Load, Goto, store, job, CapInv, TypeOK
  <2> QED
    BY <1>0, <2>1, EarlyCap DEF Before, Location, Live, Holding
<1>13. ASSUME NEW r \in Run, VerifyVanished(r) PROVE CapInv'
  BY <1>0, <1>13, VerifyCap DEF VerifyVanished, Goto, job
<1>14. ASSUME NEW r \in Run, VerifyChanged(r) PROVE CapInv'
  BY <1>0, <1>14, VerifyCap DEF VerifyChanged, Goto, job
<1>15. ASSUME NEW r \in Run, VerifyProtected(r) PROVE CapInv'
  BY <1>0, <1>15, VerifyCap DEF VerifyProtected, Goto, job
<1>16. ASSUME NEW r \in Run, VerifyOk(r) PROVE CapInv'
  BY <1>0, <1>16, VerifyCap DEF VerifyOk, Goto, job
<1>17. ASSUME NEW r \in Run, VerifyError(r) PROVE CapInv'
  <2>1. /\ pc[r] = "verify" /\ pc' = [pc EXCEPT ![r] = "unwind"]
        /\ UNCHANGED <<item, key, plan, taken>>
    BY <1>17 DEF VerifyError, Goto, store, job
  <2> QED
    BY <1>0, <2>1, WithinCap DEF Holding
<1>18. ASSUME NEW r \in Run, Interrupt(r) PROVE CapInv'
  <2>1. /\ pc[r] \in Holding /\ pc' = [pc EXCEPT ![r] = "unwind"]
        /\ UNCHANGED <<item, key, plan, taken>>
    BY <1>18 DEF Interrupt, Goto, store, job
  <2> QED
    BY <1>0, <2>1, WithinCap DEF Holding
<1>19. ASSUME NEW r \in Run, Insert(r) PROVE CapInv'
  <2>1. PICK l \in {"pending", "next"} : /\ pc[r] = "next" /\ pc' = [pc EXCEPT ![r] = l]
          /\ UNCHANGED <<item, key, plan, taken>>
    BY <1>19 DEF Insert, Goto, store, job
  <2> QED
    BY <1>0, <2>1, WithinCap DEF Holding
<1>20. ASSUME NEW r \in Run, Start(r) PROVE CapInv'
  <2>1. /\ pc[r] = "pending" /\ pc' = [pc EXCEPT ![r] = "in_flight"]
        /\ UNCHANGED <<item, key, plan, taken>>
    BY <1>20 DEF Start, Goto, store, job
  <2> QED
    BY <1>0, <2>1, WithinCap DEF Holding
<1>21. ASSUME NEW r \in Run, Exists(r) PROVE CapInv'
  <2>1. /\ pc[r] = "in_flight" /\ pc' = [pc EXCEPT ![r] = "checked"]
        /\ UNCHANGED <<item, key, plan, taken>>
    BY <1>21 DEF Exists, Performing, Goto, store, job
  <2> QED
    BY <1>0, <2>1, WithinCap DEF Holding
<1>22. ASSUME NEW r \in Run, DoBackup(r) PROVE CapInv'
  <2>1. /\ pc[r] = "in_flight" /\ pc' = [pc EXCEPT ![r] = "effect"]
        /\ UNCHANGED <<item, key, plan, taken>>
    BY <1>22 DEF DoBackup, Performing, Ends, Goto, store, job
  <2> QED
    BY <1>0, <2>1, WithinCap DEF Holding
<1>23. ASSUME NEW r \in Run, DoRoute(r) PROVE CapInv'
  <2>1. /\ pc[r] = "in_flight" /\ pc' = [pc EXCEPT ![r] = "effect"]
        /\ UNCHANGED <<item, key, plan, taken>>
    BY <1>23 DEF DoRoute, Performing, Ends, Goto, store, job
  <2> QED
    BY <1>0, <2>1, WithinCap DEF Holding
<1>24. ASSUME NEW r \in Run, DoLabel(r) PROVE CapInv'
  <2>1. /\ pc[r] = "checked" /\ pc' = [pc EXCEPT ![r] = "effect"]
        /\ UNCHANGED <<item, key, plan, taken>>
    BY <1>24 DEF DoLabel, Sending, Ends, Goto, store, job
  <2> QED
    BY <1>0, <2>1, WithinCap DEF Holding
<1>25. ASSUME NEW r \in Run, DoMove(r) PROVE CapInv'
  <2>1. /\ pc[r] = "checked" /\ pc' = [pc EXCEPT ![r] = "effect"]
        /\ UNCHANGED <<item, key, plan, taken>>
    BY <1>25 DEF DoMove, Sending, Ends, Goto, store, job
  <2> QED
    BY <1>0, <2>1, WithinCap DEF Holding
<1>26. ASSUME NEW r \in Run, MutationVanished(r) PROVE CapInv'
  <2>1. /\ pc[r] = "in_flight" /\ pc' = [pc EXCEPT ![r] = "effect"]
        /\ UNCHANGED <<item, key, plan, taken>>
    BY <1>26 DEF MutationVanished, Performing, Ends, Goto, store, job
  <2> QED
    BY <1>0, <2>1, WithinCap DEF Holding
<1>27. ASSUME NEW r \in Run, Refused(r) PROVE CapInv'
  <2>1. /\ pc[r] \in {"in_flight", "checked"} /\ pc' = [pc EXCEPT ![r] = "effect"]
        /\ UNCHANGED <<item, key, plan, taken>>
    BY <1>27 DEF Refused, Performing, Sending, Ends, Goto, store, job
  <2> QED
    BY <1>0, <2>1, WithinCap DEF Holding
<1>28. ASSUME NEW r \in Run, Unsupported(r) PROVE CapInv'
  <2>1. /\ pc[r] = "in_flight" /\ pc' = [pc EXCEPT ![r] = "effect"]
        /\ UNCHANGED <<item, key, plan, taken>>
    BY <1>28 DEF Unsupported, Performing, Ends, Goto, store, job
  <2> QED
    BY <1>0, <2>1, WithinCap DEF Holding
<1>29. ASSUME NEW r \in Run, Record(r) PROVE CapInv'
  <2>1. PICK l \in {"retire", "next"} : /\ pc[r] = "effect" /\ pc' = [pc EXCEPT ![r] = l]
          /\ UNCHANGED <<item, key, plan, taken>>
    BY <1>29 DEF Record, Goto, store, job
  <2> QED
    BY <1>0, <2>1, WithinCap DEF Holding
<1>30. ASSUME NEW r \in Run, Retire(r) PROVE CapInv'
  <2>1. PICK l \in {"release", "next"} : /\ pc[r] = "retire" /\ pc' = [pc EXCEPT ![r] = l]
          /\ UNCHANGED <<item, key, plan, taken>>
    BY <1>30 DEF Retire, Goto, store, job
  <2> QED
    BY <1>0, <2>1, WithinCap DEF Holding
<1>31. ASSUME NEW r \in Run, SequenceDone(r) PROVE CapInv'
  <2>1. /\ pc[r] = "next" /\ pc' = [pc EXCEPT ![r] = "release"]
        /\ UNCHANGED <<item, key, plan, taken>>
    BY <1>31 DEF SequenceDone, Goto, store, job
  <2> QED
    BY <1>0, <2>1, WithinCap DEF Holding
<1>32. ASSUME NEW r \in Run, Finish(r) PROVE CapInv'
  BY <1>0, <1>32, LastStep DEF Finish, Over, store
<1>33. ASSUME NEW r \in Run, Crash(r) PROVE CapInv'
  BY <1>0, <1>33, LastStep DEF Crash, Over, store
<1>34. ASSUME NEW r \in Run, Abort(r) PROVE CapInv'
  BY <1>0, <1>34, LastStep DEF Abort, Over, store
<1>35. ASSUME NEW r \in Run, Unwind(r) PROVE CapInv'
  BY <1>0, <1>35, LastStep DEF Unwind, Over, store
<1>36. ASSUME Environment PROVE CapInv'
  <2>1. \A q \in Run : Untouched(q)
    BY <1>36 DEF Environment, Others, Arrive, Flag, Unflag, Remove, Renumber, store, job, Untouched
  <2> QED
    BY <1>0, <2>1, StillCapped DEF CapInv
<1>37. CASE UNCHANGED vars
  <2>1. \A q \in Run : Untouched(q)
    BY <1>37 DEF vars, store, job, Untouched
  <2> QED
    BY <1>0, <2>1, StillCapped DEF CapInv
<1> QED
  BY <1>1, <1>2, <1>3, <1>4, <1>5, <1>6, <1>7, <1>8, <1>9, <1>10, <1>11, <1>12,
     <1>13, <1>14, <1>15, <1>16, <1>17, <1>18, <1>19, <1>20, <1>21, <1>22, <1>23,
     <1>24, <1>25, <1>26, <1>27, <1>28, <1>29, <1>30, <1>31, <1>32, <1>33, <1>34,
     <1>35, <1>36, <1>37
  DEF Next, Step, Fault, Phases, Pick, Verify, Perform, RunActions, Failure
----------------------------------------------------------------------------
\* Whatever fails and whatever other runs do, a run takes up no more items than
\* max_actions, and only items at least as young as that many others are capped.
THEOREM CapStaysExact == Spec => []CapIsExact
<1>1. Init => CapInv
  BY InitCap
<1>2. CapInv /\ [Next]_vars => CapInv'
  BY CapStep
<1>3. CapInv => CapIsExact
  <2> SUFFICES ASSUME CapInv, NEW r \in Run
               PROVE  /\ Cardinality(Handled(r)) <= Cap(r)
                      /\ \A k \in Key : item[<<r, k>>] = "capped" =>
                            Cardinality({j \in Handled(r) : Age[j] <= Age[k]}) = Cap(r)
    BY DEF CapIsExact, Cap
  <2>1. /\ IsFiniteSet(Counted(r)) /\ Cardinality(Counted(r)) <= Cap(r)
        /\ Handled(r) \subseteq Counted(r) /\ Cap(r) \in Nat
    BY TasksAssumption, RunsAssumption DEF CapInv, Counts, Counted, Cap
  <2>2. IsFiniteSet(Handled(r)) /\ Cardinality(Handled(r)) <= Cardinality(Counted(r))
    BY <2>1, FS_Subset
  <2>3. Cardinality(Counted(r)) \in Nat /\ Cardinality(Handled(r)) \in Nat
    BY <2>1, <2>2, FS_CardinalityType
  <2>4. ASSUME NEW k \in Key, item[<<r, k>>] = "capped"
        PROVE  Cardinality({j \in Handled(r) : Age[j] <= Age[k]}) = Cap(r)
    <3>1. /\ pc[r] \notin Holding
          /\ Cardinality(Counted(r)) = Cap(r)
          /\ \A j \in Counted(r) : Age[j] <= Age[k]
      BY <2>4 DEF CapInv, Ordered
    <3>2. Counted(r) = Handled(r)
      BY <3>1 DEF Counted
    <3>3. {j \in Handled(r) : Age[j] <= Age[k]} = Handled(r)
      BY <3>1, <3>2
    <3> QED
      BY <3>1, <3>2, <3>3
  <2> QED
    BY <2>1, <2>2, <2>3, <2>4
<1> QED
  BY <1>1, <1>2, <1>3, PTL DEF Spec
=============================================================================
