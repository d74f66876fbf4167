----------------------------- MODULE ScanProofs -----------------------------
(***************************************************************************)
(* Theorems about Scan, for any tasks, mailboxes, caps and routes, and any  *)
(* number of arrivals, removals, renumberings and failures.                 *)
(***************************************************************************)
EXTENDS Scan, FiniteSetTheorems, TLAPS

\* What is in a mailbox has a UID of its present UIDVALIDITY; no key is used ahead of it.
Served ==
    /\ \A k \in here : was[k] # NoMsg /\ Current(k)
    /\ \A k \in Key : was[k] # NoMsg => k[2] <= validity[k[1]]

\* Where a scan is, and what it has by then: what it fetches fits under the cap and
\* leaves no gap below it.
Reading(t) ==
    /\ pc[t] = "select" => turn[t] \in Nat \ {0}
    /\ pc[t] \in {"note", "search", "fetch", "save", "peek", "mark"}
           => turn[t] \in DOMAIN Sources[t] /\ seen[t] \in Validity /\ seen[t] <= validity[At(t)]
    /\ pc[t] \in {"note", "search", "fetch", "save"} => saved[t] < Cap[t]
    /\ pc[t] \in {"fetch", "save"} =>
           /\ Cardinality(fresh[t]) <= Cap[t] - saved[t]
           /\ \A x \in fresh[t] :
                 /\ was[KeyAt(t, x)] # NoMsg
                 /\ \A u \in 1..(x - 1) : Connected(t) /\ KeyAt(t, u) \in here
                        => u \in fresh[t] \/ row[KeyAt(t, u)] # NoMsg

\* A body is that of the subject, or of the message with its UID under a later
\* UIDVALIDITY.
Judging(t) ==
    /\ pc[t] \in {"body", "act"} => subject[t] \in Key /\ row[subject[t]] # NoMsg
    /\ pc[t] = "act" /\ body[t] # NoMsg =>
           \E v \in Validity : /\ subject[t][2] <= v /\ v <= validity[subject[t][1]]
                               /\ body[t] = was[<<subject[t][1], v, subject[t][3]>>]

IInv ==
    /\ TypeOK
    /\ Served
    /\ RowsAreTrue
    /\ NoGaps
    /\ \A t \in Task : Reading(t)
    /\ \A t \in Task : Judging(t)
----------------------------------------------------------------------------
\* What the proofs use of the assumptions.
LEMMA Types ==
    /\ Uid \subseteq Nat \ {0}
    /\ IsFiniteSet(Uid)
    /\ \A x \in Uid : \A u \in 1..(x - 1) : u \in Uid /\ u < x
    /\ Validity \subseteq Nat \ {0}
    /\ 1 \in Validity
    /\ Sources \in [Task -> Seq(Box)]
    /\ Cap \in [Task -> Nat \ {0}]
    /\ RouteTo \in [Task -> Task]
    /\ MaxEvents \in Nat
    /\ NoMsg \notin Msg
<1>1. ASSUME NEW n \in Nat
      PROVE  /\ 1..n \subseteq Nat \ {0} /\ (1..n # {} => 1 \in 1..n)
             /\ \A x \in 1..n : \A u \in 1..(x - 1) : u \in 1..n /\ u < x
  OBVIOUS
<1>2. Cardinality(Uid) \in Nat /\ Cardinality(Validity) \in Nat
  BY ScanAssumption, FS_CardinalityType
<1>3. Uid \subseteq Nat \ {0} /\ \A x \in Uid : \A u \in 1..(x - 1) : u \in Uid /\ u < x
  BY <1>1, <1>2, ScanAssumption, Zenon
<1>4. Validity \subseteq Nat \ {0} /\ 1 \in Validity
  BY <1>1, <1>2, ScanAssumption, Zenon
<1> QED
  BY <1>3, <1>4, ScanAssumption, Zenon

\* The UIDs taken under the cap are no more than it allows, and the lowest ones.
LEMMA LowestBounded ==
    ASSUME NEW S \in SUBSET Uid, NEW n \in Nat
    PROVE  /\ IsFiniteSet(Lowest(S, n))
           /\ Cardinality(Lowest(S, n)) <= n
<1> DEFINE Below(x) == {y \in S : y < x}
           L == Lowest(S, n)
           f == [x \in L |-> Cardinality(Below(x)) + 1]
<1>1. IsFiniteSet(S) /\ S \subseteq Nat
  BY Types, FS_Subset
<1>2. \A x \in S : IsFiniteSet(Below(x)) /\ Cardinality(Below(x)) \in Nat
  <2> SUFFICES ASSUME NEW x \in S PROVE IsFiniteSet(Below(x)) /\ Cardinality(Below(x)) \in Nat
    OBVIOUS
  <2>1. IsFiniteSet(Below(x))
    BY <1>1, FS_Subset
  <2> QED
    BY <2>1, FS_CardinalityType
<1>3. f \in [L -> 1..n]
  BY <1>2 DEF Lowest
<1>4. ASSUME NEW x \in L, NEW y \in L, x < y
      PROVE  f[x] # f[y]
  <2>1. x \in S /\ x \in Nat /\ y \in Nat
    BY <1>1 DEF Lowest
  <2>2. \A z \in S : z \in Nat /\ (z < x => z < y)
    BY <1>1, <1>4, <2>1
  <2>3. Below(x) \subseteq Below(y)
    BY <2>2
  <2>4. x \in Below(y) /\ x \notin Below(x)
    BY <1>4, <2>1
  <2>5. Cardinality(Below(x)) # Cardinality(Below(y))
    BY <2>1, <2>3, <2>4, <1>2, FS_Subset DEF Lowest
  <2> HIDE DEF Below
  <2> QED
    BY <2>5, <1>2 DEF Lowest
<1>5. \A x, y \in L : f[x] = f[y] => x = y
  <2> HIDE DEF f
  <2> QED
    BY <1>1, <1>4 DEF Lowest
<1>6. f \in Injection(L, 1..n)
  BY <1>3, <1>5 DEF Injection, IsInjective
<1>7. IsFiniteSet(1..n) /\ Cardinality(1..n) = n
  BY FS_Interval
<1> HIDE DEF f, L
<1>8. IsFiniteSet(L) /\ Cardinality(L) <= n
  BY <1>6, <1>7, FS_Injection
<1> QED
  BY <1>8 DEF L

LEMMA LowestFirst ==
    ASSUME NEW S \in SUBSET Uid, NEW n \in Nat, NEW x \in Lowest(S, n), NEW y \in S, y < x
    PROVE  y \in Lowest(S, n)
<1>1. IsFiniteSet(S) /\ S \subseteq Nat
  BY Types, FS_Subset
<1>0. x \in Nat /\ \A z \in S : z \in Nat /\ (z < y => z < x)
  BY <1>1 DEF Lowest
<1>2. {z \in S : z < y} \subseteq {z \in S : z < x}
  BY <1>0
<1>3. IsFiniteSet({z \in S : z < x})
  BY <1>1, FS_Subset
<1>4. Cardinality({z \in S : z < y}) <= Cardinality({z \in S : z < x}) /\ IsFiniteSet({z \in S : z < y})
  BY <1>2, <1>3, FS_Subset
<1>5. Cardinality({z \in S : z < y}) \in Nat /\ Cardinality({z \in S : z < x}) \in Nat
  BY <1>3, <1>4, FS_CardinalityType
<1> QED
  BY <1>4, <1>5 DEF Lowest

\* A renumbered mailbox has room for its messages.
LEMMA RoomToRenumber ==
    ASSUME IInv, NEW b \in Box
    PROVE  1..Cardinality({k \in here : k[1] = b}) \subseteq Uid
<1> DEFINE old == {k \in here : k[1] = b}
           f == [k \in old |-> k[3]]
<1>1. f \in [old -> Uid]
  BY DEF IInv, TypeOK, Key
<1>2. \A j, k \in old : f[j] = f[k] => j = k
  BY DEF IInv, TypeOK, Served, Current, Key
<1>3. f \in Injection(old, Uid)
  BY <1>1, <1>2 DEF Injection, IsInjective
<1>4. IsFiniteSet(old) /\ Cardinality(old) <= Cardinality(Uid)
  <2> HIDE DEF f, old
  <2> QED
    BY <1>3, Types, FS_Injection
<1>5. Cardinality(old) \in Nat /\ Cardinality(Uid) \in Nat
  BY <1>4, Types, FS_CardinalityType
<1>6. \A n, m \in Nat : n <= m => 1..n \subseteq 1..m
  OBVIOUS
<1>7. 1..Cardinality(old) \subseteq 1..Cardinality(Uid)
  <2> HIDE DEF old
  <2> QED
    BY <1>4, <1>5, <1>6
<1> QED
  BY <1>7, ScanAssumption, Zenon
----------------------------------------------------------------------------
LEMMA InitInv == Init => IInv
<1> SUFFICES ASSUME Init PROVE IInv
  OBVIOUS
<1> USE Types DEF Init, Key, Current
<1>0. was \in [Key -> Msg \cup {NoMsg}]
  <2> SUFFICES ASSUME NEW k \in Key, k[2] = 1, k[3] <= Len(Inbox[k[1]])
               PROVE  Inbox[k[1]][k[3]] \in Msg
    OBVIOUS
  <2>0. Inbox \in [Box -> Seq(Msg)]
    BY ScanAssumption
  <2>1. k[1] \in Box /\ k[3] \in Nat \ {0}
    OBVIOUS
  <2> QED
    BY <2>0, <2>1
<1>1. TypeOK
  BY <1>0 DEF TypeOK, Step
<1>2. Served /\ RowsAreTrue /\ NoGaps
  BY DEF Served, RowsAreTrue, NoGaps
<1>3. \A t \in Task : Reading(t) /\ Judging(t)
  BY DEF Reading, Judging
<1> QED
  BY <1>1, <1>2, <1>3 DEF IInv

\* A judgement stands while its subject and its body do, whatever the server and the
\* table have added since.
SameSubject(t) ==
    pc'[t] \in {"body", "act"} => pc'[t] = pc[t] /\ subject'[t] = subject[t] /\ body'[t] = body[t]
Grown ==
    /\ \A k \in Key : was[k] # NoMsg => was'[k] = was[k]
    /\ \A k \in Key : row[k] # NoMsg => row'[k] # NoMsg
    /\ \A b \in Box : validity'[b] = validity[b]
                      \/ (validity'[b] \in Nat /\ validity[b] <= validity'[b])

LEMMA StillGrown ==
    ASSUME validity' = validity,
           was' = was \/ \A k \in Key : was[k] # NoMsg => was'[k] = was[k],
           row' = row \/ \A k \in Key : row[k] # NoMsg => row'[k] # NoMsg
    PROVE  Grown
<1>1. \A k \in Key : was[k] # NoMsg => was'[k] = was[k]
  OBVIOUS
<1>2. \A k \in Key : row[k] # NoMsg => row'[k] # NoMsg
  OBVIOUS
<1>3. \A b \in Box : validity'[b] = validity[b]
  OBVIOUS
<1> QED
  BY <1>1, <1>2, <1>3 DEF Grown

LEMMA JudgingStands ==
    ASSUME TypeOK, NEW t \in Task, Judging(t), SameSubject(t), Grown
    PROVE  Judging(t)'
<1> USE Types DEF TypeOK
<1>1. pc'[t] \in {"body", "act"} => subject'[t] \in Key /\ row'[subject'[t]] # NoMsg
  BY DEF Judging, SameSubject, Grown
<1>2. ASSUME pc'[t] = "act", body'[t] # NoMsg
      PROVE  \E v \in Validity : /\ subject'[t][2] <= v /\ v <= validity'[subject'[t][1]]
                                 /\ body'[t] = was'[<<subject'[t][1], v, subject'[t][3]>>]
  <2>1. PICK v \in Validity : /\ subject[t][2] <= v /\ v <= validity[subject[t][1]]
                              /\ body[t] = was[<<subject[t][1], v, subject[t][3]>>]
    BY <1>2 DEF Judging, SameSubject, Grown
  <2>2. subject[t] \in Key /\ subject'[t] = subject[t] /\ body'[t] = body[t]
    BY <1>1, <1>2 DEF SameSubject, Grown
  <2>3. subject[t][1] \in Box /\ subject[t][2] \in Nat /\ <<subject[t][1], v, subject[t][3]>> \in Key
    BY <2>2 DEF Key
  <2>4. was'[<<subject[t][1], v, subject[t][3]>>] = body[t]
    BY <1>2, <2>1, <2>2, <2>3 DEF SameSubject, Grown
  <2>5. v <= validity'[subject[t][1]]
    <3>1. validity[subject[t][1]] \in Nat
      BY <2>3
    <3>2. validity'[subject[t][1]] = validity[subject[t][1]]
             \/ (validity'[subject[t][1]] \in Nat /\ validity[subject[t][1]] <= validity'[subject[t][1]])
      BY <2>3 DEF Grown
    <3>3. v \in Nat
      OBVIOUS
    <3> QED
      BY <2>1, <3>1, <3>2, <3>3
  <2> QED
    BY <2>1, <2>2, <2>4, <2>5
<1> QED
  BY <1>1, <1>2 DEF Judging

\* The scan and what follows keep the invariant,
LEMMA RunningStep ==
    ASSUME IInv, NEW r \in Task, Running(r)
    PROVE  IInv'
<1>0. TypeOK /\ \A t \in Task : Judging(t)
  BY DEF IInv
<1>n. \A b \in Box : validity[b] \in Nat /\ validity[b] <= validity[b] /\ ~(validity[b] + 1 <= validity[b])
  <2>1. \A n \in Nat : n <= n /\ ~(n + 1 <= n)
    OBVIOUS
  <2>2. \A b \in Box : validity[b] \in Nat
    BY <1>0, Types DEF TypeOK
  <2> QED
    BY <2>1, <2>2, Zenon
<1> USE Types
    DEF IInv, TypeOK, Served, RowsAreTrue, NoGaps, Reading, Key, Step, Goto, At, KeyAt,
        Current, Connected, Forget, server, tables, scanning, judging
<1>1. CASE Start(r)
  <2>1. TypeOK'
    BY <1>1 DEF Start
  <2>2. Served' /\ RowsAreTrue'
    BY <1>1 DEF Start
  <2>3. NoGaps'
    BY <1>1 DEF Start
  <2>4. \A t \in Task : Reading(t)'
    BY <1>1 DEF Start
  <2>grown. Grown
    BY <1>1, StillGrown DEF Start
  <2>same. \A t \in Task : SameSubject(t)
    BY <1>1 DEF Start, SameSubject
  <2>6. \A t \in Task : Judging(t)'
    BY <1>0, <2>grown, <2>same, JudgingStands
  <2> QED
    BY <2>1, <2>2, <2>3, <2>4, <2>6 DEF IInv
<1>2. CASE EndScan(r)
  <2>1. TypeOK'
    BY <1>2 DEF EndScan
  <2>2. Served' /\ RowsAreTrue'
    BY <1>2 DEF EndScan
  <2>3. NoGaps'
    BY <1>2 DEF EndScan
  <2>4. \A t \in Task : Reading(t)'
    BY <1>2 DEF EndScan
  <2>grown. Grown
    BY <1>2, StillGrown DEF EndScan
  <2>same. \A t \in Task : SameSubject(t)
    BY <1>2 DEF EndScan, SameSubject
  <2>6. \A t \in Task : Judging(t)'
    BY <1>0, <2>grown, <2>same, JudgingStands
  <2> QED
    BY <2>1, <2>2, <2>3, <2>4, <2>6 DEF IInv
<1>3. CASE Select(r)
  <2>1. TypeOK'
    BY <1>3 DEF Select, ScanOver
  <2>2. Served' /\ RowsAreTrue'
    BY <1>3 DEF Select, ScanOver
  <2>3. NoGaps'
    BY <1>3 DEF Select, ScanOver
  <2>7. turn[r] \in DOMAIN Sources[r] /\ At(r) \in Box
    BY <1>3 DEF Select, ScanOver
  <2>8. Reading(r)'
    <3>1. pc'[r] = "note" /\ turn' = turn /\ saved' = saved /\ validity' = validity
      BY <1>3 DEF Select
    <3>2. saved[r] < Cap[r]
      BY <1>3 DEF Select, ScanOver
    <3>3. seen'[r] = validity[At(r)]
      BY <1>3 DEF Select
    <3>4. At(r)' = At(r) /\ validity[At(r)] \in Validity
      BY <2>7, <3>1
    <3> QED
      BY <1>n, <2>7, <3>1, <3>2, <3>3, <3>4
  <2>9. \A t \in Task \ {r} : Reading(t)'
    BY <1>3 DEF Select
  <2>4. \A t \in Task : Reading(t)'
    BY <2>8, <2>9
  <2>grown. Grown
    BY <1>3, StillGrown DEF Select, ScanOver
  <2>same. \A t \in Task : SameSubject(t)
    BY <1>3 DEF Select, ScanOver, SameSubject
  <2>6. \A t \in Task : Judging(t)'
    BY <1>0, <2>grown, <2>same, JudgingStands
  <2> QED
    BY <2>1, <2>2, <2>3, <2>4, <2>6 DEF IInv
<1>4. CASE Note(r)
  <2>1. TypeOK'
    BY <1>4 DEF Note
  <2>2. Served' /\ RowsAreTrue'
    BY <1>4 DEF Note
  <2>3. NoGaps'
    BY <1>4 DEF Note
  <2>4. \A t \in Task : Reading(t)'
    BY <1>4 DEF Note
  <2>grown. Grown
    BY <1>4, StillGrown DEF Note
  <2>same. \A t \in Task : SameSubject(t)
    BY <1>4 DEF Note, SameSubject
  <2>6. \A t \in Task : Judging(t)'
    BY <1>0, <2>grown, <2>same, JudgingStands
  <2> QED
    BY <2>1, <2>2, <2>3, <2>4, <2>6 DEF IInv
<1>5. CASE Search(r)
  <2>7. PICK S \in SUBSET Uid : /\ fresh'[r] = Lowest(S, Cap[r] - saved[r])
                               /\ S \subseteq {u \in Uid : KeyAt(r, u) \in here}
                               /\ \A u \in Uid \ S : KeyAt(r, u) \in here => row[KeyAt(r, u)] # NoMsg
    <3> DEFINE there == {u \in Uid : KeyAt(r, u) \in here}
               tracked == IF moved[r] THEN {} ELSE {u \in there : row[KeyAt(r, u)] # NoMsg}
    <3>1. fresh'[r] = Lowest(there \ tracked, Cap[r] - saved[r])
      BY <1>5 DEF Search, Cut
    <3>2. \A u \in Uid \ (there \ tracked) : KeyAt(r, u) \in here => row[KeyAt(r, u)] # NoMsg
      OBVIOUS
    <3> WITNESS there \ tracked \in SUBSET Uid
    <3> QED
      BY <3>1, <3>2
  <2>8. Cap[r] - saved[r] \in Nat
    BY <1>5 DEF Search
  <2>9. fresh'[r] \subseteq S /\ fresh'[r] \subseteq Uid
    BY <2>7 DEF Lowest
  <2>10. Cardinality(fresh'[r]) <= Cap[r] - saved[r]
    BY <2>7, <2>8, LowestBounded
  <2>11. \A x \in fresh'[r], u \in S : u < x => u \in fresh'[r]
    BY <2>7, <2>8, LowestFirst
  <2>1. TypeOK'
    BY <1>5, <2>9 DEF Search
  <2>2. Served' /\ RowsAreTrue'
    BY <1>5 DEF Search, Cut
  <2>3. NoGaps'
    BY <1>5 DEF Search, Cut
  <2>12. ASSUME NEW x \in fresh'[r]
         PROVE  /\ was[KeyAt(r, x)] # NoMsg
                /\ \A u \in 1..(x - 1) : KeyAt(r, u) \in here => u \in fresh'[r] \/ row[KeyAt(r, u)] # NoMsg
    <3>1. x \in S /\ x \in Uid
      BY <2>9
    <3>2. \A u \in 1..(x - 1) : u \in Uid /\ u < x
      BY <3>1
    <3> QED
      BY <2>7, <2>11, <3>1, <3>2
  <2>13. Reading(r)'
    BY <1>5, <2>10, <2>12 DEF Search
  <2>14. \A t \in Task \ {r} : Reading(t)'
    BY <1>5 DEF Search
  <2>4. \A t \in Task : Reading(t)'
    BY <2>13, <2>14
  <2>grown. Grown
    BY <1>5, StillGrown DEF Search, Cut
  <2>same. \A t \in Task : SameSubject(t)
    BY <1>5 DEF Search, Cut, SameSubject
  <2>6. \A t \in Task : Judging(t)'
    BY <1>0, <2>grown, <2>same, JudgingStands
  <2> QED
    BY <2>1, <2>2, <2>3, <2>4, <2>6 DEF IInv
<1>6. CASE Fetch(r)
  <2>1. TypeOK'
    BY <1>6 DEF Fetch, Answered
  <2>2. Served' /\ RowsAreTrue'
    BY <1>6 DEF Fetch, Answered
  <2>3. NoGaps'
    BY <1>6 DEF Fetch, Answered
  <2>7. fresh'[r] \subseteq fresh[r] /\ \A u \in fresh[r] : KeyAt(r, u) \in here => u \in fresh'[r]
    BY <1>6 DEF Fetch, Answered
  <2>8. Cardinality(fresh'[r]) <= Cap[r] - saved[r]
    <3>1. IsFiniteSet(fresh[r])
      BY FS_Subset
    <3>2. IsFiniteSet(fresh'[r]) /\ Cardinality(fresh'[r]) <= Cardinality(fresh[r])
      BY <2>7, <3>1, FS_Subset
    <3>3. Cardinality(fresh[r]) \in Nat /\ Cardinality(fresh'[r]) \in Nat
      BY <3>1, <3>2, FS_CardinalityType
    <3>4. Cardinality(fresh[r]) <= Cap[r] - saved[r] /\ Cap[r] \in Nat /\ saved[r] \in Nat
      BY <1>6 DEF Fetch
    <3> QED
      BY <3>2, <3>3, <3>4
  <2>9. Reading(r)'
    BY <1>6, <2>7, <2>8 DEF Fetch
  <2>10. \A t \in Task \ {r} : Reading(t)'
    BY <1>6 DEF Fetch
  <2>4. \A t \in Task : Reading(t)'
    BY <2>9, <2>10
  <2>grown. Grown
    BY <1>6, StillGrown DEF Fetch, Answered
  <2>same. \A t \in Task : SameSubject(t)
    BY <1>6 DEF Fetch, Answered, SameSubject
  <2>6. \A t \in Task : Judging(t)'
    BY <1>0, <2>grown, <2>same, JudgingStands
  <2> QED
    BY <2>1, <2>2, <2>3, <2>4, <2>6 DEF IInv
<1>7. CASE Save(r)
  <2>7. PICK S \in Kept(r) :
             LET K == {SavedKey(r, u) : u \in S}
             IN  /\ row' = [k \in Key |-> IF k \in K THEN was[KeyAt(r, k[3])] ELSE row[k]]
                 /\ rowflag' = (rowflag \ K) \cup {k \in K : k[3] \in lit[r]}
                 /\ retired' = StillRetired(r, K)
                 /\ saved' = [saved EXCEPT ![r] = @ + Cardinality(S)]
    BY <1>7 DEF Save
  <2>8. S \in SUBSET Uid
    BY DEF Kept
  <2>9. Cardinality(S) \in Nat
    BY <2>8, FS_Subset, FS_CardinalityType
  <2>10. \A u \in Uid : KeyAt(r, u) \in Key
    BY <1>7 DEF Save
  <2>11. row' \in [Key -> Msg \cup {NoMsg}] /\ rowflag' \subseteq Key
    <3> DEFINE K == {SavedKey(r, u) : u \in S}
    <3>0. \A u \in S : SavedKey(r, u) \in Key
      BY <2>8, <2>10 DEF SavedKey
    <3>1. K \subseteq Key /\ \A k \in K : k[3] \in Uid
      BY <3>0
    <3>2. \A k \in K : was[KeyAt(r, k[3])] \in Msg \cup {NoMsg}
      BY <2>10, <3>1
    <3>3. row' = [k \in Key |-> IF k \in K THEN was[KeyAt(r, k[3])] ELSE row[k]]
             /\ rowflag' \subseteq rowflag \cup K
      BY <2>7
    <3> HIDE DEF K
    <3> QED
      BY <3>1, <3>2, <3>3
  <2>1. TypeOK'
    BY <1>7, <2>7, <2>9, <2>11 DEF Save, StillRetired
  <2>2. Served' /\ RowsAreTrue'
    BY <1>7 DEF Save, Kept, SavedKey, StillRetired
  <2>3. NoGaps'
    BY <1>7 DEF Save, Kept, SavedKey, StillRetired
  <2>4. \A t \in Task : Reading(t)'
    BY <1>7 DEF Save, Kept, SavedKey, StillRetired
  <2>grown. Grown
    <3>1. ASSUME NEW k \in Key, row[k] # NoMsg PROVE row'[k] # NoMsg
      BY <1>7, <2>7, <3>1 DEF Save, Kept, SavedKey
    <3>2. validity' = validity /\ was' = was
      BY <1>7 DEF Save
    <3> QED
      BY <3>1, <3>2, StillGrown
  <2>same. \A t \in Task : SameSubject(t)
    BY <1>7 DEF Save, Kept, SavedKey, StillRetired, SameSubject
  <2>6. \A t \in Task : Judging(t)'
    BY <1>0, <2>grown, <2>same, JudgingStands
  <2> QED
    BY <2>1, <2>2, <2>3, <2>4, <2>6 DEF IInv
<1>8. CASE Peek(r)
  <2>1. TypeOK'
    BY <1>8 DEF Peek, Answered
  <2>2. Served' /\ RowsAreTrue'
    BY <1>8 DEF Peek, Answered
  <2>3. NoGaps'
    BY <1>8 DEF Peek, Answered
  <2>4. \A t \in Task : Reading(t)'
    BY <1>8 DEF Peek, Answered
  <2>grown. Grown
    BY <1>8, StillGrown DEF Peek, Answered
  <2>same. \A t \in Task : SameSubject(t)
    BY <1>8 DEF Peek, Answered, SameSubject
  <2>6. \A t \in Task : Judging(t)'
    BY <1>0, <2>grown, <2>same, JudgingStands
  <2> QED
    BY <2>1, <2>2, <2>3, <2>4, <2>6 DEF IInv
<1>9. CASE Mark(r)
  <2>7. \A u \in Uid : KeyAt(r, u) \in Key
    BY <1>9 DEF Mark
  <2>8. rowflag' \subseteq Key
    BY <1>9, <2>7 DEF Mark, Dimmed
  <2>1. TypeOK'
    BY <1>9, <2>8 DEF Mark
  <2>2. Served' /\ RowsAreTrue'
    BY <1>9 DEF Mark, Dimmed
  <2>3. NoGaps'
    BY <1>9 DEF Mark, Dimmed
  <2>4. \A t \in Task : Reading(t)'
    BY <1>9 DEF Mark, Dimmed
  <2>grown. Grown
    BY <1>9, StillGrown DEF Mark, Dimmed
  <2>same. \A t \in Task : SameSubject(t)
    BY <1>9 DEF Mark, Dimmed, SameSubject
  <2>6. \A t \in Task : Judging(t)'
    BY <1>0, <2>grown, <2>same, JudgingStands
  <2> QED
    BY <2>1, <2>2, <2>3, <2>4, <2>6 DEF IInv
<1>10. CASE Pool(r)
  <2>1. TypeOK'
    BY <1>10 DEF Pool, Candidates, LiveRows, RoutedRows
  <2>2. Served' /\ RowsAreTrue'
    BY <1>10 DEF Pool, Candidates, LiveRows, RoutedRows
  <2>3. NoGaps'
    BY <1>10 DEF Pool, Candidates, LiveRows, RoutedRows
  <2>4. \A t \in Task : Reading(t)'
    BY <1>10 DEF Pool, Candidates, LiveRows, RoutedRows
  <2>grown. Grown
    BY <1>10, StillGrown DEF Pool
  <2>same. \A t \in Task \ {r} : SameSubject(t)
    BY <1>10 DEF Pool, SameSubject
  <2>7. Judging(r)'
    BY <1>10 DEF Pool, Candidates, LiveRows, RoutedRows, Judging
  <2>6. \A t \in Task : Judging(t)'
    BY <1>0, <2>grown, <2>same, <2>7, JudgingStands
  <2> QED
    BY <2>1, <2>2, <2>3, <2>4, <2>6 DEF IInv
<1>11. CASE EndRun(r)
  <2>1. TypeOK'
    BY <1>11 DEF EndRun
  <2>2. Served' /\ RowsAreTrue'
    BY <1>11 DEF EndRun
  <2>3. NoGaps'
    BY <1>11 DEF EndRun
  <2>4. \A t \in Task : Reading(t)'
    BY <1>11 DEF EndRun
  <2>grown. Grown
    BY <1>11, StillGrown DEF EndRun
  <2>same. \A t \in Task : SameSubject(t)
    BY <1>11 DEF EndRun, SameSubject
  <2>6. \A t \in Task : Judging(t)'
    BY <1>0, <2>grown, <2>same, JudgingStands
  <2> QED
    BY <2>1, <2>2, <2>3, <2>4, <2>6 DEF IInv
<1>12. CASE FetchBody(r)
  <2>1. TypeOK'
    BY <1>12 DEF FetchBody
  <2>2. Served' /\ RowsAreTrue'
    BY <1>12 DEF FetchBody
  <2>3. NoGaps'
    BY <1>12 DEF FetchBody
  <2>4. \A t \in Task : Reading(t)'
    BY <1>12 DEF FetchBody
  <2>grown. Grown
    BY <1>12, StillGrown DEF FetchBody
  <2>same. \A t \in Task \ {r} : SameSubject(t)
    BY <1>12 DEF FetchBody, SameSubject
  <2>7. subject[r] \in Key /\ row[subject[r]] # NoMsg
    BY <1>0, <1>12 DEF FetchBody, Judging
  <2>8. subject[r][1] \in Box /\ subject[r][2] \in Nat /\ validity[subject[r][1]] \in Validity
           /\ subject[r][2] <= validity[subject[r][1]]
    BY <2>7
  <2>9. body'[r] # NoMsg => body'[r] = was[<<subject[r][1], validity[subject[r][1]], subject[r][3]>>]
    BY <1>12 DEF FetchBody
  <2>10. pc'[r] = "act" /\ subject' = subject /\ was' = was /\ validity' = validity /\ row' = row
    BY <1>12 DEF FetchBody
  <2>11. ASSUME body'[r] # NoMsg
         PROVE  \E v \in Validity : /\ subject'[r][2] <= v /\ v <= validity'[subject'[r][1]]
                                    /\ body'[r] = was'[<<subject'[r][1], v, subject'[r][3]>>]
    <3>1. validity[subject[r][1]] <= validity[subject[r][1]]
      BY <1>n, <2>8
    <3> QED
      BY <2>8, <2>9, <2>10, <2>11, <3>1
  <2>12. Judging(r)'
    BY <2>7, <2>10, <2>11 DEF Judging
  <2>6. \A t \in Task : Judging(t)'
    BY <1>0, <2>grown, <2>same, <2>12, JudgingStands
  <2> QED
    BY <2>1, <2>2, <2>3, <2>4, <2>6 DEF IInv
<1>13. CASE Act(r)
  <2>7. subject[r] \in Key /\ row[subject[r]] \in Msg
    BY <1>0, <1>13 DEF Act, Judging
  <2>1. TypeOK'
    BY <1>13, <2>7 DEF Act, Unmoved
  <2>2. Served' /\ RowsAreTrue'
    BY <1>13 DEF Act, Unmoved
  <2>3. NoGaps'
    BY <1>13 DEF Act, Unmoved
  <2>4. \A t \in Task : Reading(t)'
    BY <1>13 DEF Act, Unmoved
  <2>grown. Grown
    BY <1>13, StillGrown DEF Act, Unmoved
  <2>same. \A t \in Task : SameSubject(t)
    BY <1>13 DEF Act, Unmoved, SameSubject
  <2>6. \A t \in Task : Judging(t)'
    BY <1>0, <2>grown, <2>same, JudgingStands
  <2> QED
    BY <2>1, <2>2, <2>3, <2>4, <2>6 DEF IInv
<1>14. CASE Disconnected(r)
  <2>1. TypeOK'
    BY <1>14 DEF Disconnected
  <2>2. Served' /\ RowsAreTrue'
    BY <1>14 DEF Disconnected
  <2>3. NoGaps'
    BY <1>14 DEF Disconnected
  <2>4. \A t \in Task : Reading(t)'
    BY <1>14 DEF Disconnected
  <2>grown. Grown
    BY <1>14, StillGrown DEF Disconnected
  <2>same. \A t \in Task : SameSubject(t)
    BY <1>14 DEF Disconnected, SameSubject
  <2>6. \A t \in Task : Judging(t)'
    BY <1>0, <2>grown, <2>same, JudgingStands
  <2> QED
    BY <2>1, <2>2, <2>3, <2>4, <2>6 DEF IInv
<1> QED
  BY <1>1, <1>2, <1>3, <1>4, <1>5, <1>6, <1>7, <1>8, <1>9, <1>10, <1>11, <1>12, <1>13, <1>14 DEF Running

\* whatever the environment does.
LEMMA EnvironmentStep ==
    ASSUME IInv, Environment
    PROVE  IInv'
<1>0. TypeOK /\ \A t \in Task : Judging(t)
  BY DEF IInv
<1>n. \A b \in Box : validity[b] \in Nat /\ validity[b] <= validity[b] /\ ~(validity[b] + 1 <= validity[b])
  <2>1. \A n \in Nat : n <= n /\ ~(n + 1 <= n)
    OBVIOUS
  <2>2. \A b \in Box : validity[b] \in Nat
    BY <1>0, Types DEF TypeOK
  <2> QED
    BY <2>1, <2>2, Zenon
<1> USE Types
    DEF IInv, TypeOK, Served, RowsAreTrue, NoGaps, Reading, Key, Step, Goto, At, KeyAt,
        Current, Connected, Forget, Event, Database, server, tables, scanning, judging
<1>1. CASE \E r \in Task : Fail(r)
  <2>0. PICK r \in Task : Fail(r)
    BY <1>1
  <2>1. TypeOK'
    BY <2>0 DEF Fail
  <2>2. Served' /\ RowsAreTrue'
    BY <2>0 DEF Fail
  <2>3. NoGaps'
    BY <2>0 DEF Fail
  <2>4. \A t \in Task : Reading(t)'
    BY <2>0 DEF Fail
  <2>grown. Grown
    BY <2>0, StillGrown DEF Fail
  <2>same. \A t \in Task : SameSubject(t)
    BY <2>0 DEF Fail, SameSubject
  <2>6. \A t \in Task : Judging(t)'
    BY <1>0, <2>grown, <2>same, JudgingStands
  <2> QED
    BY <2>1, <2>2, <2>3, <2>4, <2>6 DEF IInv
<1>2. CASE \E b \in Box : Arrive(b)
  <2>0. PICK b \in Box : Arrive(b)
    BY <1>2
  <2>7. PICK m \in Msg, u \in Uid :
             /\ \A v \in Uid : was[<<b, validity[b], v>>] # NoMsg => v < u
             /\ was' = [was EXCEPT ![<<b, validity[b], u>>] = m]
             /\ here' = here \cup {<<b, validity[b], u>>}
    BY <2>0 DEF Arrive
  <2>8. /\ <<b, validity[b], u>> \in Key /\ was[<<b, validity[b], u>>] = NoMsg
        /\ validity' = validity /\ row' = row
    BY <2>0, <2>7 DEF Arrive
  <2>1. TypeOK'
    BY <2>0 DEF Arrive
  <2>10. \A k \in Key : k # <<b, validity[b], u>> => was'[k] = was[k]
    BY <2>7
  <2>11. was'[<<b, validity[b], u>>] = m /\ m # NoMsg
    BY <2>7, <2>8
  <2>2. Served' /\ RowsAreTrue'
    <3>1. \A k \in here' : was'[k] # NoMsg /\ Current(k)'
      BY <2>7, <2>8, <2>10, <2>11
    <3>2. ASSUME NEW k \in Key, was'[k] # NoMsg PROVE k[2] <= validity'[k[1]]
      <4>1. CASE k = <<b, validity[b], u>>
        BY <1>n, <2>8, <4>1
      <4>2. CASE k # <<b, validity[b], u>>
        BY <2>8, <2>10, <3>2, <4>2
      <4> QED
        BY <4>1, <4>2
    <3>3. RowsAreTrue'
      BY <2>8, <2>10
    <3> QED
      BY <3>1, <3>2, <3>3
  <2>9. ASSUME NEW k \in Key, row'[k] # NoMsg, NEW n \in 1..(k[3] - 1),
               <<k[1], k[2], n>> \in here', Current(<<k[1], k[2], n>>)'
        PROVE  row'[<<k[1], k[2], n>>] # NoMsg
    <3>1. CASE <<k[1], k[2], n>> \in here
      BY <2>8, <2>9, <3>1
    <3>2. CASE <<k[1], k[2], n>> \notin here
      <4>1. k[1] = b /\ k[2] = validity[b] /\ n = u
        BY <2>7, <2>9, <3>2
      <4>2. k = <<b, validity[b], k[3]>> /\ k[3] \in Uid /\ was[k] # NoMsg
        BY <2>8, <2>9, <4>1
      <4>3. k[3] < u /\ u < k[3]
        BY <2>7, <2>9, <4>1, <4>2
      <4>4. k[3] \in Nat /\ u \in Nat
        BY <4>2
      <4> QED
        BY <4>3, <4>4
    <3> QED
      BY <3>1, <3>2
  <2>3. NoGaps'
    BY <2>8, <2>9 DEF NoGaps
  <2>4. \A t \in Task : Reading(t)'
    BY <2>0 DEF Arrive
  <2>grown. Grown
    BY <2>8, <2>10, StillGrown
  <2>same. \A t \in Task : SameSubject(t)
    BY <2>0 DEF Arrive, SameSubject
  <2>6. \A t \in Task : Judging(t)'
    BY <1>0, <2>grown, <2>same, JudgingStands
  <2> QED
    BY <2>1, <2>2, <2>3, <2>4, <2>6 DEF IInv
<1>3. CASE \E b \in Box : Renumber(b)
  <2>0. PICK b \in Box : Renumber(b)
    BY <1>3
  <2> DEFINE old == {k \in here : k[1] = b}
             v == validity[b] + 1
  <2>7. PICK place \in [old -> 1..Cardinality(old)] :
             /\ was' = [k \in Key |-> IF \E j \in old : k = <<b, v, place[j]>>
                                      THEN was[CHOOSE j \in old : k = <<b, v, place[j]>>]
                                      ELSE was[k]]
             /\ here' = (here \ old) \cup {<<b, v, place[j]>> : j \in old}
    BY <2>0 DEF Renumber
  <2>8. v \in Validity /\ validity' = [validity EXCEPT ![b] = v] /\ row' = row
    BY <2>0 DEF Renumber
  <2>9. \A j \in old : j \in Key /\ was[j] \in Msg /\ <<b, v, place[j]>> \in Key
    <3>1. \A j \in old : place[j] \in Uid
      BY <1>0, RoomToRenumber
    <3> QED
      BY <2>8, <3>1
  <2>10. ASSUME NEW k \in Key
         PROVE  /\ k[1] = b /\ k[2] = v => was[k] = NoMsg /\ row[k] = NoMsg
                /\ ~(k[1] = b /\ k[2] = v) => was'[k] = was[k]
                /\ was'[k] \in Msg \cup {NoMsg}
    <3>1. k[1] = b /\ k[2] = v => was[k] = NoMsg /\ row[k] = NoMsg
      <4>1. ~(validity[b] + 1 <= validity[b])
        BY <1>n
      <4>2. was[k] # NoMsg => k[2] <= validity[k[1]]
        OBVIOUS
      <4>3. row[k] \in {NoMsg, was[k]}
        OBVIOUS
      <4> QED
        BY <4>1, <4>2, <4>3
    <3>2. CASE \E j \in old : k = <<b, v, place[j]>>
      <4>1. (CHOOSE j \in old : k = <<b, v, place[j]>>) \in old
        BY <3>2
      <4>2. was'[k] = was[CHOOSE j \in old : k = <<b, v, place[j]>>]
        BY <2>7, <3>2
      <4> HIDE DEF old, v
      <4> QED
        BY <2>9, <3>1, <3>2, <4>1, <4>2
    <3>3. CASE ~\E j \in old : k = <<b, v, place[j]>>
      BY <2>7, <3>1, <3>3
    <3> QED
      BY <3>2, <3>3
  <2>11. \A j \in old : was'[<<b, v, place[j]>>] \in Msg
    <3> SUFFICES ASSUME NEW j \in old PROVE was'[<<b, v, place[j]>>] \in Msg
      OBVIOUS
    <3> DEFINE k == <<b, v, place[j]>>
    <3>1. (CHOOSE i \in old : k = <<b, v, place[i]>>) \in old
      OBVIOUS
    <3>2. was'[k] = was[CHOOSE i \in old : k = <<b, v, place[i]>>]
      BY <2>7, <2>9
    <3> HIDE DEF old, v, k
    <3>3. was'[k] \in Msg
      BY <2>9, <3>1, <3>2
    <3> QED
      BY <3>3 DEF k
  <2>12. was' \in [Key -> Msg \cup {NoMsg}] /\ here' \subseteq Key /\ validity' \in [Box -> Validity]
    BY <2>7, <2>8, <2>9, <2>10
  <2>1. TypeOK'
    BY <2>0, <2>12 DEF Renumber
  <2>13. \A k \in here' : was'[k] # NoMsg /\ Current(k)'
    BY <2>7, <2>8, <2>9, <2>10, <2>11
  <2>14. ASSUME NEW k \in Key, was'[k] # NoMsg PROVE k[2] <= validity'[k[1]]
    <3>0. v \in Nat /\ v <= v /\ validity[b] <= v /\ validity'[b] = v
      BY <1>n, <2>8
    <3>1. CASE k[1] = b /\ k[2] = v
      BY <3>0, <3>1
    <3>2. CASE ~(k[1] = b /\ k[2] = v)
      <4>1. k[2] <= validity[k[1]] /\ k[1] \in Box /\ k[2] \in Nat
        BY <2>10, <2>14, <3>2
      <4>2. CASE k[1] = b
        BY <1>n, <3>0, <4>1, <4>2
      <4>3. CASE k[1] # b
        BY <2>8, <4>1, <4>3
      <4> QED
        BY <4>2, <4>3
    <3> QED
      BY <3>1, <3>2
  <2>2. Served' /\ RowsAreTrue'
    BY <2>8, <2>10, <2>13, <2>14
  <2>3. NoGaps'
    BY <2>7, <2>8, <2>10
  <2>15. ASSUME NEW t \in Task PROVE Reading(t)'
    <3>1. ASSUME pc[t] \in {"fetch", "save"}, NEW x \in fresh[t]
          PROVE  /\ was'[KeyAt(t, x)] # NoMsg
                 /\ \A u \in 1..(x - 1) : Connected(t)' /\ KeyAt(t, u) \in here'
                        => u \in fresh[t] \/ row[KeyAt(t, u)] # NoMsg
      BY <2>7, <2>8, <2>10, <3>1
    <3>2. UNCHANGED <<pc, turn, seen, saved, fresh, row>>
      BY <2>0 DEF Renumber
    <3>3. ASSUME pc[t] \in {"note", "search", "fetch", "save", "peek", "mark"}
          PROVE  seen[t] <= validity'[At(t)]
      <4>1. seen[t] \in Nat /\ At(t) \in Box /\ seen[t] <= validity[At(t)]
        <5>1. turn[t] \in DOMAIN Sources[t] /\ seen[t] \in Validity /\ seen[t] <= validity[At(t)]
          BY <3>3
        <5>2. At(t) \in Box
          BY <5>1
        <5>3. seen[t] \in Nat
          BY <5>1
        <5> QED
          BY <5>1, <5>2, <5>3
      <4>2. validity[b] <= v /\ v \in Nat /\ validity'[b] = v
        BY <1>n, <2>8
      <4>3. CASE At(t) = b
        <5> HIDE DEF At, v
        <5> QED
          BY <1>n, <4>1, <4>2, <4>3
      <4>4. CASE At(t) # b
        BY <2>8, <4>1, <4>4
      <4> QED
        BY <4>3, <4>4
    <3> QED
      BY <3>1, <3>2, <3>3
  <2>4. \A t \in Task : Reading(t)'
    BY <2>15
  <2>16. \A a \in Box : validity'[a] = validity[a] \/ (validity'[a] \in Nat /\ validity[a] <= validity'[a])
    <3>1. v \in Nat /\ validity[b] <= v
      BY <1>n, <2>8
    <3>2. \A a \in Box : a # b => validity'[a] = validity[a]
      BY <2>8
    <3>3. validity'[b] = v
      BY <2>8
    <3> HIDE DEF v
    <3>4. validity'[b] \in Nat /\ validity[b] <= validity'[b]
      BY <3>1, <3>3
    <3> TAKE a \in Box
    <3>5. CASE a = b
      BY <3>4, <3>5
    <3>6. CASE a # b
      BY <3>2, <3>6
    <3> QED
      BY <3>5, <3>6
  <2>grown. Grown
    <3>1. \A k \in Key : was[k] # NoMsg => was'[k] = was[k]
      BY <2>10
    <3>2. \A k \in Key : row[k] # NoMsg => row'[k] # NoMsg
      BY <2>8
    <3> QED
      BY <2>16, <3>1, <3>2, Zenon DEF Grown
  <2>same. \A t \in Task : SameSubject(t)
    BY <2>0, <2>8, <2>10 DEF Renumber, SameSubject
  <2>6. \A t \in Task : Judging(t)'
    BY <1>0, <2>grown, <2>same, JudgingStands
  <2> QED
    BY <2>1, <2>2, <2>3, <2>4, <2>6 DEF IInv
<1>4. CASE Remove
  <2>1. TypeOK'
    BY <1>4 DEF Remove
  <2>2. Served' /\ RowsAreTrue'
    BY <1>4 DEF Remove
  <2>3. NoGaps'
    BY <1>4 DEF Remove
  <2>4. \A t \in Task : Reading(t)'
    BY <1>4 DEF Remove
  <2>grown. Grown
    BY <1>4, StillGrown DEF Remove
  <2>same. \A t \in Task : SameSubject(t)
    BY <1>4 DEF Remove, SameSubject
  <2>6. \A t \in Task : Judging(t)'
    BY <1>0, <2>grown, <2>same, JudgingStands
  <2> QED
    BY <2>1, <2>2, <2>3, <2>4, <2>6 DEF IInv
<1>5. CASE Flag
  <2>1. TypeOK'
    BY <1>5 DEF Flag
  <2>2. Served' /\ RowsAreTrue'
    BY <1>5 DEF Flag
  <2>3. NoGaps'
    BY <1>5 DEF Flag
  <2>4. \A t \in Task : Reading(t)'
    BY <1>5 DEF Flag
  <2>grown. Grown
    BY <1>5, StillGrown DEF Flag
  <2>same. \A t \in Task : SameSubject(t)
    BY <1>5 DEF Flag, SameSubject
  <2>6. \A t \in Task : Judging(t)'
    BY <1>0, <2>grown, <2>same, JudgingStands
  <2> QED
    BY <2>1, <2>2, <2>3, <2>4, <2>6 DEF IInv
<1> QED
  BY <1>1, <1>2, <1>3, <1>4, <1>5 DEF Environment

LEMMA StutterStep == IInv /\ UNCHANGED vars => IInv'
<1> SUFFICES ASSUME IInv, UNCHANGED vars PROVE IInv'
  OBVIOUS
<1> USE DEF vars, server, tables, scanning, judging
<1>1. TypeOK'
  BY DEF IInv, TypeOK
<1>2. Served' /\ RowsAreTrue' /\ NoGaps'
  BY DEF IInv, Served, RowsAreTrue, NoGaps, Current
<1>3. \A t \in Task : Reading(t)' /\ Judging(t)'
  BY DEF IInv, Reading, Judging, At, KeyAt, Connected
<1> QED
  BY <1>1, <1>2, <1>3 DEF IInv

LEMMA Invariance == Spec => []IInv
<1>1. IInv /\ [Next]_vars => IInv'
  BY RunningStep, EnvironmentStep, StutterStep DEF Next
<1> QED
  BY InitInv, <1>1, PTL DEF Spec
----------------------------------------------------------------------------
\* Every variable of the scan keeps its type.
THEOREM TypeCorrect == Spec => []TypeOK
<1>1. IInv => TypeOK
  BY DEF IInv
<1> QED
  BY <1>1, Invariance, PTL

\* A row describes the message of its key, whatever renumberings and rival runs
\* come between a select, a fetch and a save.
THEOREM RowsStayTrue == Spec => []RowsAreTrue
<1>1. IInv => RowsAreTrue
  BY DEF IInv
<1> QED
  BY <1>1, Invariance, PTL

\* A run fetches what it may save, over all of its mailboxes, whatever the cap.
THEOREM FetchStaysBounded == Spec => []FetchBounded
<1>1. IInv => FetchBounded
  BY DEF IInv, Reading, FetchBounded
<1> QED
  BY <1>1, Invariance, PTL

\* No run of any task passes over a message for a later one.
THEOREM CapLeavesNoGaps == Spec => []NoGaps
<1>1. IInv => NoGaps
  BY DEF IInv
<1> QED
  BY <1>1, Invariance, PTL

\* No step of any run takes a retired row up again.
THEOREM RetirementIsFinal == Spec => RetiredStays
<1>1. [Next]_vars => (retired \subseteq retired')
  <2> USE DEF server, tables, scanning, judging, Database
  <2>1. ASSUME NEW t \in Task, Running(t) PROVE retired \subseteq retired'
    BY <2>1 DEF Running, Start, EndScan, Select, Note, Search, Fetch, Save, StillRetired, Peek, Mark,
                Pool, EndRun, FetchBody, Act, Disconnected
  <2>2. ASSUME Environment PROVE retired \subseteq retired'
    BY <2>2 DEF Environment, Fail, Arrive, Remove, Flag, Renumber
  <2> QED
    BY <2>1, <2>2 DEF Next, vars
<1> QED
  BY <1>1, PTL DEF Spec, RetiredStays

\* What is moved was judged by its own body or by none, although a body may have been
\* fetched under another UIDVALIDITY.
THEOREM BodiesAreOwn == Spec => ActsOnOwnBody
<1>1. IInv /\ [Next]_vars =>
        [\A t \in Task : \A k \in here \ here' :
             pc[t] = "act" /\ pc'[t] = "idle" => body[t] \in {was[k], NoMsg}]_vars
  <2> SUFFICES ASSUME IInv, Next, NEW t \in Task, NEW k \in here \ here', pc[t] = "act", pc'[t] = "idle"
               PROVE  body[t] \in {was[k], NoMsg}
    BY DEF vars
  <2> USE DEF server, tables, scanning, judging, Database
  <2>1. Act(t)
    <3>1. ASSUME NEW r \in Task, Running(r) PROVE Act(r)
      BY <3>1 DEF Running, Start, EndScan, Select, Note, Search, Fetch, Save, Peek, Mark,
                  Pool, EndRun, FetchBody, Disconnected
    <3>2. ~Environment
      BY DEF Environment, Fail, Arrive, Remove, Flag, Renumber, IInv, TypeOK
    <3>3. PICK r \in Task : Act(r)
      BY <3>1, <3>2 DEF Next
    <3>4. r = t
      BY <3>3 DEF Act, Goto, IInv, TypeOK
    <3> QED
      BY <3>3, <3>4
  <2>2. subject[t] \in Key /\ Current(subject[t])
    BY <2>1 DEF Act, Unmoved, IInv, Judging
  <2>3. k = <<subject[t][1], validity[subject[t][1]], subject[t][3]>>
    BY <2>1 DEF Act
  <2>4. k = subject[t]
    BY <2>2, <2>3 DEF Current, Key
  <2>5. ASSUME body[t] # NoMsg PROVE body[t] = was[subject[t]]
    <3>1. PICK v \in Validity : /\ subject[t][2] <= v /\ v <= validity[subject[t][1]]
                                /\ body[t] = was[<<subject[t][1], v, subject[t][3]>>]
      BY <2>5 DEF IInv, Judging
    <3>2. v = subject[t][2]
      BY <2>2, <3>1, Types DEF Current, Key
    <3> QED
      BY <2>2, <3>1, <3>2 DEF Key
  <2> QED
    BY <2>4, <2>5
<1> QED
  BY <1>1, Invariance, PTL DEF Spec, ActsOnOwnBody
=============================================================================
