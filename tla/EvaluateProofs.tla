--------------------------- MODULE EvaluateProofs ---------------------------
(***************************************************************************)
(* Proofs about the evaluate phase: what rules decide on partial knowledge, *)
(* which answers they are evaluated on, what is cached and asked, how       *)
(* batches are split and recorded, and what the result says of failures.    *)
(***************************************************************************)
EXTENDS Evaluate, FiniteSetTheorems, NaturalsInduction, WellFoundedInduction, TLAPS
----------------------------------------------------------------------------
(* Three-valued logic: what is decided stays decided when more is known.   *)

Decision == {"TRUE", "FALSE", "UNKNOWN"}
\* The verdict w agrees with v as far as v decides.
Refines(w, v) == v = "UNKNOWN" \/ w = v
\* The answers w include the answers v.
Extends(w, v) == \A p \in Proc : v[p] = NoAnswer \/ w[p] = v[p]

\* Every operator of a tree is monotone in the verdicts below it (rules.evaluate).
LEMMA CombinedRefines ==
    ASSUME NEW S, NEW F \in [S -> Decision], NEW G \in [S -> Decision],
           \A t \in S : Refines(G[t], F[t]),
           NEW op \in Operator, op = "not" => \E x : S = {x}
    PROVE  /\ Combined(op, {F[t] : t \in S}) \in Decision
           /\ Refines(Combined(op, {G[t] : t \in S}), Combined(op, {F[t] : t \in S}))
<1> DEFINE V == {F[t] : t \in S}
           W == {G[t] : t \in S}
<1>1. CASE op = "all"
  <2>1. AllOf(V) \in Decision /\ Refines(AllOf(W), AllOf(V))
    BY DEF AllOf, Refines, Decision
  <2>. QED  BY <2>1, <1>1 DEF Combined
<1>2. CASE op = "any"
  <2>1. AnyOf(V) \in Decision /\ Refines(AnyOf(W), AnyOf(V))
    BY DEF AnyOf, Refines, Decision
  <2>. QED  BY <2>1, <1>2 DEF Combined
<1>3. CASE op = "none"
  <2>1. NoneOf(V) \in Decision /\ Refines(NoneOf(W), NoneOf(V))
    BY DEF NoneOf, Refines, Decision
  <2>. QED  BY <2>1, <1>3 DEF Combined
<1>4. CASE op = "not"
  <2>1. PICK x : S = {x}
    BY <1>4
  <2>2. V = {F[x]} /\ W = {G[x]}
    BY <2>1
  <2>3. (CHOOSE v \in V : TRUE) = F[x] /\ (CHOOSE v \in W : TRUE) = G[x]
    BY <2>2
  <2>4. F[x] \in Decision /\ G[x] \in Decision /\ Refines(G[x], F[x])
    BY <2>1
  <2>5. Negated(F[x]) \in Decision /\ Refines(Negated(G[x]), Negated(F[x]))
    BY <2>4 DEF Negated, Refines, Decision
  <2>. QED  BY <2>3, <2>5, <1>4 DEF Combined
<1>. QED  BY <1>1, <1>2, <1>3, <1>4 DEF Operator

\* A condition on a processor is undecided until the processor has answered, and
\* then decided by that answer (_eval_processor_condition).
LEMMA AtomRefines ==
    ASSUME NEW atom, NEW facts, NEW v, NEW w, Extends(w, v),
           atom.op = "processor" => atom.name \in Proc
    PROVE  /\ AtomVerdict(atom, facts, v) \in Decision
           /\ Refines(AtomVerdict(atom, facts, w), AtomVerdict(atom, facts, v))
<1>1. CASE atom.op = "processor"
  <2>1. v[atom.name] = NoAnswer \/ w[atom.name] = v[atom.name]
    BY <1>1 DEF Extends
  <2>2. ProcessorVerdict(atom, v) \in Decision
    BY DEF ProcessorVerdict, Decision
  <2>3. CASE v[atom.name] = NoAnswer
    BY <1>1, <2>2, <2>3 DEF AtomVerdict, ProcessorVerdict, Refines
  <2>4. CASE w[atom.name] = v[atom.name]
    BY <1>1, <2>2, <2>4 DEF AtomVerdict, ProcessorVerdict, Refines
  <2>. QED  BY <2>1, <2>3, <2>4
<1>2. CASE atom.op # "processor"
  BY <1>2 DEF AtomVerdict, Refines, Decision
<1>. QED  BY <1>1, <1>2

\* Every leaf that is a condition on a processor names one there is.
Known(T) == \A t \in T : t.op = "processor" => t.name \in Proc

LEMMA OnlyOneBelowNot ==
    ASSUME NEW tree
    PROVE  tree.op = "not" => \E x : Below(tree) = {x}
BY DEF Below

LEMMA Verdict1Refines ==
    ASSUME NEW tree, Known(Leaves1(tree)), NEW facts, NEW v, NEW w, Extends(w, v)
    PROVE  /\ Verdict1(tree, facts, v) \in Decision
           /\ Refines(Verdict1(tree, facts, w), Verdict1(tree, facts, v))
<1>1. CASE tree.op \in Operator
  <2> DEFINE S == Below(tree)
             F == [t \in S |-> AtomVerdict(t, facts, v)]
             G == [t \in S |-> AtomVerdict(t, facts, w)]
  <2>1. \A t \in S : t.op = "processor" => t.name \in Proc
    BY <1>1 DEF Known, Leaves1
  <2>2. \A u : Extends(u, u)
    BY DEF Extends
  <2>3. \A t \in S : AtomVerdict(t, facts, v) \in Decision /\ AtomVerdict(t, facts, w) \in Decision
    BY <2>1, <2>2, AtomRefines
  <2>4. \A t \in S : Refines(AtomVerdict(t, facts, w), AtomVerdict(t, facts, v))
    BY <2>1, AtomRefines
  <2>5. F \in [S -> Decision] /\ G \in [S -> Decision] /\ \A t \in S : Refines(G[t], F[t])
    BY <2>3, <2>4
  <2>6. tree.op = "not" => \E x : S = {x}
    BY OnlyOneBelowNot
  <2>7. /\ {F[t] : t \in S} = {AtomVerdict(t, facts, v) : t \in Below(tree)}
        /\ {G[t] : t \in S} = {AtomVerdict(t, facts, w) : t \in Below(tree)}
    OBVIOUS
  <2> HIDE DEF S, F, G
  <2>8. /\ Combined(tree.op, {F[t] : t \in S}) \in Decision
        /\ Refines(Combined(tree.op, {G[t] : t \in S}), Combined(tree.op, {F[t] : t \in S}))
    BY <1>1, <2>5, <2>6, CombinedRefines
  <2>. QED  BY <1>1, <2>7, <2>8 DEF Verdict1
<1>2. CASE tree.op \notin Operator
  BY <1>2, AtomRefines DEF Verdict1, Known, Leaves1
<1>. QED  BY <1>1, <1>2

LEMMA Verdict2Refines ==
    ASSUME NEW tree, Known(Leaves2(tree)), NEW facts, NEW v, NEW w, Extends(w, v)
    PROVE  /\ Verdict2(tree, facts, v) \in Decision
           /\ Refines(Verdict2(tree, facts, w), Verdict2(tree, facts, v))
<1>1. CASE tree.op \in Operator
  <2> DEFINE S == Below(tree)
             F == [t \in S |-> Verdict1(t, facts, v)]
             G == [t \in S |-> Verdict1(t, facts, w)]
  <2>1. \A t \in S : Known(Leaves1(t))
    BY <1>1 DEF Known, Leaves2
  <2>2. \A u : Extends(u, u)
    BY DEF Extends
  <2>3. \A t \in S : Verdict1(t, facts, v) \in Decision /\ Verdict1(t, facts, w) \in Decision
    BY <2>1, <2>2, Verdict1Refines
  <2>4. \A t \in S : Refines(Verdict1(t, facts, w), Verdict1(t, facts, v))
    BY <2>1, Verdict1Refines
  <2>5. F \in [S -> Decision] /\ G \in [S -> Decision] /\ \A t \in S : Refines(G[t], F[t])
    BY <2>3, <2>4
  <2>6. tree.op = "not" => \E x : S = {x}
    BY OnlyOneBelowNot
  <2>7. /\ {F[t] : t \in S} = {Verdict1(t, facts, v) : t \in Below(tree)}
        /\ {G[t] : t \in S} = {Verdict1(t, facts, w) : t \in Below(tree)}
    OBVIOUS
  <2> HIDE DEF S, F, G
  <2>8. /\ Combined(tree.op, {F[t] : t \in S}) \in Decision
        /\ Refines(Combined(tree.op, {G[t] : t \in S}), Combined(tree.op, {F[t] : t \in S}))
    BY <1>1, <2>5, <2>6, CombinedRefines
  <2>. QED  BY <1>1, <2>7, <2>8 DEF Verdict2
<1>2. CASE tree.op \notin Operator
  BY <1>2, AtomRefines DEF Verdict2, Known, Leaves2
<1>. QED  BY <1>1, <1>2

\* A rule that is decided stays so, whatever else is answered (rules.evaluate).
LEMMA VerdictRefines ==
    ASSUME NEW tree, Known(Leaves(tree)), NEW facts, NEW v, NEW w, Extends(w, v)
    PROVE  /\ Verdict(tree, facts, v) \in Decision
           /\ Refines(Verdict(tree, facts, w), Verdict(tree, facts, v))
<1>1. CASE tree.op \in Operator
  <2> DEFINE S == Below(tree)
             F == [t \in S |-> Verdict2(t, facts, v)]
             G == [t \in S |-> Verdict2(t, facts, w)]
  <2>1. \A t \in S : Known(Leaves2(t))
    BY <1>1 DEF Known, Leaves
  <2>2. \A u : Extends(u, u)
    BY DEF Extends
  <2>3. \A t \in S : Verdict2(t, facts, v) \in Decision /\ Verdict2(t, facts, w) \in Decision
    BY <2>1, <2>2, Verdict2Refines
  <2>4. \A t \in S : Refines(Verdict2(t, facts, w), Verdict2(t, facts, v))
    BY <2>1, Verdict2Refines
  <2>5. F \in [S -> Decision] /\ G \in [S -> Decision] /\ \A t \in S : Refines(G[t], F[t])
    BY <2>3, <2>4
  <2>6. tree.op = "not" => \E x : S = {x}
    BY OnlyOneBelowNot
  <2>7. /\ {F[t] : t \in S} = {Verdict2(t, facts, v) : t \in Below(tree)}
        /\ {G[t] : t \in S} = {Verdict2(t, facts, w) : t \in Below(tree)}
    OBVIOUS
  <2> HIDE DEF S, F, G
  <2>8. /\ Combined(tree.op, {F[t] : t \in S}) \in Decision
        /\ Refines(Combined(tree.op, {G[t] : t \in S}), Combined(tree.op, {F[t] : t \in S}))
    BY <1>1, <2>5, <2>6, CombinedRefines
  <2>. QED  BY <1>1, <2>7, <2>8 DEF Verdict
<1>2. CASE tree.op \notin Operator
  BY <1>2, AtomRefines DEF Verdict, Known, Leaves
<1>. QED  BY <1>1, <1>2

\* In an accepted configuration every condition names a processor of it.
LEMMA AllowedIsKnown ==
    ASSUME NEW R, NEW e, Allowed(R, e), NEW i \in DOMAIN R
    PROVE  Known(Leaves(R[i].when))
BY DEF Allowed, RuleAllowed, ProcessorAtoms, ProcessorAtomAllowed, Known

\* The more is answered, the less is needed (_evaluate_rules).
LEMMA NeededShrinks ==
    ASSUME Allowed(rules, edition), NEW c, NEW v, NEW w, Extends(w, v)
    PROVE  Needed(c, w) \subseteq Needed(c, v)
<1> SUFFICES ASSUME NEW i \in DOMAIN rules, Of(c, w)[i] = "UNKNOWN"
             PROVE  Of(c, v)[i] = "UNKNOWN"
  BY DEF Needed
<1>1. Refines(Verdict(rules[i].when, Facts[c], w), Verdict(rules[i].when, Facts[c], v))
  BY AllowedIsKnown, VerdictRefines
<1>2. Refines(Of(c, w)[i], Of(c, v)[i])
  BY <1>1 DEF Of
<1>. QED  BY <1>2 DEF Refines

\* Nothing answered is extended by anything.
LEMMA AnythingExtendsNothing ==
    ASSUME NEW v
    PROVE  Extends(v, Unanswered)
BY DEF Extends, Unanswered
----------------------------------------------------------------------------
(* The network half of a batch.                                            *)

Job == [model : Model, procs : SUBSET Proc, cands : SUBSET Cand]
Outcome == {Failed} \cup {Parse(j, r) : j \in Job, r \in Response}
Attempt == [cands : SUBSET Cand, out : Outcome]
NetState == [at : {"waiting", "running", "done"}, whole : BOOLEAN, parts : Seq(SUBSET Cand),
             level : Nat, tried : Nat, got : Seq(Attempt)]

\* What has come back and what is left: the batch as a whole, or its two halves.
Split(i, n) ==
    \/ n.whole /\ n.got = <<>> /\ n.parts = <<i.cands>>
    \/ n.whole /\ Len(n.got) = 1 /\ n.got[1].cands = i.cands /\ n.parts = <<>>
    \/ ~n.whole /\ n.got = <<>> /\ n.parts = Halves(i.cands)
    \/ ~n.whole /\ Len(n.got) = 1 /\ n.got[1].cands = Halves(i.cands)[1] /\ n.parts = <<Halves(i.cands)[2]>>
    \/ ~n.whole /\ Len(n.got) = 2 /\ n.parts = <<>>
                /\ n.got[1].cands = Halves(i.cands)[1] /\ n.got[2].cands = Halves(i.cands)[2]

OnTrack(i, n) ==
    /\ Split(i, n)
    /\ n.at = "done" <=> n.parts = <<>>
    /\ n.level \in 1..Ladder[i.model]
    /\ n.tried \in 0..(Tries[i.model] - 1)

\* A step of the network half keeps what had come back.
Continues(i, n, next) ==
    /\ next \in NetState
    /\ OnTrack(i, next)
    /\ Len(n.got) <= Len(next.got)
    /\ \A k \in 1..Len(n.got) : next.got[k] = n.got[k]

LEMMA HalvesAreParts ==
    ASSUME NEW S \in SUBSET Cand
    PROVE  /\ Halves(S) \in Seq(SUBSET Cand)
           /\ Len(Halves(S)) = 2
           /\ Halves(S)[1] \subseteq S /\ Halves(S)[2] \subseteq S
BY DEF Halves

LEMMA OneLeft ==
    ASSUME NEW x
    PROVE  Head(<<x>>) = x /\ Tail(<<x>>) = <<>> /\ Len(<<x>>) = 1
OBVIOUS

LEMMA TwoLeft ==
    ASSUME NEW x, NEW y
    PROVE  Head(<<x, y>>) = x /\ Tail(<<x, y>>) = <<y>> /\ <<y>> # <<>> /\ Len(<<x, y>>) = 2
OBVIOUS

LEMMA AfterContinues ==
    ASSUME NEW i \in Job, NEW n \in NetState, OnTrack(i, n), n.at = "running", NEW outcome \in Outcome
    PROVE  Continues(i, n, After(n, outcome))
<1> DEFINE part == Head(n.parts)
           out == IF DOMAIN outcome.results = {} THEN Failed ELSE outcome
           got == Append(n.got, [cands |-> part, out |-> out])
           split == [at |-> n.at, whole |-> FALSE, parts |-> Halves(part), level |-> 1, tried |-> 0, got |-> n.got]
           over == [at |-> IF Len(n.parts) = 1 THEN "done" ELSE "running", whole |-> n.whole,
                    parts |-> Tail(n.parts), level |-> 1, tried |-> 0, got |-> got]
<1>1. n.parts \in Seq(SUBSET Cand) /\ n.parts # <<>> /\ part \in SUBSET Cand /\ Tail(n.parts) \in Seq(SUBSET Cand)
  BY DEF OnTrack, NetState
<1>2. i.model \in Model /\ i.cands \subseteq Cand
  BY DEF Job
<1>3. 1 \in 1..Ladder[i.model] /\ 0 \in 0..(Tries[i.model] - 1)
  BY <1>2, EvaluateAssumption
<1>4. [cands |-> part, out |-> out] \in Attempt
  BY <1>1 DEF Attempt, Outcome
<1>5. got \in Seq(Attempt) /\ Len(got) = Len(n.got) + 1 /\ Len(n.got) \in Nat
      /\ got[Len(got)].cands = part /\ \A k \in 1..Len(n.got) : got[k] = n.got[k]
  BY <1>4 DEF NetState
<1>6. /\ n.whole => (n.got = <<>> /\ n.parts = <<i.cands>>)
      /\ ~n.whole => \/ n.got = <<>> /\ n.parts = Halves(i.cands)
                     \/ Len(n.got) = 1 /\ n.got[1].cands = Halves(i.cands)[1] /\ n.parts = <<Halves(i.cands)[2]>>
  BY <1>1 DEF OnTrack, Split
<1>7. CASE DOMAIN outcome.results = {} /\ n.whole /\ Cardinality(part) > 1
  <2>1. After(n, outcome) = split
    BY <1>7 DEF After, NetState
  <2>2. part = i.cands /\ n.got = <<>>
    BY <1>6, <1>7
  <2>3. Halves(part) \in Seq(SUBSET Cand) /\ Halves(part) # <<>>
    BY <1>1, HalvesAreParts
  <2>4. split \in NetState
    BY <2>3 DEF NetState
  <2>5. OnTrack(i, split)
    BY <1>3, <2>2, <2>3 DEF OnTrack, Split
  <2>. QED  BY <2>1, <2>4, <2>5, <1>5 DEF Continues
<1>8. CASE ~(DOMAIN outcome.results = {} /\ n.whole /\ Cardinality(part) > 1)
  <2>1. After(n, outcome) = over
    BY <1>8 DEF After, NetState
  <2>2. over \in NetState
    BY <1>1, <1>5 DEF NetState
  <2>3. OnTrack(i, over)
    <3>1. /\ over.whole = n.whole /\ over.got = got /\ over.parts = Tail(n.parts)
          /\ over.level \in 1..Ladder[i.model] /\ over.tried \in 0..(Tries[i.model] - 1)
          /\ over.at = IF Len(n.parts) = 1 THEN "done" ELSE "running"
      BY <1>3
    <3> HIDE DEF over, got, out, split
    <3>2. CASE n.whole
      <4>1. n.parts = <<i.cands>> /\ part = i.cands /\ Tail(n.parts) = <<>> /\ Len(n.parts) = 1
        BY <3>2, <1>6, OneLeft
      <4>2. n.got = <<>>
        BY <3>2, <1>6
      <4>3. Len(got) = 1 /\ got[1].cands = i.cands
        BY <4>1, <4>2, <1>5
      <4>. QED  BY <3>1, <3>2, <4>1, <4>3 DEF OnTrack, Split
    <3>3. CASE ~n.whole /\ n.got = <<>> /\ n.parts = Halves(i.cands)
      <4> DEFINE h == Halves(i.cands)
      <4>1. h = <<h[1], h[2]>>
        BY DEF Halves
      <4>2. part = h[1] /\ Tail(n.parts) = <<h[2]>> /\ <<h[2]>> # <<>> /\ Len(n.parts) = 2
        <5> HIDE DEF h
        <5>1. Head(h) = h[1] /\ Tail(h) = <<h[2]>> /\ <<h[2]>> # <<>> /\ Len(h) = 2
          BY <4>1, TwoLeft
        <5>. QED  BY <5>1, <3>3 DEF h
      <4>3. Len(got) = 1 /\ got[1].cands = h[1]
        BY <3>3, <4>2, <1>5
      <4>4. over.parts # <<>> /\ over.at = "running"
        <5> HIDE DEF h, part
        <5>. QED  BY <3>1, <4>2
      <4>. QED  BY <3>1, <3>3, <4>2, <4>3, <4>4 DEF OnTrack, Split
    <3>4. CASE ~n.whole /\ Len(n.got) = 1 /\ n.got[1].cands = Halves(i.cands)[1] /\ n.parts = <<Halves(i.cands)[2]>>
      <4>1. part = Halves(i.cands)[2] /\ Tail(n.parts) = <<>> /\ Len(n.parts) = 1
        BY <3>4, OneLeft
      <4>2. Len(got) = 2 /\ got[1].cands = Halves(i.cands)[1] /\ got[2].cands = Halves(i.cands)[2]
        BY <3>4, <4>1, <1>5
      <4>. QED  BY <3>1, <3>4, <4>1, <4>2 DEF OnTrack, Split
    <3>. QED  BY <3>2, <3>3, <3>4, <1>6
  <2>. QED  BY <2>1, <2>2, <2>3, <1>5 DEF Continues
<1>. QED  BY <1>7, <1>8

LEMMA DegradeContinues ==
    ASSUME NEW i \in Job, NEW n \in NetState, OnTrack(i, n), n.at = "running"
    PROVE  Continues(i, n, Degrade(i.model, n))
<1> DEFINE lower == [at |-> n.at, whole |-> n.whole, parts |-> n.parts, level |-> n.level + 1, tried |-> 0, got |-> n.got]
<1>1. CASE n.level < Ladder[i.model]
  <2>1. Degrade(i.model, n) = lower
    BY <1>1 DEF Degrade, NetState
  <2>2. i.model \in Model /\ n.level \in Nat /\ Ladder[i.model] \in Nat
        /\ 0 \in 0..(Tries[i.model] - 1)
    BY EvaluateAssumption DEF Job, NetState
  <2>3. lower \in NetState /\ OnTrack(i, lower)
    BY <1>1, <2>2 DEF NetState, OnTrack, Split
  <2>. QED  BY <2>1, <2>3 DEF Continues, NetState
<1>2. CASE ~(n.level < Ladder[i.model])
  BY <1>2, AfterContinues DEF Degrade, Outcome
<1>. QED  BY <1>1, <1>2

LEMMA RetryContinues ==
    ASSUME NEW i \in Job, NEW n \in NetState, OnTrack(i, n), n.at = "running",
           NEW exhausted, Continues(i, n, exhausted)
    PROVE  Continues(i, n, Retry(i.model, n, exhausted))
<1> DEFINE again == [at |-> n.at, whole |-> n.whole, parts |-> n.parts, level |-> n.level, tried |-> n.tried + 1, got |-> n.got]
<1>1. CASE n.tried + 1 < Tries[i.model]
  <2>1. Retry(i.model, n, exhausted) = again
    BY <1>1 DEF Retry, NetState
  <2>2. i.model \in Model /\ n.tried \in Nat /\ Tries[i.model] \in Nat
    BY EvaluateAssumption DEF Job, NetState
  <2>3. again \in NetState /\ OnTrack(i, again)
    BY <1>1, <2>2 DEF NetState, OnTrack, Split
  <2>. QED  BY <2>1, <2>3 DEF Continues, NetState
<1>2. CASE ~(n.tried + 1 < Tries[i.model])
  BY <1>2 DEF Retry
<1>. QED  BY <1>1, <1>2
----------------------------------------------------------------------------
(* The batches of a model.                                                 *)

LEMMA RankIsNumber ==
    ASSUME NEW S \in SUBSET Cand, NEW c
    PROVE  IsFiniteSet(S) /\ Rank(S, c) \in Nat
<1>1. IsFiniteSet(S) /\ IsFiniteSet({d \in S : Place[d] <= Place[c]})
  BY FS_Subset, EvaluateAssumption
<1>. QED  BY <1>1, FS_CardinalityType DEF Rank

\* The ranks of the members of a set differ, and start with one.
LEMMA RanksDiffer ==
    ASSUME NEW S \in SUBSET Cand, NEW c \in S
    PROVE  /\ Rank(S, c) >= 1
           /\ \A d \in S : Rank(S, c) = Rank(S, d) => c = d
<1> DEFINE upTo(e) == {d \in S : Place[d] <= Place[e]}
<1>1. \A e \in S : IsFiniteSet(upTo(e)) /\ Cardinality(upTo(e)) \in Nat /\ e \in upTo(e)
  BY RankIsNumber, FS_Subset, FS_CardinalityType, EvaluateAssumption
<1>2. Rank(S, c) >= 1
  <2>1. Cardinality(upTo(c)) # 0
    BY <1>1, FS_EmptySet
  <2>. QED  BY <1>1, <2>1 DEF Rank
<1>3. ASSUME NEW d \in S, NEW e \in S, Place[d] < Place[e]
      PROVE  Rank(S, d) < Rank(S, e)
  <2>1. Place[d] \in Nat /\ Place[e] \in Nat /\ \A x \in S : Place[x] \in Nat
    BY EvaluateAssumption
  <2>2. upTo(d) \subseteq upTo(e) /\ e \notin upTo(d)
    BY <1>3, <2>1
  <2>3. upTo(d) # upTo(e)
    BY <1>1, <2>2
  <2>4. Cardinality(upTo(d)) < Cardinality(upTo(e))
    BY <1>1, <2>2, <2>3, FS_Subset, FS_CardinalityType
  <2>. QED  BY <2>4 DEF Rank
<1>4. ASSUME NEW d \in S, Rank(S, c) = Rank(S, d)
      PROVE  c = d
  <2>1. Rank(S, c) \in Nat /\ Rank(S, d) \in Nat
    BY RankIsNumber
  <2>2. Place[c] \in Nat /\ Place[d] \in Nat /\ (Place[c] = Place[d] => c = d)
    BY EvaluateAssumption
  <2>. QED  BY <1>3, <1>4, <2>1, <2>2
<1>. QED  BY <1>2, <1>4

LEMMA DivisionIsBounded ==
    ASSUME NEW x \in Nat, NEW n \in Nat, n > 0
    PROVE  x \div n \in Nat /\ n * (x \div n) <= x /\ x < n * (x \div n) + n
OBVIOUS

\* A candidate with something to ask of a model is in one batch of it, which is the
\* batch of everybody in it (_group_by_model, _classify_all).
LEMMA JobOfMember ==
    ASSUME NEW m, NEW c \in Cand
    PROVE  /\ c \in JobOf(m, c).cands
           /\ JobOf(m, c).cands \subseteq Cand
           /\ \A d \in JobOf(m, c).cands : JobOf(m, d) = JobOf(m, c)
BY DEF JobOf, Group

\* No batch is empty or longer than mails_per_request.
LEMMA BatchHasSize ==
    ASSUME NEW m \in Model, NEW c \in Cand
    PROVE  Cardinality(JobOf(m, c).cands) \in 1..BatchSize[m]
<1> DEFINE S == JobOf(m, c).cands
           G == Group(m, Share(m, c))
           n == BatchSize[m]
           b == BatchNo(m, c)
           f == [d \in S |-> Rank(G, d) - n * b]
<1>1. n \in Nat /\ n > 0
  BY EvaluateAssumption
<1>2. G \subseteq Cand /\ S \subseteq G /\ c \in S
  BY DEF JobOf, Group
<1>3. IsFiniteSet(S) /\ Cardinality(S) \in Nat /\ Cardinality(S) # 0
  BY <1>2, RankIsNumber, FS_CardinalityType, FS_EmptySet
<1>4. ASSUME NEW d \in S
      PROVE  Rank(G, d) \in Nat /\ b \in Nat /\ n * b \in Nat /\ Rank(G, d) - n * b \in 1..n
  <2>1. Rank(G, d) \in Nat /\ Rank(G, d) >= 1
    BY <1>2, RankIsNumber, RanksDiffer
  <2>2. (Rank(G, d) - 1) \div n = b
    BY DEF JobOf, BatchNo, Group
  <2>3. Rank(G, d) - 1 \in Nat
    BY <2>1
  <2> HIDE DEF S, G, n, b
  <2>4. b \in Nat /\ n * b <= Rank(G, d) - 1 /\ Rank(G, d) - 1 < n * b + n
    BY <2>2, <2>3, <1>1, DivisionIsBounded
  <2>5. n * b \in Nat
    BY <2>4, <1>1
  <2>. QED  BY <2>1, <2>4, <2>5, <1>1
<1>5. \A d, e \in S : f[d] = f[e] => d = e
  <2>1. SUFFICES ASSUME NEW d \in S, NEW e \in S, f[d] = f[e]
                 PROVE  d = e
    OBVIOUS
  <2>2. Rank(G, d) - n * b = Rank(G, e) - n * b
    BY <2>1
  <2> HIDE DEF S, G, n, b, f
  <2>3. Rank(G, d) = Rank(G, e)
    BY <2>2, <1>4
  <2>. QED  BY <2>3, <1>2, RanksDiffer
<1>6. f \in [S -> 1..n]
  BY <1>4
<1> HIDE DEF S, G, n, b, f
<1>7. IsFiniteSet(1..n) /\ Cardinality(1..n) = n
  BY <1>1, FS_Interval
<1>8. ~(Cardinality(1..n) < Cardinality(S))
  <2>1. SUFFICES ASSUME Cardinality(1..n) < Cardinality(S)
                 PROVE  FALSE
    OBVIOUS
  <2>2. \E x, y \in S : x # y /\ f[x] = f[y]
    BY <2>1, <1>3, <1>6, <1>7, FS_PigeonHole
  <2>. QED  BY <2>2, <1>5
<1>9. Cardinality(S) \in 1..n
  BY <1>1, <1>3, <1>7, <1>8
<1>. QED  BY <1>9 DEF S, n

LEMMA JobsAreJobs ==
    ASSUME toAsk \in [Cand -> SUBSET Proc], NEW m \in Model, NEW i \in JobsOf(m)
    PROVE  /\ i \in Job /\ i.model = m
           /\ i.procs # {} /\ Cardinality(i.cands) \in 1..BatchSize[m]
           /\ \A c \in i.cands : i = JobOf(m, c) /\ i.procs = Share(m, c)
<1>1. PICK c \in Cand : i = JobOf(m, c) /\ Share(m, c) # {}
  BY DEF JobsOf
<1>2. i.model = m /\ i.procs = Share(m, c) /\ i.cands \subseteq Cand
  BY <1>1, JobOfMember DEF JobOf
<1>3. Share(m, c) \subseteq Proc
  BY DEF Share
<1>4. i \in Job
  BY <1>1, <1>2, <1>3 DEF Job, JobOf
<1>5. \A d \in i.cands : i = JobOf(m, d)
  BY <1>1, JobOfMember
<1>6. \A d \in i.cands : i.procs = Share(m, d)
  BY <1>5 DEF JobOf
<1>. QED  BY <1>1, <1>2, <1>4, <1>5, <1>6, BatchHasSize

LEMMA NeededAreProcessors ==
    ASSUME Allowed(rules, edition), NEW c, NEW v
    PROVE  Needed(c, v) \subseteq Proc
<1>1. \A i \in DOMAIN rules : ProcessorNames(rules[i].when) \subseteq Proc
  BY AllowedIsKnown DEF ProcessorNames, ProcessorAtoms, Known
<1>. QED  BY <1>1 DEF Needed

\* What holds of the batches: they are batches of a model that was taken up, each is
\* on its way, and no more of it is recorded than came back.
NetInv ==
    /\ rules \in Rulebook /\ edition \in Edition /\ Allowed(rules, edition)
    /\ phase \in {"idle", "consult", "ask", "done"}
    /\ phase \in {"idle", "consult"} => Blank
    /\ toAsk \in [Cand -> SUBSET Proc]
    /\ models \subseteq Model
    /\ \A i \in DOMAIN net : /\ i.model \in Model \ models
                            /\ i \in JobsOf(i.model)
                            /\ net[i] \in NetState
                            /\ OnTrack(i, net[i])
                            /\ noted[i] <= Len(net[i].got)
    /\ noted \in [DOMAIN net -> Nat]

LEMMA BlankIsQuiet ==
    ASSUME Blank
    PROVE  /\ toAsk \in [Cand -> SUBSET Proc] /\ models \subseteq Model
           /\ DOMAIN net = {} /\ noted \in [DOMAIN net -> Nat]
BY DEF Blank

LEMMA NetStart == Init => NetInv
<1> SUFFICES ASSUME Init
             PROVE  NetInv
  OBVIOUS
<1>1. Blank
  BY DEF Init
<1>. QED  BY <1>1, BlankIsQuiet DEF Init, NetInv

\* Whatever a worker does, its batch goes on.
LEMMA WorkContinues ==
    ASSUME NetInv, NEW i \in DOMAIN net, Work(i)
    PROVE  \E n : Continues(i, net[i], n) /\ Network(i, n) /\ net[i].at # "done"
<1> DEFINE n == net[i]
<1>1. i \in Job /\ i.model \in Model /\ n \in NetState /\ OnTrack(i, n)
  BY JobsAreJobs DEF NetInv
<1>2. CASE Launch(i)
  <2> DEFINE started == [at |-> "running", whole |-> n.whole, parts |-> n.parts, level |-> n.level,
                         tried |-> n.tried, got |-> n.got]
  <2>1. n.at = "waiting" /\ Network(i, [n EXCEPT !.at = "running"])
    BY <1>2 DEF Launch
  <2>2. [n EXCEPT !.at = "running"] = started
    BY <1>1 DEF NetState
  <2>3. started \in NetState /\ OnTrack(i, started)
    BY <1>1, <2>1 DEF NetState, OnTrack, Split
  <2>4. Continues(i, n, started)
    BY <1>1, <2>3 DEF Continues, NetState
  <2>. QED  BY <2>1, <2>2, <2>4
<1>3. CASE Unserved(i)
  <2>1. n.at = "running"
    BY <1>3 DEF Unserved, Running
  <2>2. /\ Continues(i, n, After(n, Failed))
        /\ Continues(i, n, Degrade(i.model, n))
    BY <1>1, <2>1, AfterContinues, DegradeContinues DEF Outcome
  <2>3. /\ Continues(i, n, Retry(i.model, n, Degrade(i.model, n)))
        /\ Continues(i, n, Retry(i.model, n, After(n, Failed)))
    BY <1>1, <2>1, <2>2, RetryContinues
  <2>4. \E next \in {After(n, Failed), Degrade(i.model, n), Retry(i.model, n, Degrade(i.model, n)),
                     Retry(i.model, n, After(n, Failed))} : Network(i, next)
    BY <1>3 DEF Unserved
  <2>. QED  BY <2>1, <2>2, <2>3, <2>4
<1>4. CASE Served(i)
  <2>1. n.at = "running"
    BY <1>4 DEF Served, Running
  <2>2. PICK r \in Response : Network(i, After(n, Parse(i, r)))
    BY <1>4 DEF Served
  <2>3. Parse(i, r) \in Outcome
    BY <1>1 DEF Outcome
  <2>4. Continues(i, n, After(n, Parse(i, r)))
    BY <1>1, <2>1, <2>3, AfterContinues
  <2>. QED  BY <2>1, <2>2, <2>4
<1>. QED  BY <1>2, <1>3, <1>4 DEF Work

LEMMA SameJobs ==
    ASSUME toAsk' = toAsk
    PROVE  \A m : JobsOf(m)' = JobsOf(m)
BY DEF JobsOf, JobOf, Group, BatchNo, Share

LEMMA NetStep == NetInv /\ [Next]_vars => NetInv'
<1> SUFFICES ASSUME NetInv, [Next]_vars
             PROVE  NetInv'
  OBVIOUS
<1>1. CASE Start
  BY <1>1, SameJobs DEF Start, NetInv, settings, item, batches, Blank
<1>2. CASE Reconfigure
  <2>1. UNCHANGED <<rules, phase, values, usedCache, sawInvalid, sawMissing, toAsk, models, net, noted, rows, result>>
    BY <1>2 DEF Reconfigure, item, batches
  <2>2. edition' \in Edition /\ Allowed(rules, edition')
    BY <1>2 DEF Reconfigure
  <2>3. Allowed(rules', edition')
    BY <2>1, <2>2
  <2>. QED  BY <2>1, <2>2, <2>3, SameJobs DEF NetInv, Blank
<1>3. CASE Consult
  <2>1. /\ UNCHANGED <<rules, edition, net, noted>>
        /\ phase = "consult" /\ phase' = "ask"
    BY <1>3 DEF Consult, settings
  <2>2. DOMAIN net = {} /\ noted \in [DOMAIN net -> Nat]
    BY <2>1, BlankIsQuiet DEF NetInv
  <2>3. toAsk' \in [Cand -> SUBSET Proc]
    BY <1>3, NeededAreProcessors DEF Consult, NetInv
  <2>4. models' \subseteq Model
    <3>1. models' = {ModelOf[p] : p \in UNION {toAsk'[c] : c \in Cand}}
      BY <1>3 DEF Consult
    <3>2. \A p \in UNION {toAsk'[c] : c \in Cand} : ModelOf[p] \in Model
      BY <2>3, EvaluateAssumption
    <3>. QED  BY <3>1, <3>2
  <2>. QED  BY <2>1, <2>2, <2>3, <2>4 DEF NetInv
<1>4. CASE NextModel
  <2>1. /\ UNCHANGED <<rules, edition, phase, toAsk>> /\ phase = "ask"
    BY <1>4 DEF NextModel, settings
  <2>2. PICK m \in models : /\ models' = models \ {m}
                            /\ net' = [i \in JobsOf(m) |-> Waiting(i)]
                            /\ noted' = [i \in JobsOf(m) |-> 0]
    BY <1>4 DEF NextModel
  <2>3. m \in Model /\ toAsk \in [Cand -> SUBSET Proc]
    BY DEF NetInv
  <2>4. ASSUME NEW i \in JobsOf(m)
        PROVE  i \in Job /\ i.model = m /\ Waiting(i) \in NetState /\ OnTrack(i, Waiting(i)) /\ 0 <= Len(Waiting(i).got)
    <3>1. i \in Job /\ i.model = m /\ i.cands \in SUBSET Cand
      BY <2>3, JobsAreJobs DEF Job
    <3>2. Waiting(i) \in NetState
      BY <3>1 DEF Waiting, NetState
    <3>3. 1 \in 1..Ladder[m] /\ 0 \in 0..(Tries[m] - 1)
      BY <2>3, EvaluateAssumption
    <3>4. OnTrack(i, Waiting(i)) /\ 0 <= Len(Waiting(i).got)
      BY <3>1, <3>3 DEF Waiting, OnTrack, Split
    <3>. QED  BY <3>1, <3>2, <3>4
  <2>5. \A i \in DOMAIN net' : /\ i.model \in Model \ models'
                              /\ i \in JobsOf(i.model)'
                              /\ net'[i] \in NetState /\ OnTrack(i, net'[i])
                              /\ noted'[i] <= Len(net'[i].got)
    BY <2>1, <2>2, <2>3, <2>4, SameJobs
  <2>6. noted' \in [DOMAIN net' -> Nat]
    BY <2>2
  <2>. QED  BY <2>1, <2>2, <2>5, <2>6 DEF NetInv
<1>5. ASSUME NEW i \in DOMAIN net, Record(i)
      PROVE  NetInv'
  <2>1. /\ UNCHANGED <<rules, edition, phase, toAsk, models, net>> /\ phase = "ask"
        /\ noted' = [noted EXCEPT ![i] = @ + 1]
        /\ i \in Unrecorded /\ net[i].at = "done"
    BY <1>5 DEF Record, settings, IsNext
  <2>2. noted[i] < Len(net[i].got) /\ noted[i] \in Nat /\ Len(net[i].got) \in Nat
    BY <2>1 DEF Unrecorded, NetInv, NetState
  <2>3. noted' \in [DOMAIN net -> Nat] /\ \A j \in DOMAIN net : noted'[j] <= Len(net[j].got)
    BY <2>1, <2>2 DEF NetInv
  <2>. QED  BY <2>1, <2>3, SameJobs DEF NetInv
<1>6. CASE Settle
  <2>1. UNCHANGED <<rules, edition, toAsk, models, net, noted>> /\ phase' = "done"
    BY <1>6 DEF Settle, settings, batches
  <2>. QED  BY <2>1, SameJobs DEF NetInv
<1>7. CASE Leave
  <2>1. UNCHANGED <<rules, edition>> /\ phase' = "idle" /\ Blank'
    BY <1>7 DEF Leave, settings, Forget, Blank
  <2>2. /\ toAsk' \in [Cand -> SUBSET Proc] /\ models' \subseteq Model
        /\ DOMAIN net' = {} /\ noted' \in [DOMAIN net' -> Nat]
    BY <2>1 DEF Blank
  <2>. QED  BY <2>1, <2>2 DEF NetInv
<1>8. ASSUME NEW i \in DOMAIN net, Work(i)
      PROVE  NetInv'
  <2>1. PICK n : Continues(i, net[i], n) /\ Network(i, n) /\ net[i].at # "done"
    BY <1>8, WorkContinues
  <2>2. /\ UNCHANGED <<rules, edition, phase, toAsk, models, noted>>
        /\ net' = [net EXCEPT ![i] = n]
    BY <2>1 DEF Network, settings
  <2>3. phase \notin {"idle", "consult"}
    BY BlankIsQuiet DEF NetInv
  <2>4. /\ n \in NetState /\ OnTrack(i, n) /\ Len(net[i].got) <= Len(n.got)
        /\ Len(net[i].got) \in Nat /\ Len(n.got) \in Nat /\ noted[i] \in Nat
    BY <2>1 DEF Continues, NetInv, NetState
  <2>5. noted[i] <= Len(n.got)
    BY <2>4 DEF NetInv
  <2>6. DOMAIN net' = DOMAIN net /\ \A j \in DOMAIN net : net'[j] = IF j = i THEN n ELSE net[j]
    BY <2>2
  <2>. QED  BY <2>2, <2>3, <2>4, <2>5, <2>6, SameJobs DEF NetInv
<1>9. CASE UNCHANGED vars
  BY <1>9, SameJobs DEF vars, settings, item, batches, NetInv, Blank
<1>. QED  BY <1>1, <1>2, <1>3, <1>4, <1>5, <1>6, <1>7, <1>8, <1>9 DEF Next, Bookkeeping

\* What came back of a batch and what is left of it are the batch or its halves.
LEMMA PiecesOnTrack ==
    ASSUME NEW i \in Job, NEW n \in NetState, OnTrack(i, n)
    PROVE  Pieces(n) = <<i.cands>> \/ Pieces(n) = Halves(i.cands)
<1> DEFINE h == Halves(i.cands)
           first == [k \in 1..Len(n.got) |-> n.got[k].cands]
<1>1. h = <<h[1], h[2]>>
  BY DEF Halves
<1>2. n.got \in Seq(Attempt) /\ n.parts \in Seq(SUBSET Cand)
  BY DEF NetState
<1> HIDE DEF h
<1>3. CASE n.got = <<>>
  <2>1. first = <<>>
    BY <1>3
  <2>2. Pieces(n) = n.parts
    BY <2>1, <1>2 DEF Pieces
  <2>. QED  BY <2>2, <1>3 DEF OnTrack, Split, h
<1>4. CASE Len(n.got) = 1 /\ n.parts = <<>>
  <2>1. first = <<n.got[1].cands>>
    BY <1>4
  <2>2. Pieces(n) = <<n.got[1].cands>>
    BY <2>1, <1>4 DEF Pieces
  <2>. QED  BY <2>2, <1>4, <1>2 DEF OnTrack, Split
<1>5. CASE Len(n.got) = 1 /\ n.parts = <<h[2]>> /\ n.got[1].cands = h[1]
  <2>1. first = <<h[1]>>
    BY <1>5
  <2>2. Pieces(n) = <<h[1]>> \o <<h[2]>>
    BY <2>1, <1>5 DEF Pieces
  <2>. QED  BY <2>2, <1>1 DEF h
<1>6. CASE Len(n.got) = 2 /\ n.parts = <<>> /\ n.got[1].cands = h[1] /\ n.got[2].cands = h[2]
  <2>1. first = <<h[1], h[2]>>
    BY <1>6
  <2>2. Pieces(n) = <<h[1], h[2]>>
    BY <2>1, <1>6 DEF Pieces
  <2>. QED  BY <2>2, <1>1 DEF h
<1>. QED  BY <1>3, <1>4, <1>5, <1>6 DEF OnTrack, Split, h

LEMMA HalvesMakeUp ==
    ASSUME NEW S \in SUBSET Cand
    PROVE  Halves(S)[1] \cup Halves(S)[2] = S /\ Halves(S)[1] \cap Halves(S)[2] = {}
<1>1. Cardinality(S) \in Nat /\ \A c \in S : Rank(S, c) \in Nat
  BY RankIsNumber, FS_CardinalityType
<1>2. Cardinality(S) \div 2 \in Nat
  BY <1>1
<1>. QED  BY <1>1, <1>2 DEF Halves

LEMMA SplitFollows == NetInv => SplitKeepsAll
<1> SUFFICES ASSUME NetInv, NEW i \in DOMAIN net
             PROVE  /\ Len(Pieces(net[i])) <= 2
                    /\ UNION {Pieces(net[i])[k] : k \in DOMAIN Pieces(net[i])} = i.cands
                    /\ \A k, l \in DOMAIN Pieces(net[i]) : k # l => Pieces(net[i])[k] \cap Pieces(net[i])[l] = {}
  BY DEF SplitKeepsAll
<1> DEFINE p == Pieces(net[i])
           h == Halves(i.cands)
<1>1. i \in Job /\ net[i] \in NetState /\ OnTrack(i, net[i]) /\ i.cands \in SUBSET Cand
  BY JobsAreJobs DEF NetInv, Job
<1>2. p = <<i.cands>> \/ p = h
  BY <1>1, PiecesOnTrack
<1>3. h = <<h[1], h[2]>>
  BY DEF Halves
<1>4. h[1] \cup h[2] = i.cands /\ h[1] \cap h[2] = {}
  BY <1>1, HalvesMakeUp
<1> HIDE DEF p, h
<1>5. CASE p = <<i.cands>>
  <2>1. DOMAIN p = {1} /\ p[1] = i.cands /\ Len(p) = 1
    BY <1>5
  <2>. QED  BY <2>1 DEF p
<1>6. CASE p = h
  <2>1. DOMAIN p = {1, 2} /\ p[1] = h[1] /\ p[2] = h[2] /\ Len(p) = 2
    BY <1>3, <1>6
  <2>2. UNION {p[k] : k \in DOMAIN p} = p[1] \cup p[2]
    BY <2>1
  <2>. QED  BY <2>1, <2>2, <1>4 DEF p
<1>. QED  BY <1>2, <1>5, <1>6

LEMMA NetAlways == Spec => []NetInv
<1>. QED  BY NetStart, NetStep, PTL DEF Spec

\* Splitting a batch that brought nothing loses no candidate and asks about none
\* twice (_classify_network).
THEOREM SplittingKeepsAll == Spec => []SplitKeepsAll
<1>. QED  BY NetAlways, SplitFollows, PTL
----------------------------------------------------------------------------
(* The bookkeeping half.                                                   *)

\* A non-empty set of numbers has a least element.
LEMMA LeastNumber ==
    ASSUME NEW T \in SUBSET Nat, T # {}
    PROVE  \E n \in T : \A j \in T : n <= j
<1> DEFINE Less == {p \in Nat \X Nat : p[1] < p[2]}
<1>1. IsWellFoundedOn(Less, Nat)
  BY NatLessThanWellFounded, Zenon DEF OpToRel
<1> HIDE DEF Less
<1>2. PICK n \in T : \A j \in T : ~ (<<j, n>> \in Less)
  BY <1>1, WFMin
<1>3. ASSUME NEW j \in T PROVE n <= j
  <2>1. j \in Nat /\ n \in Nat
    OBVIOUS
  <2>2. j < n => <<j, n>> \in Less
    BY <2>1 DEF Less
  <2>. QED  BY <1>2, <2>1, <2>2
<1>. QED  BY <1>3

\* What comes back of a call answers only processors there are, with answers
\* (parse_classification_response, _call_one).
LEMMA OutcomeItems ==
    ASSUME NEW out \in Outcome, NEW k \in DOMAIN out.results
    PROVE  /\ k \in Nat
           /\ DOMAIN out.results[k].answers \subseteq Proc
           /\ \A p \in DOMAIN out.results[k].answers : out.results[k].answers[p] \in Answer
<1>1. out # Failed
  BY DEF Failed
<1>2. PICK j \in Job : \E r \in Response : out = Parse(j, r)
  BY <1>1 DEF Outcome
<1>3. PICK r \in Response : out = Parse(j, r)
  BY <1>2
<1>4. \A l \in DOMAIN r : /\ l \in Nat
                          /\ r[l].answers # Malformed =>
                                /\ DOMAIN r[l].answers \subseteq Proc
                                /\ \A p \in DOMAIN r[l].answers : r[l].answers[p] \in Answer
  BY EvaluateAssumption
<1> DEFINE good == {l \in DOMAIN r : r[l].answers # Malformed}
           offered(l) == DOMAIN r[l].answers \cap j.procs
           single == {l \in good : r[l].id = 1 /\ offered(l) # {}}
<1>5. CASE Provider[j.model] = "systemone"
  <2>1. out.results = [l \in single |-> [id |-> 1, answers |-> [p \in offered(l) |-> r[l].answers[p]]]]
    BY <1>3, <1>5 DEF Parse
  <2>2. k \in single /\ out.results[k].answers = [p \in offered(k) |-> r[k].answers[p]]
    BY <2>1
  <2>. QED  BY <2>2, <1>4
<1>6. CASE Provider[j.model] # "systemone"
  <2>1. out.results = [l \in good |-> r[l]]
    BY <1>3, <1>6 DEF Parse
  <2>2. k \in good /\ out.results[k] = r[k]
    BY <2>1
  <2>. QED  BY <2>2, <1>4
<1>. QED  BY <1>5, <1>6

LEMMA FirstIsItem ==
    ASSUME NEW a \in Attempt, NEW c \in Taken(a)
    PROVE  /\ First(a, c) \in Items(a, c)
           /\ First(a, c) \in Nat
           /\ DOMAIN Says(a, c) \subseteq Proc
           /\ \A p \in DOMAIN Says(a, c) : Says(a, c)[p] \in Answer
<1>1. Items(a, c) # {} /\ Items(a, c) \subseteq DOMAIN a.out.results
  BY DEF Taken, Items
<1>2. a.out \in Outcome
  BY DEF Attempt
<1>3. Items(a, c) \subseteq Nat
  BY <1>1, <1>2, OutcomeItems
<1>4. \E n \in Items(a, c) : \A j \in Items(a, c) : n <= j
  BY <1>1, <1>3, LeastNumber
<1>5. First(a, c) \in Items(a, c)
  BY <1>4 DEF First
<1>. QED  BY <1>1, <1>2, <1>3, <1>5, OutcomeItems DEF Says

LEMMA AcceptedAreValid ==
    ASSUME NEW i \in Job, NEW a \in Attempt, NEW c \in Taken(a), NEW p \in Accepted(i, Says(a, c))
    PROVE  /\ p \in i.procs /\ p \in Proc
           /\ Says(a, c)[p] \in Answer
           /\ ValidAnswer(p, edition, Says(a, c)[p])
<1>1. p \in DOMAIN Says(a, c) /\ p \in i.procs /\ ValidAnswer(p, edition, Says(a, c)[p])
  BY DEF Accepted, Offered
<1>. QED  BY <1>1, FirstIsItem

\* Among finitely many candidates one has the last first item.
LEMMA LastOf ==
    ASSUME NEW T \in SUBSET Cand, T # {}, NEW f \in [T -> Nat]
    PROVE  \E c \in T : \A d \in T : f[d] <= f[c]
<1> DEFINE later(c) == {d \in T : f[d] > f[c]}
           N == {Cardinality(later(c)) : c \in T}
<1>1. IsFiniteSet(T)
  BY RankIsNumber
<1>2. \A c \in T : IsFiniteSet(later(c)) /\ Cardinality(later(c)) \in Nat
  BY <1>1, FS_Subset, FS_CardinalityType
<1>3. N \in SUBSET Nat /\ N # {}
  BY <1>2
<1>4. PICK c \in T : \A d \in T : Cardinality(later(c)) <= Cardinality(later(d))
  <2> HIDE DEF N
  <2>1. PICK n \in N : \A j \in N : n <= j
    BY <1>3, LeastNumber
  <2> USE DEF N
  <2>2. PICK c \in T : n = Cardinality(later(c))
    OBVIOUS
  <2>3. ASSUME NEW d \in T
        PROVE  Cardinality(later(c)) <= Cardinality(later(d))
    <3>1. Cardinality(later(d)) \in N
      OBVIOUS
    <3> HIDE DEF N, later
    <3>. QED  BY <2>1, <2>2, <3>1
  <2>. QED  BY <2>3
<1>5. SUFFICES ASSUME NEW d \in T, ~(f[d] <= f[c])
               PROVE  FALSE
  BY <1>4
<1>6. f[d] \in Nat /\ f[c] \in Nat /\ f[d] > f[c] /\ \A e \in T : f[e] \in Nat
  BY <1>5
<1>7. later(d) \subseteq later(c) /\ d \in later(c) /\ d \notin later(d)
  BY <1>6
<1>8. Cardinality(later(d)) <= Cardinality(later(c)) /\ Cardinality(later(c)) # Cardinality(later(d))
  BY <1>2, <1>7, FS_Subset
<1>. QED  BY <1>2, <1>4, <1>8

\* What a step of the bookkeeping records: the next attempt of its batch.
Current(i) == net[i].got[noted[i] + 1]

LEMMA CurrentIsAttempt ==
    ASSUME NetInv, NEW i \in DOMAIN net, Record(i)
    PROVE  /\ i \in Job /\ i.model \in Model
           /\ Current(i) \in Attempt
           /\ Current(i).cands \subseteq i.cands /\ i.cands \subseteq Cand
           /\ i.procs # {}
           /\ \A c \in i.cands : i = JobOf(i.model, c) /\ i.procs = Share(i.model, c)
<1>1. i \in Job /\ i.model \in Model /\ net[i] \in NetState /\ OnTrack(i, net[i]) /\ i.cands \in SUBSET Cand
  BY JobsAreJobs DEF NetInv, Job
<1>2. noted[i] + 1 \in 1..Len(net[i].got) /\ net[i].got \in Seq(Attempt)
  <2>1. i \in Unrecorded /\ net[i].at = "done"
    BY DEF Record, IsNext
  <2>2. noted[i] < Len(net[i].got) /\ noted[i] \in Nat
    BY <2>1 DEF Unrecorded, NetInv
  <2>. QED  BY <2>2, <1>1 DEF NetState
<1>3. Current(i) \in Attempt
  BY <1>2 DEF Current
<1>4. \A k \in 1..Len(net[i].got) : net[i].got[k].cands \subseteq i.cands
  <2>1. Halves(i.cands)[1] \subseteq i.cands /\ Halves(i.cands)[2] \subseteq i.cands
    BY <1>1, HalvesAreParts
  <2>. QED  BY <1>1, <2>1 DEF OnTrack, Split
<1>5. Current(i).cands \subseteq i.cands
  BY <1>2, <1>4 DEF Current
<1>. QED  BY <1>1, <1>3, <1>5, JobsAreJobs DEF NetInv

\* The effect of recording an attempt, by name.
Writes(i, a, c) == CacheKeys(c, Accepted(i, Says(a, c)))
Written(i, a) == UNION {Writes(i, a, c) : c \in Taken(a)}
Writer(i, a, key) == CHOOSE c \in Taken(a) :
    /\ key \in Writes(i, a, c)
    /\ \A d \in Taken(a) : key \in Writes(i, a, d) => First(a, d) <= First(a, c)
Row(i, c, ok) == [model |-> i.model, cand |-> c, valid |-> ok]
RowsOf(i, a) ==
    IF a.out = Failed THEN {Row(i, c, FALSE) : c \in a.cands}
    ELSE {Row(i, c, TRUE) : c \in Taken(a)} \cup {Row(i, c, FALSE) : c \in Unparsed(a)}

LEMMA RecordEffect ==
    ASSUME NEW i, Record(i)
    PROVE  /\ values' = [c \in Cand |-> [p \in Proc |->
                 IF c \in Taken(Current(i)) /\ p \in Accepted(i, Says(Current(i), c))
                 THEN Says(Current(i), c)[p] ELSE values[c][p]]]
           /\ cache' = [key \in DOMAIN cache \cup Written(i, Current(i)) |->
                 IF key \in Written(i, Current(i))
                 THEN Says(Current(i), Writer(i, Current(i), key))[key[2]] ELSE cache[key]]
           /\ answered' = answered \cup Written(i, Current(i))
           /\ sawInvalid' = sawInvalid \cup (IF Current(i).out = Failed THEN Current(i).cands
                                             ELSE Unparsed(Current(i)))
           /\ sawMissing' = sawMissing \cup (IF Current(i).out = Failed THEN {} ELSE Overlooked(Current(i)))
           /\ rows' = Append(rows, RowsOf(i, Current(i)))
BY DEF Record, Current, Written, Writes, Writer, RowsOf, Row, CacheKeys

LEMMA WriterWrites ==
    ASSUME NEW i \in Job, NEW a \in Attempt, a.cands \subseteq Cand, NEW key \in Written(i, a)
    PROVE  /\ Writer(i, a, key) \in Taken(a)
           /\ \E p \in Accepted(i, Says(a, Writer(i, a, key))) :
                 HasInput(Writer(i, a, key), p) /\ key = KeyOf(Writer(i, a, key), p)
<1> DEFINE T == {c \in Taken(a) : key \in Writes(i, a, c)}
           f == [c \in T |-> First(a, c)]
<1>1. T \in SUBSET Cand /\ T # {}
  BY DEF Written, Taken
<1>2. f \in [T -> Nat]
  BY FirstIsItem
<1>3. \E c \in T : \A d \in T : f[d] <= f[c]
  <2> HIDE DEF T, f
  <2>. QED  BY <1>1, <1>2, LastOf
<1>4. \E c \in Taken(a) : /\ key \in Writes(i, a, c)
                          /\ \A d \in Taken(a) : key \in Writes(i, a, d) => First(a, d) <= First(a, c)
  BY <1>3
<1>5. Writer(i, a, key) \in Taken(a) /\ key \in Writes(i, a, Writer(i, a, key))
  BY <1>4 DEF Writer
<1>. QED  BY <1>5 DEF Writes, CacheKeys

\* What holds of the tables and of what a run knows: every answer is valid for the
\* edition it was given for, whatever is answered is cached, and both the answers and
\* the questions of a candidate are needed by its rules.
DataInv ==
    /\ DOMAIN cache \subseteq Key
    /\ \A k \in DOMAIN cache : cache[k] \in Answer /\ ValidAnswer(k[2], k[3], cache[k])
    /\ answered \subseteq DOMAIN cache
    /\ runs \in 0..MaxRuns /\ reevaluate \in BOOLEAN /\ bodies \subseteq Cand
    /\ usedCache \subseteq Cand /\ sawInvalid \subseteq Cand /\ sawMissing \subseteq Cand
    /\ rows \in Seq(SUBSET Item)
    /\ values \in [Cand -> [Proc -> Answer \cup {NoAnswer}]]
    /\ \A c \in Cand, p \in Proc : values[c][p] # NoAnswer =>
          ValidAnswer(p, edition, values[c][p]) /\ p \in Needed(c, Unanswered)
    /\ \A c \in Cand : toAsk[c] \subseteq Needed(c, Unanswered)

LEMMA KeyIsKey ==
    ASSUME edition \in Edition, NEW c \in Cand, NEW p \in Proc
    PROVE  /\ KeyOf(c, p) \in Key
           /\ KeyOf(c, p)[1] = Fp[c] /\ KeyOf(c, p)[2] = p /\ KeyOf(c, p)[3] = edition
           /\ KeyOf(c, p)[4] = Input(c, p)
BY DEF KeyOf, Key, Input

LEMMA BlankKnowsNothing ==
    ASSUME Blank
    PROVE  /\ usedCache = {} /\ sawInvalid = {} /\ sawMissing = {} /\ rows \in Seq(SUBSET Item)
           /\ values \in [Cand -> [Proc -> Answer \cup {NoAnswer}]]
           /\ \A c \in Cand, p \in Proc : values[c][p] = NoAnswer
           /\ \A c \in Cand : toAsk[c] = {}
BY DEF Blank, Unanswered

LEMMA DataStart == Init => DataInv
<1> SUFFICES ASSUME Init
             PROVE  DataInv
  OBVIOUS
<1>1. Blank /\ cache = <<>> /\ answered = {} /\ runs = 0 /\ reevaluate = FALSE /\ bodies = {}
  BY DEF Init
<1>2. DOMAIN cache = {} /\ runs \in 0..MaxRuns
  BY <1>1, EvaluateAssumption
<1>. QED  BY <1>1, <1>2, BlankKnowsNothing DEF DataInv

\* Rules and edition fixed, what is needed is the same.
LEMMA SameNeeds ==
    ASSUME rules' = rules, NEW v
    PROVE  \A c : Needed(c, v)' = Needed(c, v)
BY DEF Needed, Of

LEMMA HitIsCached ==
    ASSUME NetInv, DataInv, NEW c \in Cand, NEW p \in Proc, Hit(c, p) # NoAnswer
    PROVE  Hit(c, p) \in Answer /\ ValidAnswer(p, edition, Hit(c, p))
<1>1. KeyOf(c, p) \in DOMAIN cache /\ Hit(c, p) = cache[KeyOf(c, p)]
  BY DEF Hit
<1>2. KeyOf(c, p)[2] = p /\ KeyOf(c, p)[3] = edition
  BY KeyIsKey DEF NetInv
<1>. QED  BY <1>1, <1>2 DEF DataInv

LEMMA ConsultKeepsData ==
    ASSUME NetInv, DataInv, Consult
    PROVE  DataInv'
<1> DEFINE Askable(c) == {p \in Needed(c, Unanswered) : HasInput(c, p)}
           Hits(c) == {p \in Askable(c) : Hit(c, p) # NoAnswer}
           cached == [c \in Cand |-> [p \in Proc |-> IF p \in Hits(c) THEN Hit(c, p) ELSE NoAnswer]]
<1>1. /\ values' = cached
      /\ usedCache' = {c \in Cand : Hits(c) # {}}
      /\ toAsk' = [c \in Cand |-> IF Askable(c) = Hits(c) THEN {} ELSE Needed(c, cached[c])]
      /\ UNCHANGED <<rules, edition, cache, answered, runs, reevaluate, bodies, sawInvalid, sawMissing, rows>>
  BY DEF Consult, settings, tables
<1>2. Allowed(rules, edition) /\ \A c \in Cand : Needed(c, Unanswered) \subseteq Proc
  BY NeededAreProcessors DEF NetInv
<1>3. ASSUME NEW c \in Cand, NEW p \in Proc
      PROVE  /\ cached[c][p] \in Answer \cup {NoAnswer}
             /\ cached[c][p] # NoAnswer => /\ ValidAnswer(p, edition, cached[c][p])
                                           /\ p \in Needed(c, Unanswered)
  <2>1. cached[c][p] = IF p \in Hits(c) THEN Hit(c, p) ELSE NoAnswer
    OBVIOUS
  <2>2. p \in Hits(c) => p \in Needed(c, Unanswered) /\ Hit(c, p) # NoAnswer
    OBVIOUS
  <2> HIDE DEF cached, Hits
  <2>3. CASE p \in Hits(c)
    BY <2>1, <2>2, <2>3, HitIsCached
  <2>4. CASE p \notin Hits(c)
    BY <2>1, <2>4
  <2>. QED  BY <2>3, <2>4
<1>4. cached \in [Cand -> [Proc -> Answer \cup {NoAnswer}]]
  BY <1>3
<1>5. ASSUME NEW c \in Cand
      PROVE  Needed(c, cached[c]) \subseteq Needed(c, Unanswered)
  BY <1>2, AnythingExtendsNothing, NeededShrinks
<1>6. \A c \in Cand : toAsk'[c] \subseteq Needed(c, Unanswered)
  <2> HIDE DEF cached, Hits, Askable
  <2>. QED  BY <1>1, <1>5
<1>7. \A c : Needed(c, Unanswered)' = Needed(c, Unanswered)
  BY <1>1, SameNeeds
<1>8. usedCache' \subseteq Cand
  BY <1>1
<1>9. \A c \in Cand, p \in Proc : values'[c][p] # NoAnswer =>
         ValidAnswer(p, edition', values'[c][p]) /\ p \in Needed(c, Unanswered)'
  <2> HIDE DEF cached
  <2>. QED  BY <1>1, <1>3, <1>7
<1> HIDE DEF cached, Hits, Askable
<1>. QED  BY <1>1, <1>4, <1>6, <1>7, <1>8, <1>9 DEF DataInv

LEMMA RowsAreItems ==
    ASSUME NEW i \in Job, NEW a \in Attempt, a.cands \subseteq Cand
    PROVE  RowsOf(i, a) \subseteq Item
<1>1. \A c \in Cand, ok \in BOOLEAN : Row(i, c, ok) \in Item
  BY DEF Row, Item, Job
<1>2. Taken(a) \subseteq Cand /\ Unparsed(a) \subseteq Cand
  BY DEF Taken, Unparsed
<1>. QED  BY <1>1, <1>2 DEF RowsOf

LEMMA RecordKeepsData ==
    ASSUME NetInv, DataInv, NEW i \in DOMAIN net, Record(i)
    PROVE  DataInv'
<1> DEFINE a == Current(i)
           good(c) == Accepted(i, Says(a, c))
<1>1. UNCHANGED <<rules, edition, runs, reevaluate, bodies, usedCache, toAsk>>
  BY DEF Record, settings
<1>2. /\ i \in Job /\ a \in Attempt /\ a.cands \subseteq i.cands /\ i.cands \subseteq Cand
      /\ \A c \in i.cands : i.procs = Share(i.model, c)
  BY CurrentIsAttempt
<1>3. Taken(a) \subseteq a.cands /\ Unparsed(a) \subseteq a.cands /\ Overlooked(a) \subseteq a.cands
  BY DEF Taken, Unparsed, Overlooked
<1>4. \A c \in Taken(a) : \A p \in good(c) : /\ p \in i.procs /\ p \in Proc /\ Says(a, c)[p] \in Answer
                                             /\ ValidAnswer(p, edition, Says(a, c)[p])
  BY <1>2, AcceptedAreValid
<1>5. edition \in Edition /\ Allowed(rules, edition)
  BY DEF NetInv
<1> HIDE DEF a
<1>6. /\ values' = [c \in Cand |-> [p \in Proc |->
             IF c \in Taken(a) /\ p \in good(c) THEN Says(a, c)[p] ELSE values[c][p]]]
      /\ cache' = [key \in DOMAIN cache \cup Written(i, a) |->
             IF key \in Written(i, a) THEN Says(a, Writer(i, a, key))[key[2]] ELSE cache[key]]
      /\ answered' = answered \cup Written(i, a)
      /\ sawInvalid' = sawInvalid \cup (IF a.out = Failed THEN a.cands ELSE Unparsed(a))
      /\ sawMissing' = sawMissing \cup (IF a.out = Failed THEN {} ELSE Overlooked(a))
      /\ rows' = Append(rows, RowsOf(i, a))
  BY RecordEffect DEF a
<1>7. sawInvalid' \subseteq Cand /\ sawMissing' \subseteq Cand
  BY <1>2, <1>3, <1>6 DEF DataInv
<1>8. rows' \in Seq(SUBSET Item)
  <2>1. RowsOf(i, a) \in SUBSET Item
    BY <1>2, RowsAreItems
  <2>. QED  BY <2>1, <1>6 DEF DataInv
<1>9. ASSUME NEW key \in Written(i, a)
      PROVE  /\ key \in Key
             /\ Says(a, Writer(i, a, key))[key[2]] \in Answer
             /\ ValidAnswer(key[2], key[3], Says(a, Writer(i, a, key))[key[2]])
  <2> DEFINE c == Writer(i, a, key)
  <2>1. PICK p \in good(c) : key = KeyOf(c, p)
    BY <1>2, WriterWrites
  <2>2. c \in Taken(a) /\ c \in Cand
    BY <1>2, <1>3, WriterWrites
  <2> HIDE DEF c, good
  <2>3. p \in Proc /\ Says(a, c)[p] \in Answer /\ ValidAnswer(p, edition, Says(a, c)[p])
    BY <2>1, <2>2, <1>4
  <2>4. key \in Key /\ key[2] = p /\ key[3] = edition
    BY <2>1, <2>2, <2>3, <1>5, KeyIsKey
  <2>. QED  BY <2>3, <2>4 DEF c
<1>10. /\ DOMAIN cache' \subseteq Key
       /\ \A k \in DOMAIN cache' : cache'[k] \in Answer /\ ValidAnswer(k[2], k[3], cache'[k])
       /\ answered' \subseteq DOMAIN cache'
  <2>1. DOMAIN cache' = DOMAIN cache \cup Written(i, a)
    BY <1>6
  <2>2. \A k \in DOMAIN cache' : cache'[k] = IF k \in Written(i, a) THEN Says(a, Writer(i, a, k))[k[2]] ELSE cache[k]
    BY <1>6
  <2>3. answered' = answered \cup Written(i, a)
    BY <1>6
  <2>. QED  BY <2>1, <2>2, <2>3, <1>9 DEF DataInv
<1>11. ASSUME NEW c \in Cand, NEW p \in Proc
       PROVE  /\ values'[c][p] \in Answer \cup {NoAnswer}
              /\ values'[c][p] # NoAnswer => ValidAnswer(p, edition, values'[c][p]) /\ p \in Needed(c, Unanswered)
  <2>1. values'[c][p] = IF c \in Taken(a) /\ p \in good(c) THEN Says(a, c)[p] ELSE values[c][p]
    BY <1>6
  <2> HIDE DEF good
  <2>2. CASE c \in Taken(a) /\ p \in good(c)
    <3>1. p \in i.procs /\ Says(a, c)[p] \in Answer /\ ValidAnswer(p, edition, Says(a, c)[p])
      BY <2>2, <1>4
    <3>2. p \in toAsk[c]
      BY <2>2, <3>1, <1>2, <1>3 DEF Share
    <3>3. p \in Needed(c, Unanswered)
      BY <3>2 DEF DataInv
    <3>. QED  BY <2>1, <2>2, <3>1, <3>3
  <2>3. CASE ~(c \in Taken(a) /\ p \in good(c))
    BY <2>1, <2>3 DEF DataInv
  <2>. QED  BY <2>2, <2>3
<1>12. values' \in [Cand -> [Proc -> Answer \cup {NoAnswer}]]
  <2>1. values' = [c \in Cand |-> [p \in Proc |-> values'[c][p]]]
    BY <1>6
  <2>. QED  BY <2>1, <1>11
<1>13. \A c : Needed(c, Unanswered)' = Needed(c, Unanswered)
  BY <1>1, SameNeeds
<1> HIDE DEF good
<1>. QED  BY <1>1, <1>7, <1>8, <1>10, <1>11, <1>12, <1>13 DEF DataInv

LEMMA DataStep == NetInv /\ DataInv /\ [Next]_vars => DataInv'
<1> SUFFICES ASSUME NetInv, DataInv, [Next]_vars
             PROVE  DataInv'
  OBVIOUS
<1>0. ASSUME UNCHANGED <<rules, edition, cache, answered, runs, reevaluate, bodies, usedCache, sawInvalid,
                         sawMissing, rows, values, toAsk>>
      PROVE  DataInv'
  BY <1>0, SameNeeds DEF DataInv
<1>1. CASE Start
  <2>1. UNCHANGED <<rules, edition, cache, answered, usedCache, sawInvalid, sawMissing, rows, values, toAsk>>
    BY <1>1 DEF Start, settings, tables, item, batches
  <2>2. runs' \in 0..MaxRuns /\ reevaluate' \in BOOLEAN /\ bodies' \subseteq Cand
    BY <1>1, EvaluateAssumption DEF Start, DataInv
  <2>. QED  BY <2>1, <2>2, SameNeeds DEF DataInv
<1>2. CASE Reconfigure
  <2>1. UNCHANGED <<rules, cache, answered, runs, reevaluate, bodies, usedCache, sawInvalid, sawMissing, rows, values, toAsk>>
        /\ phase = "idle"
    BY <1>2 DEF Reconfigure, tables, item, batches
  <2>2. \A c \in Cand, p \in Proc : values[c][p] = NoAnswer
    BY <2>1, BlankKnowsNothing DEF NetInv
  <2>. QED  BY <2>1, <2>2, SameNeeds DEF DataInv
<1>3. CASE Consult
  BY <1>3, ConsultKeepsData
<1>4. CASE NextModel
  BY <1>4, <1>0 DEF NextModel, settings, tables, item
<1>5. ASSUME NEW i \in DOMAIN net, Record(i)
      PROVE  DataInv'
  BY <1>5, RecordKeepsData
<1>6. CASE Settle
  BY <1>6, <1>0 DEF Settle, settings, tables, item, batches
<1>7. CASE Leave
  <2>1. UNCHANGED <<rules, edition, cache, answered, runs>> /\ reevaluate' = FALSE /\ bodies' = {} /\ Blank'
    BY <1>7 DEF Leave, settings, tables, Forget, Blank
  <2>2. /\ usedCache' = {} /\ sawInvalid' = {} /\ sawMissing' = {} /\ rows' \in Seq(SUBSET Item)
        /\ values' \in [Cand -> [Proc -> Answer \cup {NoAnswer}]]
        /\ \A c \in Cand, p \in Proc : values'[c][p] = NoAnswer
        /\ \A c \in Cand : toAsk'[c] = {}
    BY <2>1 DEF Blank, Unanswered
  <2>. QED  BY <2>1, <2>2 DEF DataInv
<1>8. ASSUME NEW i \in DOMAIN net, Work(i)
      PROVE  DataInv'
  <2>1. \E n : Network(i, n)
    BY <1>8, WorkContinues
  <2>. QED  BY <2>1, <1>0 DEF Network, settings, tables, item
<1>9. CASE UNCHANGED vars
  BY <1>9, <1>0 DEF vars, settings, tables, item, batches
<1>. QED  BY <1>1, <1>2, <1>3, <1>4, <1>5, <1>6, <1>7, <1>8, <1>9 DEF Next, Bookkeeping

LEMMA DataAlways == Spec => [](NetInv /\ DataInv)
<1>1. NetInv /\ DataInv /\ [Next]_vars => (NetInv /\ DataInv)'
  BY NetStep, DataStep
<1>. QED  BY NetStart, DataStart, <1>1, PTL DEF Spec

\* Rules are only ever evaluated on answers that their processors declare in this
\* configuration, whatever models and earlier runs left (_validate_answer,
\* compute_processor_hash).
THEOREM OnlyDeclaredAnswers == Spec => []AnswersAreDeclared
<1>1. DataInv => AnswersAreDeclared
  BY DEF DataInv, AnswersAreDeclared
<1>. QED  BY DataAlways, <1>1, PTL

\* No response adds an answer that was not asked for (_resolve_item).
THEOREM NothingUnasked == Spec => []OnlyWhatWasAsked
<1>1. DataInv => OnlyWhatWasAsked
  BY DEF DataInv, OnlyWhatWasAsked
<1>. QED  BY DataAlways, <1>1, PTL

\* An answer of a processor that reads the body is cached under the text of a body
\* that was at hand (_processor_input_hash).
THEOREM CachingNeedsTheBody == Spec => CachedOnItsBody
<1>1. ASSUME NetInv, DataInv, [Next]_vars, NEW k \in DOMAIN cache', k \notin DOMAIN cache, k[2] \in NeedsBody
      PROVE  \E c \in bodies : k[1] = Fp[c] /\ k[4] = Text[c]
  <2>1. cache' # cache
    BY <1>1
  <2>2. PICK i \in DOMAIN net : Record(i)
    <3>1. \A j \in DOMAIN net : Work(j) => cache' = cache
      BY <1>1, WorkContinues DEF Network, tables
    <3>. QED  BY <1>1, <2>1, <3>1 DEF Next, Bookkeeping, Start, Reconfigure, Consult, NextModel, Settle, Leave,
                                      vars, tables
  <2> DEFINE a == Current(i)
             c == Writer(i, a, k)
  <2>3. i \in Job /\ a \in Attempt /\ a.cands \subseteq Cand
    BY <1>1, <2>2, CurrentIsAttempt
  <2>4. k \in Written(i, a)
    BY <1>1, <2>2, RecordEffect
  <2>5. c \in Taken(a) /\ \E p \in Accepted(i, Says(a, c)) : HasInput(c, p) /\ k = KeyOf(c, p)
    BY <2>3, <2>4, WriterWrites
  <2>6. PICK p \in Accepted(i, Says(a, c)) : HasInput(c, p) /\ k = KeyOf(c, p)
    BY <2>5
  <2>7. c \in Cand /\ p \in Proc
    BY <2>3, <2>5, AcceptedAreValid DEF Taken
  <2>8. k[1] = Fp[c] /\ k[2] = p /\ k[4] = Input(c, p)
    BY <1>1, <2>6, <2>7, KeyIsKey DEF NetInv
  <2>9. c \in bodies /\ k[4] = Text[c]
    BY <1>1, <2>6, <2>8 DEF HasInput, Input
  <2>. QED  BY <2>8, <2>9
<1>2. NetInv /\ DataInv /\ [Next]_vars =>
         [\A k \in DOMAIN cache' \ DOMAIN cache : k[2] \in NeedsBody
             => \E c \in bodies : k[1] = Fp[c] /\ k[4] = Text[c]]_vars
  BY <1>1
<1>. QED  BY DataAlways, <1>2, PTL DEF Spec, CachedOnItsBody

\* Who is asked about has a question that was never answered (_consult_cache).
THEOREM NothingAskedTwice == Spec => AskedOnce
<1>1. ASSUME NetInv, DataInv, [Next]_vars, phase = "consult", phase' = "ask", ~reevaluate,
             NEW c \in Cand, toAsk'[c] # {}
      PROVE  \E p \in Needed(c, Unanswered) : HasInput(c, p) /\ KeyOf(c, p) \notin answered
  <2>1. Consult
    <3>1. \A j \in DOMAIN net : ~Work(j)
      BY <1>1, BlankIsQuiet DEF NetInv
    <3>. QED  BY <1>1, <3>1 DEF Next, Bookkeeping, Start, Reconfigure, NextModel, Record, Settle, Leave, vars
  <2> DEFINE Askable == {p \in Needed(c, Unanswered) : HasInput(c, p)}
             Hits == {p \in Askable : Hit(c, p) # NoAnswer}
  <2>2. Askable # Hits
    BY <1>1, <2>1 DEF Consult
  <2>3. PICK p \in Askable : Hit(c, p) = NoAnswer
    BY <2>2
  <2>4. KeyOf(c, p) \notin DOMAIN cache
    BY <1>1, <2>3, EvaluateAssumption DEF Hit, DataInv
  <2>. QED  BY <1>1, <2>3, <2>4 DEF DataInv
<1>2. NetInv /\ DataInv /\ [Next]_vars =>
         [phase = "consult" /\ phase' = "ask" /\ ~reevaluate =>
             \A c \in Cand : toAsk'[c] # {} =>
                \E p \in Needed(c, Unanswered) : HasInput(c, p) /\ KeyOf(c, p) \notin answered]_vars
  BY <1>1
<1>. QED  BY DataAlways, <1>2, PTL DEF Spec, AskedOnce
----------------------------------------------------------------------------
(* The order of the audit rows, and what is told of failures.              *)

\* The model m has said something valid of c, or is known not to have.
Told(m, c) ==
    \/ c \in sawInvalid \cup sawMissing
    \/ \E x \in DOMAIN rows : [model |-> m, cand |-> c, valid |-> TRUE] \in rows[x]
\* The batch of c is under way, and nothing that came back about c is recorded.
Pending(m, c) ==
    /\ JobOf(m, c) \in DOMAIN net
    /\ \A k \in 1..noted[JobOf(m, c)] : c \notin net[JobOf(m, c)].got[k].cands

ResultOf(c) == [status |-> Status(c, Matches(c, values[c])),
                matches |-> Matches(c, values[c]),
                valid |-> c \notin sawInvalid \cup sawMissing]
Statuses == {"none", "matched", "no_match", "cached_no_match", "invalid_response", "no_model_response"}

\* What has been recorded of the current model comes before all that has not.
NotedFirst == \A j \in DOMAIN net, i \in Unrecorded : noted[j] > 0 => i = j \/ Before(j, i)
\* A row is of a model taken up before, and of a batch some of which is recorded.
RowsAreNoted ==
    \A x \in DOMAIN rows : \A row \in rows[x] :
        /\ row.model \notin models
        /\ \A i \in DOMAIN net : row.model = i.model /\ row.cand \in i.cands => noted[i] > 0
NobodyForgotten ==
    \A c \in Cand : \A p \in toAsk[c] :
        ModelOf[p] \in models \/ Pending(ModelOf[p], c) \/ Told(ModelOf[p], c)
ResultIsLast ==
    /\ \A c \in Cand : result[c].status \in Statuses
    /\ phase = "done" => models = {} /\ Unrecorded = {} /\ \A c \in Cand : result[c] = ResultOf(c)

AuditInv == NotedFirst /\ RowsAreNoted /\ RowsInOrder /\ NobodyForgotten /\ ResultIsLast

LEMMA AuditStart == Init => AuditInv
<1> SUFFICES ASSUME Init
             PROVE  AuditInv
  OBVIOUS
<1>1. Blank /\ phase = "idle"
  BY DEF Init
<1>2. /\ DOMAIN net = {} /\ DOMAIN rows = {} /\ \A c \in Cand : toAsk[c] = {}
      /\ \A c \in Cand : result[c].status = "none"
  BY <1>1 DEF Blank, NoResult
<1>. QED  BY <1>1, <1>2 DEF AuditInv, NotedFirst, RowsAreNoted, RowsInOrder, NobodyForgotten, ResultIsLast,
                            Unrecorded, Statuses

LEMMA SameOrder ==
    ASSUME toAsk' = toAsk
    PROVE  /\ \A i, j : Before(i, j)' = Before(i, j)
           /\ \A m, c : JobOf(m, c)' = JobOf(m, c)
BY DEF Before, Leads, Group, Share, JobOf, BatchNo

LEMMA SameResult ==
    ASSUME UNCHANGED <<rules, values, usedCache, sawInvalid, sawMissing>>
    PROVE  \A c : ResultOf(c)' = ResultOf(c)
BY DEF ResultOf, Status, Matches, Of

\* When nothing is left to record, nobody's batch is pending.
LEMMA NothingPending ==
    ASSUME NetInv, Unrecorded = {}, NEW m, NEW c \in Cand
    PROVE  ~Pending(m, c)
<1> SUFFICES ASSUME Pending(m, c)
             PROVE  FALSE
  OBVIOUS
<1> DEFINE i == JobOf(m, c)
           n == net[i]
<1>1. i \in DOMAIN net /\ \A k \in 1..noted[i] : c \notin n.got[k].cands
  BY DEF Pending
<1>2. c \in i.cands
  BY JobOfMember
<1> HIDE DEF i
<1>3. i \in Job /\ n \in NetState /\ OnTrack(i, n) /\ noted[i] <= Len(n.got) /\ noted[i] \in Nat
  BY <1>1, JobsAreJobs DEF NetInv
<1>4. n.at = "done" /\ ~(noted[i] < Len(n.got))
  BY <1>1 DEF Unrecorded
<1>5. noted[i] = Len(n.got)
  BY <1>3, <1>4 DEF NetState
<1>6. n.parts = <<>>
  BY <1>3, <1>4 DEF OnTrack
<1>7. \/ Len(n.got) = 1 /\ n.got[1].cands = i.cands
      \/ Len(n.got) = 2 /\ n.got[1].cands = Halves(i.cands)[1] /\ n.got[2].cands = Halves(i.cands)[2]
  <2>1. Halves(i.cands) # <<>>
    BY DEF Halves
  <2>. QED  BY <1>3, <1>6, <2>1 DEF OnTrack, Split
<1>8. c \in Halves(i.cands)[1] \cup Halves(i.cands)[2]
  BY <1>2, <1>3, HalvesMakeUp DEF Job
<1>. QED  BY <1>1, <1>2, <1>5, <1>7, <1>8

LEMMA NextModelKeepsAudit ==
    ASSUME NetInv, DataInv, AuditInv, NextModel
    PROVE  AuditInv'
<1>1. UNCHANGED <<rules, phase, toAsk, rows, result, sawInvalid, sawMissing>> /\ phase = "ask" /\ Unrecorded = {}
  BY DEF NextModel, settings, item
<1>2. PICK m \in models : /\ models' = models \ {m}
                          /\ net' = [i \in JobsOf(m) |-> Waiting(i)]
                          /\ noted' = [i \in JobsOf(m) |-> 0]
  BY DEF NextModel
<1>3. m \in Model /\ toAsk \in [Cand -> SUBSET Proc]
  BY DEF NetInv
<1>4. \A i \in JobsOf(m) : i.model = m
  BY <1>3, JobsAreJobs
<1>5. NotedFirst'
  BY <1>2 DEF NotedFirst, Unrecorded
<1>6. ASSUME NEW x \in DOMAIN rows, NEW row \in rows[x]
      PROVE  row.model \notin models
  BY DEF AuditInv, RowsAreNoted
<1>7. RowsAreNoted'
  BY <1>1, <1>2, <1>4, <1>6 DEF RowsAreNoted
<1>8. RowsInOrder'
  BY <1>1, <1>2, <1>4, <1>6 DEF RowsInOrder, From
<1>9. NobodyForgotten'
  <2> SUFFICES ASSUME NEW c \in Cand, NEW p \in toAsk[c]
               PROVE  ModelOf[p] \in models' \/ Pending(ModelOf[p], c)' \/ Told(ModelOf[p], c)'
    BY <1>1 DEF NobodyForgotten
  <2>1. ModelOf[p] \in models \/ Told(ModelOf[p], c)
    BY <1>1, NothingPending DEF AuditInv, NobodyForgotten
  <2>2. CASE ModelOf[p] = m
    <3>1. JobOf(m, c) \in JobsOf(m)
      BY <2>2 DEF JobsOf, Share
    <3>2. JobOf(m, c)' = JobOf(m, c)
      BY <1>1, SameOrder
    <3>. QED  BY <1>2, <2>2, <3>1, <3>2 DEF Pending
  <2>3. CASE ModelOf[p] \in models \ {m}
    BY <2>3, <1>2
  <2>4. CASE Told(ModelOf[p], c)
    BY <2>4, <1>1 DEF Told
  <2>. QED  BY <2>1, <2>2, <2>3, <2>4
<1>10. ResultIsLast'
  BY <1>1 DEF AuditInv, ResultIsLast
<1>. QED  BY <1>5, <1>7, <1>8, <1>9, <1>10 DEF AuditInv

LEMMA RecordKeepsAudit ==
    ASSUME NetInv, DataInv, AuditInv, NEW i \in DOMAIN net, Record(i)
    PROVE  AuditInv'
<1> DEFINE a == Current(i)
<1>1. /\ UNCHANGED <<rules, phase, toAsk, models, net, result>> /\ phase = "ask"
      /\ noted' = [noted EXCEPT ![i] = @ + 1]
      /\ i \in Unrecorded /\ \A j \in Unrecorded \ {i} : Before(i, j)
  BY DEF Record, settings, IsNext
<1>2. /\ i \in Job /\ a.cands \subseteq i.cands /\ i.cands \subseteq Cand
      /\ \A c \in i.cands : i = JobOf(i.model, c)
  BY CurrentIsAttempt
<1>3. i.model \notin models /\ noted \in [DOMAIN net -> Nat]
  BY DEF NetInv
<1>4. /\ DOMAIN noted' = DOMAIN net
      /\ \A j \in DOMAIN net : noted[j] \in Nat /\ noted'[j] = IF j = i THEN noted[j] + 1 ELSE noted[j]
  BY <1>1, <1>3
<1>5. /\ rows \in Seq(SUBSET Item) /\ rows' = Append(rows, RowsOf(i, a))
      /\ sawInvalid' = sawInvalid \cup (IF a.out = Failed THEN a.cands ELSE Unparsed(a))
      /\ sawMissing' = sawMissing \cup (IF a.out = Failed THEN {} ELSE Overlooked(a))
  BY RecordEffect DEF DataInv
<1>6. /\ DOMAIN rows' = DOMAIN rows \cup {Len(rows) + 1} /\ Len(rows) \in Nat
      /\ \A x \in DOMAIN rows : rows'[x] = rows[x] /\ x \in Nat /\ x <= Len(rows)
      /\ rows'[Len(rows) + 1] = RowsOf(i, a)
  BY <1>5
<1>7. \A row \in RowsOf(i, a) : row.model = i.model /\ row.cand \in i.cands
  BY <1>2 DEF RowsOf, Row, Taken, Unparsed
<1>8. \A j \in DOMAIN net : \A c \in i.cands : j.model = i.model /\ c \in j.cands => j = i
  <2> SUFFICES ASSUME NEW j \in DOMAIN net, NEW c \in i.cands, j.model = i.model, c \in j.cands
               PROVE  j = i
    OBVIOUS
  <2>1. j = JobOf(j.model, c)
    BY JobsAreJobs DEF NetInv
  <2>. QED  BY <2>1, <1>2
<1> HIDE DEF a
<1>9. NotedFirst'
  <2> SUFFICES ASSUME NEW j \in DOMAIN net, NEW l \in Unrecorded', noted'[j] > 0
               PROVE  l = j \/ Before(j, l)
    BY <1>1, SameOrder DEF NotedFirst
  <2>1. l \in Unrecorded
    <3>1. l \in DOMAIN net /\ (net[l].at # "done" \/ noted'[l] < Len(net[l].got))
      BY <1>1 DEF Unrecorded
    <3>2. Len(net[l].got) \in Nat
      BY <3>1 DEF NetInv, NetState
    <3>. QED  BY <3>1, <3>2, <1>4 DEF Unrecorded
  <2>2. CASE j = i
    BY <2>1, <2>2, <1>1
  <2>3. CASE j # i
    BY <2>1, <2>3, <1>4 DEF AuditInv, NotedFirst
  <2>. QED  BY <2>2, <2>3
<1>10. RowsAreNoted'
  <2> SUFFICES ASSUME NEW x \in DOMAIN rows', NEW row \in rows'[x]
               PROVE  /\ row.model \notin models
                      /\ \A j \in DOMAIN net : row.model = j.model /\ row.cand \in j.cands => noted'[j] > 0
    BY <1>1 DEF RowsAreNoted
  <2>1. CASE x \in DOMAIN rows
    BY <2>1, <1>4, <1>6 DEF AuditInv, RowsAreNoted
  <2>2. CASE x = Len(rows) + 1
    BY <2>2, <1>3, <1>4, <1>6, <1>7, <1>8
  <2>. QED  BY <2>1, <2>2, <1>6
<1>11. RowsInOrder'
  <2> SUFFICES ASSUME NEW x \in DOMAIN rows', NEW y \in DOMAIN rows', NEW j \in DOMAIN net, NEW l \in DOMAIN net,
                      x < y, From(x, j)', From(y, l)'
               PROVE  j = l \/ Before(j, l)
    BY <1>1, SameOrder DEF RowsInOrder
  <2>1. x \in DOMAIN rows
    BY <1>6
  <2>2. From(x, j)
    BY <2>1, <1>6 DEF From
  <2>3. CASE y \in DOMAIN rows
    <3>1. From(y, l)
      BY <2>3, <1>6 DEF From
    <3>. QED  BY <2>1, <2>2, <2>3, <3>1 DEF AuditInv, RowsInOrder
  <2>4. CASE y = Len(rows) + 1
    <3>1. l = i
      BY <2>4, <1>6, <1>7, <1>8 DEF From
    <3>2. noted[j] > 0
      BY <2>1, <2>2 DEF From, AuditInv, RowsAreNoted
    <3>. QED  BY <3>1, <3>2, <1>1 DEF AuditInv, NotedFirst
  <2>. QED  BY <2>3, <2>4, <1>6
<1>12. NobodyForgotten'
  <2> SUFFICES ASSUME NEW c \in Cand, NEW p \in toAsk[c]
               PROVE  ModelOf[p] \in models \/ Pending(ModelOf[p], c)' \/ Told(ModelOf[p], c)'
    BY <1>1 DEF NobodyForgotten
  <2> DEFINE m == ModelOf[p]
             j == JobOf(m, c)
  <2>0. j' = j
    BY <1>1, SameOrder
  <2>1. CASE Told(m, c)
    BY <2>1, <1>5, <1>6 DEF Told
  <2>2. CASE Pending(m, c) /\ ~(j = i /\ c \in a.cands)
    <3>1. j \in DOMAIN net /\ \A k \in 1..noted[j] : c \notin net[j].got[k].cands
      BY <2>2 DEF Pending
    <3>2. \A k \in 1..noted'[j] : c \notin net[j].got[k].cands
      <4> HIDE DEF j
      <4>1. CASE j = i
        <5>1. \A k \in 1..noted'[j] : k \in 1..noted[j] \/ k = noted[j] + 1
          BY <3>1, <4>1, <1>4
        <5>. QED  BY <3>1, <4>1, <5>1, <2>2 DEF a, Current
      <4>2. CASE j # i
        BY <3>1, <4>2, <1>4
      <4>. QED  BY <4>1, <4>2
    <3>. QED  BY <2>0, <3>1, <3>2, <1>1 DEF Pending
  <2>3. CASE j = i /\ c \in a.cands
    <3>1. m = i.model
      BY <2>3 DEF JobOf
    <3>2. c \in Taken(a) \/ c \in Unparsed(a) \/ c \in Overlooked(a)
      BY <2>3 DEF Overlooked
    <3>3. CASE a.out = Failed \/ c \in Unparsed(a) \/ c \in Overlooked(a)
      BY <2>3, <3>3, <1>5 DEF Told
    <3>4. CASE a.out # Failed /\ c \in Taken(a)
      <4>1. Row(i, c, TRUE) \in RowsOf(i, a)
        BY <3>4 DEF RowsOf
      <4>. QED  BY <3>1, <4>1, <1>6 DEF Told, Row
    <3>. QED  BY <3>2, <3>3, <3>4
  <2>. QED  BY <2>1, <2>2, <2>3 DEF AuditInv, NobodyForgotten
<1>13. ResultIsLast'
  BY <1>1 DEF AuditInv, ResultIsLast
<1>. QED  BY <1>9, <1>10, <1>11, <1>12, <1>13 DEF AuditInv

LEMMA WorkKeepsAudit ==
    ASSUME NetInv, DataInv, AuditInv, NEW i \in DOMAIN net, Work(i)
    PROVE  AuditInv'
<1>1. PICK n : Continues(i, net[i], n) /\ Network(i, n) /\ net[i].at # "done"
  BY WorkContinues
<1>2. /\ UNCHANGED <<rules, phase, toAsk, models, noted, rows, result, values, usedCache, sawInvalid, sawMissing>>
      /\ net' = [net EXCEPT ![i] = n]
  BY <1>1 DEF Network, settings, item
<1>3. DOMAIN net' = DOMAIN net /\ \A j \in DOMAIN net : net'[j] = IF j = i THEN n ELSE net[j]
  BY <1>2
<1>4. i \in Unrecorded
  BY <1>1 DEF Unrecorded
<1>5. Unrecorded' \subseteq Unrecorded
  BY <1>2, <1>3, <1>4 DEF Unrecorded
<1>6. NotedFirst'
  BY <1>2, <1>3, <1>5, SameOrder DEF AuditInv, NotedFirst
<1>7. RowsAreNoted'
  BY <1>2, <1>3 DEF AuditInv, RowsAreNoted
<1>8. RowsInOrder'
  BY <1>2, <1>3, SameOrder DEF AuditInv, RowsInOrder, From
<1>9. NobodyForgotten'
  <2> SUFFICES ASSUME NEW c \in Cand, NEW p \in toAsk[c]
               PROVE  ModelOf[p] \in models \/ Pending(ModelOf[p], c)' \/ Told(ModelOf[p], c)'
    BY <1>2 DEF NobodyForgotten
  <2>1. CASE Told(ModelOf[p], c)
    BY <2>1, <1>2 DEF Told
  <2>2. CASE Pending(ModelOf[p], c)
    <3> DEFINE j == JobOf(ModelOf[p], c)
    <3>0. j' = j
      BY <1>2, SameOrder
    <3>1. j \in DOMAIN net /\ \A k \in 1..noted[j] : c \notin net[j].got[k].cands
      BY <2>2 DEF Pending
    <3>2. noted[i] <= Len(net[i].got) /\ noted[i] \in Nat /\ Len(net[i].got) \in Nat
      BY DEF NetInv, NetState
    <3>3. \A k \in 1..noted[j] : net'[j].got[k] = net[j].got[k]
      <4> HIDE DEF j
      <4>. QED  BY <1>1, <1>3, <3>1, <3>2 DEF Continues
    <3>. QED  BY <1>2, <1>3, <3>0, <3>1, <3>3 DEF Pending
  <2>. QED  BY <2>1, <2>2 DEF AuditInv, NobodyForgotten
<1>10. ResultIsLast'
  BY <1>2, <1>4 DEF AuditInv, ResultIsLast
<1>. QED  BY <1>6, <1>7, <1>8, <1>9, <1>10 DEF AuditInv

LEMMA AuditStep == NetInv /\ DataInv /\ AuditInv /\ [Next]_vars => AuditInv'
<1> SUFFICES ASSUME NetInv, DataInv, AuditInv, [Next]_vars
             PROVE  AuditInv'
  OBVIOUS
<1>0. ASSUME UNCHANGED <<toAsk, models, net, noted, rows, sawInvalid, sawMissing>>, ResultIsLast'
      PROVE  AuditInv'
  <2>1. Unrecorded' = Unrecorded
    BY <1>0 DEF Unrecorded
  <2>2. NotedFirst' /\ RowsAreNoted' /\ RowsInOrder'
    BY <1>0, <2>1, SameOrder DEF AuditInv, NotedFirst, RowsAreNoted, RowsInOrder, From
  <2>3. NobodyForgotten'
    BY <1>0, SameOrder DEF AuditInv, NobodyForgotten, Pending, Told
  <2>. QED  BY <1>0, <2>2, <2>3 DEF AuditInv
<1>1. CASE Start
  <2>1. UNCHANGED <<toAsk, models, net, noted, rows, sawInvalid, sawMissing, result>> /\ phase' = "consult"
    BY <1>1 DEF Start, item, batches
  <2>. QED  BY <2>1, <1>0 DEF AuditInv, ResultIsLast
<1>2. CASE Reconfigure
  <2>1. UNCHANGED <<toAsk, models, net, noted, rows, sawInvalid, sawMissing, result, phase>> /\ phase = "idle"
    BY <1>2 DEF Reconfigure, item, batches
  <2>. QED  BY <2>1, <1>0 DEF AuditInv, ResultIsLast
<1>3. CASE Consult
  <2>1. /\ UNCHANGED <<net, noted, rows, result, sawInvalid, sawMissing>> /\ phase = "consult" /\ phase' = "ask"
        /\ models' = {ModelOf[p] : p \in UNION {toAsk'[c] : c \in Cand}}
    BY <1>3 DEF Consult
  <2>2. DOMAIN net = {} /\ DOMAIN rows = {}
    BY <2>1 DEF NetInv, Blank
  <2>3. NotedFirst' /\ RowsAreNoted' /\ RowsInOrder'
    BY <2>1, <2>2 DEF NotedFirst, RowsAreNoted, RowsInOrder
  <2>4. NobodyForgotten'
    BY <2>1 DEF NobodyForgotten
  <2>5. ResultIsLast'
    BY <2>1 DEF AuditInv, ResultIsLast
  <2>. QED  BY <2>3, <2>4, <2>5 DEF AuditInv
<1>4. CASE NextModel
  BY <1>4, NextModelKeepsAudit
<1>5. ASSUME NEW i \in DOMAIN net, Record(i)
      PROVE  AuditInv'
  BY <1>5, RecordKeepsAudit
<1>6. CASE Settle
  <2>1. /\ UNCHANGED <<rules, values, usedCache, toAsk, models, net, noted, rows, sawInvalid, sawMissing>>
        /\ models = {} /\ Unrecorded = {}
        /\ result' = [c \in Cand |-> ResultOf(c)]
    BY <1>6 DEF Settle, settings, item, batches, ResultOf
  <2>2. \A c : ResultOf(c)' = ResultOf(c)
    BY <2>1, SameResult
  <2>3. \A c \in Cand : ResultOf(c).status \in Statuses
    BY DEF ResultOf, Status, Statuses
  <2>4. Unrecorded' = {} /\ models' = {}
    BY <2>1 DEF Unrecorded
  <2>5. \A c \in Cand : result'[c] = ResultOf(c)
    BY <2>1
  <2>. QED  BY <2>1, <2>2, <2>3, <2>4, <2>5, <1>0 DEF ResultIsLast
<1>7. CASE Leave
  <2>1. Blank' /\ phase' = "idle"
    BY <1>7 DEF Leave, Forget, Blank
  <2>2. /\ DOMAIN net' = {} /\ DOMAIN rows' = {} /\ \A c \in Cand : toAsk'[c] = {}
        /\ \A c \in Cand : result'[c].status = "none"
    BY <2>1 DEF Blank, NoResult
  <2>. QED  BY <2>1, <2>2 DEF AuditInv, NotedFirst, RowsAreNoted, RowsInOrder, NobodyForgotten, ResultIsLast,
                              Unrecorded, Statuses
<1>8. ASSUME NEW i \in DOMAIN net, Work(i)
      PROVE  AuditInv'
  BY <1>8, WorkKeepsAudit
<1>9. CASE UNCHANGED vars
  <2>1. UNCHANGED <<rules, values, usedCache, toAsk, models, net, noted, rows, sawInvalid, sawMissing, result, phase>>
    BY <1>9 DEF vars, settings, item, batches
  <2>2. Unrecorded' = Unrecorded /\ \A c : ResultOf(c)' = ResultOf(c)
    BY <2>1, SameResult DEF Unrecorded
  <2>. QED  BY <2>1, <2>2, <1>0 DEF AuditInv, ResultIsLast
<1>. QED  BY <1>1, <1>2, <1>3, <1>4, <1>5, <1>6, <1>7, <1>8, <1>9 DEF Next, Bookkeeping

LEMMA AuditAlways == Spec => [](NetInv /\ DataInv /\ AuditInv)
<1>1. NetInv /\ DataInv /\ AuditInv /\ [Next]_vars => (NetInv /\ DataInv /\ AuditInv)'
  BY NetStep, DataStep, AuditStep
<1>. QED  BY NetStart, DataStart, AuditStart, <1>1, PTL DEF Spec

\* The audit rows of a model are in submission order, in whatever order the answers
\* came in and however many threads asked (_classify_all).
THEOREM RowsComeInOrder == Spec => []RowsInOrder
<1>1. AuditInv => RowsInOrder
  BY DEF AuditInv
<1>. QED  BY AuditAlways, <1>1, PTL

\* A candidate that a model was asked about and said nothing valid of does not count
\* as judged (_record_attempt, _finalize).
THEOREM FailuresAreTold == Spec => []FailureIsTold
<1>1. ASSUME NetInv, AuditInv
      PROVE  FailureIsTold
  <2> SUFFICES ASSUME phase = "done", NEW c \in Cand, NEW p \in toAsk[c],
                      ~(\E x \in DOMAIN rows : [model |-> ModelOf[p], cand |-> c, valid |-> TRUE] \in rows[x])
               PROVE  ~result[c].valid /\ result[c].status \notin {"no_match", "cached_no_match"}
    BY DEF FailureIsTold
  <2>1. models = {} /\ Unrecorded = {} /\ result[c] = ResultOf(c)
    BY <1>1 DEF AuditInv, ResultIsLast
  <2>2. Told(ModelOf[p], c)
    BY <1>1, <2>1, NothingPending DEF AuditInv, NobodyForgotten
  <2>3. c \in sawInvalid \cup sawMissing
    BY <2>2 DEF Told
  <2>4. ~ResultOf(c).valid
    <3>1. ResultOf(c).valid = (c \notin sawInvalid \cup sawMissing)
      BY Zenon DEF ResultOf
    <3>. QED  BY <2>3, <3>1
  <2>5. ResultOf(c).status \notin {"no_match", "cached_no_match"}
    <3>1. ResultOf(c).status = Status(c, Matches(c, values[c]))
      BY Zenon DEF ResultOf
    <3>2. \A M : Status(c, M) \notin {"no_match", "cached_no_match"}
      BY <2>3 DEF Status
    <3>. QED  BY <3>1, <3>2
  <2>. QED  BY <2>1, <2>4, <2>5
<1>. QED  BY AuditAlways, <1>1, PTL

\* A rule that is said to match, matches whatever the processors that gave no answer
\* would have said (rules.evaluate).
THEOREM MatchesAreCertain == Spec => []MatchIsCertain
<1>1. ASSUME NetInv, AuditInv
      PROVE  MatchIsCertain
  <2> SUFFICES ASSUME phase = "done", NEW c \in Cand, NEW i \in result[c].matches,
                      NEW more \in [Proc -> {NoAnswer} \cup [value : Name \cup Probability, confidence : Probability]]
               PROVE  LET full == [p \in Proc |-> IF values[c][p] = NoAnswer THEN more[p] ELSE values[c][p]]
                      IN  Verdict(rules[i].when, Facts[c], full) = "TRUE"
    BY DEF MatchIsCertain
  <2>1. result[c].matches = Matches(c, values[c])
    <3>1. result[c] = ResultOf(c)
      BY <1>1 DEF AuditInv, ResultIsLast
    <3>2. ResultOf(c).matches = Matches(c, values[c])
      BY Zenon DEF ResultOf
    <3>. QED  BY <3>1, <3>2
  <2> DEFINE full == [p \in Proc |-> IF values[c][p] = NoAnswer THEN more[p] ELSE values[c][p]]
  <2>2. i \in DOMAIN rules /\ Verdict(rules[i].when, Facts[c], values[c]) = "TRUE"
    BY <2>1 DEF Matches, Of
  <2>3. Extends(full, values[c])
    BY DEF Extends
  <2>4. Known(Leaves(rules[i].when))
    BY <1>1, <2>2, AllowedIsKnown DEF NetInv
  <2>5. Refines(Verdict(rules[i].when, Facts[c], full), Verdict(rules[i].when, Facts[c], values[c]))
    BY <2>3, <2>4, VerdictRefines
  <2>. QED  BY <2>2, <2>5 DEF Refines
<1>. QED  BY AuditAlways, <1>1, PTL

\* No condition of an accepted configuration is idle (_validate_processor_atom).
THEOREM NoConditionIsIdle == Spec => []NoIdleCondition
<1>1. ASSUME NetInv
      PROVE  NoIdleCondition
  <2> SUFFICES ASSUME NEW i \in DOMAIN rules, NEW atom \in ProcessorAtoms(rules[i].when)
               PROVE  LET V == {ProcessorVerdict(atom, [p \in Proc |-> a]) :
                                  a \in {b \in [value : Name \cup Probability,
                                                confidence : IF atom.name \in Noul THEN {NoAnswer} ELSE Probability] :
                                           ValidAnswer(atom.name, edition, b)}}
                      IN  /\ "UNKNOWN" \notin V
                          /\ atom.field = "value" /\ atom.cmp = "==" /\ atom.operand \in Name => "TRUE" \in V
    BY DEF NoIdleCondition
  <2> DEFINE A == [value : Name \cup Probability,
                   confidence : IF atom.name \in Noul THEN {NoAnswer} ELSE Probability]
             same(b) == [p \in Proc |-> b]
  <2>1. ProcessorAtomAllowed(atom, Criteria[edition])
    BY <1>1 DEF NetInv, Allowed, RuleAllowed
  <2>2. ASSUME NEW b \in A
        PROVE  ProcessorVerdict(atom, same(b)) = IF Compare(atom.cmp, b[atom.field], atom.operand) THEN "TRUE" ELSE "FALSE"
    <3>1. same(b)[atom.name] = b
      BY <2>1 DEF ProcessorAtomAllowed
    <3>2. b \in Answer
      BY DEF Answer, Probability
    <3>3. b # NoAnswer
      BY <3>2, EvaluateAssumption
    <3>4. b[atom.field] # NoAnswer
      <4>1. CASE atom.field = "value"
        <5>1. b[atom.field] \in Name \cup Probability
          BY <4>1
        <5>. QED  BY <5>1, RulesAssumption DEF Probability
      <4>2. CASE atom.field = "confidence"
        <5>1. b[atom.field] \in Probability
          BY <4>2, <2>1 DEF ProcessorAtomAllowed
        <5>. QED  BY <5>1, RulesAssumption DEF Probability
      <4>. QED  BY <4>1, <4>2, <2>1 DEF ProcessorAtomAllowed
    <3> HIDE DEF same
    <3>. QED  BY <3>1, <3>3, <3>4 DEF ProcessorVerdict
  <2>3. ASSUME atom.field = "value", atom.cmp = "==", atom.operand \in Name
        PROVE  \E b \in A : ValidAnswer(atom.name, edition, b) /\ ProcessorVerdict(atom, same(b)) = "TRUE"
    <3> DEFINE b == [value |-> atom.operand, confidence |-> 0]
    <3>1. atom.name \notin Noul /\ atom.operand \in Criteria[edition][atom.name]
      BY <2>1, <2>3 DEF ProcessorAtomAllowed
    <3>2. b \in A
      BY <2>3, <3>1 DEF Probability
    <3>3. ValidAnswer(atom.name, edition, b)
      BY <3>1 DEF ValidAnswer, Probability
    <3>4. Compare(atom.cmp, b[atom.field], atom.operand)
      BY <2>3 DEF Compare
    <3>. QED  BY <2>2, <3>2, <3>3, <3>4
  <2>. QED  BY <2>2, <2>3
<1>. QED  BY DataAlways, <1>1, PTL

\* The variables have their types; batches are neither empty nor too long, and the
\* retries and the levels of every call stay within their bounds.
THEOREM Typed == Spec => []TypeOK
<1>1. ASSUME NetInv, DataInv, AuditInv
      PROVE  TypeOK
  <2>1. \A i \in DOMAIN net : /\ Cardinality(i.cands) \in 1..BatchSize[i.model]
                              /\ net[i].level \in 1..Ladder[i.model]
                              /\ net[i].tried \in 0..(Tries[i.model] - 1)
    BY <1>1, JobsAreJobs DEF NetInv, OnTrack
  <2>2. noted \in [DOMAIN net -> 0..2]
    <3> SUFFICES ASSUME NEW i \in DOMAIN net
                 PROVE  noted[i] \in 0..2
      BY <1>1 DEF NetInv
    <3>1. Split(i, net[i]) /\ noted[i] <= Len(net[i].got) /\ noted[i] \in Nat
      BY <1>1 DEF NetInv, OnTrack
    <3>2. net[i].got = <<>> \/ Len(net[i].got) = 1 \/ Len(net[i].got) = 2
      BY <3>1, Zenon DEF Split
    <3>3. Len(net[i].got) \in {0, 1, 2}
      BY <3>2
    <3> DEFINE n == noted[i]
               l == Len(net[i].got)
    <3>4. n \in Nat /\ n <= l /\ l \in {0, 1, 2}
      BY <3>1, <3>3
    <3> HIDE DEF n, l
    <3>5. n \in 0..2
      BY <3>4
    <3>. QED  BY <3>5 DEF n
  <2>3. \A k \in DOMAIN cache : k \in Key /\ cache[k] \in Answer
    BY <1>1 DEF DataInv
  <2>4. \A c \in Cand, p \in Proc : values[c][p] = NoAnswer \/ values[c][p] \in Answer
    BY <1>1 DEF DataInv
  <2>5. /\ answered \subseteq Key /\ runs \in 0..MaxRuns /\ reevaluate \in BOOLEAN /\ bodies \subseteq Cand
        /\ usedCache \subseteq Cand /\ sawInvalid \subseteq Cand /\ sawMissing \subseteq Cand
        /\ rows \in Seq(SUBSET Item)
    BY <1>1 DEF DataInv
  <2>6. \A c \in Cand : result[c].status \in Statuses
    BY <1>1 DEF AuditInv, ResultIsLast
  <2>. QED  BY <1>1, <2>1, <2>2, <2>3, <2>4, <2>5, <2>6 DEF TypeOK, NetInv, Statuses
<1>. QED  BY AuditAlways, <1>1, PTL
=============================================================================
