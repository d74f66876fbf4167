------------------------------ MODULE Evaluate ------------------------------
(***************************************************************************)
(* The evaluate phase (evaluate.py) of the runs of a task: the rules over   *)
(* three-valued logic, the decision cache, the batches asked of each model  *)
(* with their retries (the adapters under classifier/), the validation of   *)
(* what a model answers, and the verdict on each candidate.                 *)
(*                                                                         *)
(* Worker threads do the network half of each batch; the thread that owns   *)
(* the database records the answers.  Models may answer anything in         *)
(* Response or nothing, a run may be killed at any step, and between two    *)
(* runs the configuration may be edited.  The cache outlives a run.         *)
(***************************************************************************)
EXTENDS Rules

CONSTANTS
    Cand,        \* the eligible candidates
    Place,       \* where each comes in their order
    Fp, Facts, Text,  \* per candidate: fingerprint, true atoms, body text
    Model, ModelOf,
    NeedsBody,   \* the processors whose fields include a part of the body
    Edition, Criteria,  \* per edition of the configuration, the vocabularies
    Rulebook,    \* the rule lists somebody may write
    Provider,    \* per model: openai, anthropic or systemone
    Ladder,      \* per model, the structured-output levels to try: how many
    Tries,       \* per model, max_retries + 1
    BatchSize, MaxConcurrent,
    Response,    \* what a model may answer: items [id, answers] in order
    Malformed,   \* the answers of an item that cannot be parsed
    Meta,        \* the input of a processor that sees no body
    MaxRuns      \* bound on the runs

\* The numbers stand for the values and confidences a model may give at all.
Answer == [value : Name \cup 0..9, confidence : 0..9 \cup {NoAnswer}]

ASSUME EvaluateAssumption ==
    /\ IsFiniteSet(Cand)
    /\ Place \in [Cand -> Nat] /\ \A c, d \in Cand : Place[c] = Place[d] => c = d
    /\ Facts \in [Cand -> SUBSET Fact]
    /\ ModelOf \in [Proc -> Model]
    /\ NeedsBody \subseteq Proc
    /\ \A m \in Model : /\ Provider[m] \in {"openai", "anthropic", "systemone"}
                        /\ {Ladder[m], Tries[m], BatchSize[m], MaxConcurrent[m]} \subseteq Nat \ {0}
                        /\ Provider[m] = "systemone" => BatchSize[m] = 1 /\ Ladder[m] = 1
    /\ \A r \in Response : \A k \in DOMAIN r :
          /\ k \in Nat /\ r[k].id \in Nat
          /\ r[k].answers # Malformed =>
                /\ DOMAIN r[k].answers \subseteq Proc
                /\ \A p \in DOMAIN r[k].answers : r[k].answers[p] \in Answer
    /\ Meta \notin {Text[c] : c \in Cand}
    /\ NoAnswer \notin Answer
    /\ MaxRuns \in Nat

VARIABLES
    rules, edition,
    cache,      \* processor_decision_cache: the answer per key that has a row
    answered,   \* of classifications: the keys a valid answer has been recorded for
    runs, phase, reevaluate,
    bodies,     \* the candidates whose body was fetched for this run
    values,     \* processor_values
    usedCache, sawInvalid, sawMissing,
    toAsk,      \* per candidate, the processors to ask
    models,     \* the models not asked yet
    net,        \* per batch of the current model, the network half of it
    noted,      \* per batch, how many of its attempts have been recorded
    rows,       \* of classifications: the rows of this run, a set for each transaction
    result

tables == <<cache, answered>>
settings == <<rules, edition>>
item == <<values, usedCache, sawInvalid, sawMissing>>
batches == <<toAsk, models, net, noted>>
vars == <<settings, tables, runs, phase, reevaluate, bodies, item, batches, rows, result>>

Input(c, p) == IF p \in NeedsBody THEN Text[c] ELSE Meta
Key == {Fp[c] : c \in Cand} \X Proc \X Edition \X ({Text[c] : c \in Cand} \cup {Meta})
KeyOf(c, p) == <<Fp[c], p, edition, Input(c, p)>>

\* _validate_answer: the answer is one that the processor declares.
ValidAnswer(p, e, a) ==
    /\ a.confidence \in Probability \cup {NoAnswer}
    /\ a.value \in (IF p \in Noul THEN Probability ELSE Criteria[e][p])

Unanswered == [p \in Proc |-> NoAnswer]
\* _evaluate_rules
Of(c, v) == [i \in DOMAIN rules |-> Verdict(rules[i].when, Facts[c], v)]
Matches(c, v) == {i \in DOMAIN rules : Of(c, v)[i] = "TRUE"}
Needed(c, v) == UNION {ProcessorNames(rules[i].when) : i \in {j \in DOMAIN rules : Of(c, v)[j] = "UNKNOWN"}}

NoResult == [status |-> "none", matches |-> {}, valid |-> TRUE]
Blank ==
    /\ values = [c \in Cand |-> Unanswered]
    /\ usedCache = {}
    /\ sawInvalid = {}
    /\ sawMissing = {}
    /\ toAsk = [c \in Cand |-> {}]
    /\ models = {}
    /\ net = <<>>
    /\ noted = <<>>
    /\ rows = <<>>
    /\ result = [c \in Cand |-> NoResult]

\* What a run holds in memory.
Forget ==
    /\ values' = [c \in Cand |-> Unanswered]
    /\ usedCache' = {}
    /\ sawInvalid' = {}
    /\ sawMissing' = {}
    /\ toAsk' = [c \in Cand |-> {}]
    /\ models' = {}
    /\ net' = <<>>
    /\ noted' = <<>>
    /\ rows' = <<>>
    /\ result' = [c \in Cand |-> NoResult]

Allowed(R, e) == \A i \in DOMAIN R : RuleAllowed(R[i], Criteria[e])
\* The configuration loads: Config._cross_reference and _validate_actions.
Init ==
    /\ edition \in Edition
    /\ rules \in {R \in Rulebook : Allowed(R, edition)}
    /\ cache = <<>>
    /\ answered = {}
    /\ runs = 0
    /\ phase = "idle"
    /\ reevaluate = FALSE
    /\ bodies = {}
    /\ Blank

\* Between two runs the vocabularies are edited.
Reconfigure ==
    /\ phase = "idle"
    /\ \E e \in Edition \ {edition} : Allowed(rules, e) /\ edition' = e
    /\ UNCHANGED <<rules, tables, runs, phase, reevaluate, bodies, item, batches, rows, result>>
----------------------------------------------------------------------------
(* Passes 1 and 2.                                                         *)

\* The bodies wanted are fetched before (_fetch_body_texts); any may fail.
Start ==
    /\ phase = "idle"
    /\ runs < MaxRuns
    /\ runs' = runs + 1
    /\ phase' = "consult"
    /\ reevaluate' \in BOOLEAN
    /\ bodies' \in SUBSET {c \in Cand : Needed(c, Unanswered) \cap NeedsBody # {}}
    /\ UNCHANGED <<settings, tables, item, batches, rows, result>>

\* _processor_input_hash is not None: the fields of p are at hand.
HasInput(c, p) == p \in NeedsBody => c \in bodies
\* Mutant of Hit: the definition of the processor is not part of the key.
HitAnyEdition(c, p) ==
    LET K == {<<Fp[c], p, e, Input(c, p)>> : e \in Edition} \cap DOMAIN cache
    IN  IF reevaluate \/ K = {} THEN NoAnswer ELSE cache[CHOOSE k \in K : TRUE]
Hit(c, p) == IF ~reevaluate /\ KeyOf(c, p) \in DOMAIN cache THEN cache[KeyOf(c, p)] ELSE NoAnswer

\* Passes 1 and 2, and the start of pass 3: a candidate is asked about when the
\* cache left a rule of it undecided and at least one processor can be asked; then
\* every processor of its undecided rules is.
Consult ==
    /\ phase = "consult"
    /\ LET Askable(c) == {p \in Needed(c, Unanswered) : HasInput(c, p)}
           Hits(c) == {p \in Askable(c) : Hit(c, p) # NoAnswer}
           cached == [c \in Cand |-> [p \in Proc |-> IF p \in Hits(c) THEN Hit(c, p) ELSE NoAnswer]]
       IN  /\ values' = cached
           /\ usedCache' = {c \in Cand : Hits(c) # {}}
           /\ toAsk' = [c \in Cand |-> IF Askable(c) = Hits(c) THEN {} ELSE Needed(c, cached[c])]
           /\ models' = {ModelOf[p] : p \in UNION {toAsk'[c] : c \in Cand}}
    /\ phase' = "ask"
    /\ UNCHANGED <<settings, tables, runs, reevaluate, bodies, sawInvalid, sawMissing, net, noted,
                   rows, result>>
----------------------------------------------------------------------------
(* Pass 3: the batches of one model (_group_by_model, _classify_all).      *)

Rank(S, c) == Cardinality({d \in S : Place[d] <= Place[c]})
Leads(S, T) == \E c \in S : \A d \in T : Place[c] < Place[d]

\* The candidates with the same processors to ask of a model form a group, which is
\* cut into batches.
Share(m, c) == {p \in toAsk[c] : ModelOf[p] = m}
Group(m, P) == {c \in Cand : Share(m, c) = P}
BatchNo(m, c) == (Rank(Group(m, Share(m, c)), c) - 1) \div BatchSize[m]
JobOf(m, c) == [model |-> m, procs |-> Share(m, c),
                cands |-> {d \in Group(m, Share(m, c)) : BatchNo(m, d) = BatchNo(m, c)}]
JobsOf(m) == {JobOf(m, c) : c \in {d \in Cand : Share(m, d) # {}}}

\* The order of submission: groups as they first occur among the candidates.
Before(i, j) ==
    IF i.procs = j.procs THEN Leads(i.cands, j.cands)
    ELSE Leads(Group(i.model, i.procs), Group(j.model, j.procs))

\* The network half of a batch: its parts still to be asked, how the call that is
\* under way stands, and what came back.
Waiting(job) == [at |-> "waiting", whole |-> TRUE, parts |-> <<job.cands>>, level |-> 1, tried |-> 0, got |-> <<>>]

Unrecorded == {i \in DOMAIN net : net[i].at # "done" \/ noted[i] < Len(net[i].got)}
\* Mutant of IsNext: a batch is recorded as soon as it is done.
IsNextDone(i) == i \in Unrecorded
IsNext(i) == i \in Unrecorded /\ \A j \in Unrecorded \ {i} : Before(i, j)

\* Models come in the order of a set of names, which is any order.
NextModel ==
    /\ phase = "ask"
    /\ Unrecorded = {}
    /\ \E m \in models :
          /\ models' = models \ {m}
          /\ net' = [i \in JobsOf(m) |-> Waiting(i)]
          /\ noted' = [i \in JobsOf(m) |-> 0]
    /\ UNCHANGED <<settings, tables, runs, phase, reevaluate, bodies, item, toAsk, rows, result>>

Running == {i \in DOMAIN net : net[i].at = "running"}
Network(i, n) ==
    /\ net' = [net EXCEPT ![i] = n]
    /\ UNCHANGED <<settings, tables, runs, phase, reevaluate, bodies, item, toAsk, models, noted,
                   rows, result>>

\* A free worker takes the next batch; without concurrency a batch is recorded
\* before the next is asked.
Launch(i) ==
    /\ net[i].at = "waiting"
    /\ \A j \in DOMAIN net : net[j].at = "waiting" /\ j # i => Before(i, j)
    /\ LET limit == MaxConcurrent[i.model]
       IN  Cardinality(Running) < limit /\ (limit = 1 => IsNext(i))
    /\ Network(i, [net[i] EXCEPT !.at = "running"])

Failed == [results |-> <<>>, invalid |-> {}]
\* parse_classification_response: the items that can be parsed, at their positions,
\* and the identifiers of those that cannot. A systemone request (_call_one) is about
\* one candidate and gives an item for it if any processor asked is answered.
Parse(job, r) ==
    LET good == {k \in DOMAIN r : r[k].answers # Malformed}
        offered(k) == DOMAIN r[k].answers \cap job.procs
    IN  IF Provider[job.model] = "systemone"
        THEN [results |-> [k \in {j \in good : r[j].id = 1 /\ offered(j) # {}} |->
                             [id |-> 1, answers |-> [p \in offered(k) |-> r[k].answers[p]]]],
              invalid |-> {}]
        ELSE [results |-> [k \in good |-> r[k]], invalid |-> {r[k].id : k \in DOMAIN r \ good}]

\* Mutant of Halves: the one in the middle is in neither.
HalvesApart(S) ==
    <<{c \in S : Rank(S, c) <= Cardinality(S) \div 2}, {c \in S : Rank(S, c) > Cardinality(S) \div 2 + 1}>>
Halves(S) ==
    <<{c \in S : Rank(S, c) <= Cardinality(S) \div 2}, {c \in S : Rank(S, c) > Cardinality(S) \div 2}>>

\* A call is over. If it brought nothing its batch is split, once.
After(n, outcome) ==
    LET part == Head(n.parts)
        fresh == [n EXCEPT !.level = 1, !.tried = 0]
    IN  IF DOMAIN outcome.results = {} /\ n.whole /\ Cardinality(part) > 1
        THEN [fresh EXCEPT !.whole = FALSE, !.parts = Halves(part)]
        ELSE [fresh EXCEPT !.parts = Tail(@),
                           !.got = Append(@, [cands |-> part,
                                              out |-> IF DOMAIN outcome.results = {} THEN Failed ELSE outcome]),
                           !.at = IF Len(n.parts) = 1 THEN "done" ELSE "running"]

\* Mutant of Degrade: one level too many.
DegradeBeyond(m, n) == IF n.level <= Ladder[m] THEN [n EXCEPT !.level = @ + 1, !.tried = 0] ELSE After(n, Failed)
Degrade(m, n) == IF n.level < Ladder[m] THEN [n EXCEPT !.level = @ + 1, !.tried = 0] ELSE After(n, Failed)
\* Mutant of Retry: the count starts anew.
RetryAnew(m, n, exhausted) == [n EXCEPT !.tried = IF n.tried + 1 < Tries[m] THEN @ + 1 ELSE 0]
Retry(m, n, exhausted) == IF n.tried + 1 < Tries[m] THEN [n EXCEPT !.tried = @ + 1] ELSE exhausted

\* The request is lost, or refused for want of capacity (busy) or otherwise, or
\* what comes back is not JSON.
Unserved(i) ==
    /\ i \in Running
    /\ LET m == i.model
           n == net[i]
       IN  \E why \in {"transport", "busy", "refused", "garbled"} :
              Network(i,
                 IF Provider[m] = "openai" /\ why = "transport" THEN Retry(m, n, Degrade(m, n))
                 ELSE IF Provider[m] = "systemone" /\ why \in {"transport", "busy"} THEN Retry(m, n, After(n, Failed))
                 ELSE IF Provider[m] # "systemone" /\ why \in {"busy", "refused"} THEN Degrade(m, n)
                 ELSE After(n, Failed))

\* The answer is to the payloads of this part, by batch-local identifiers.
Served(i) ==
    /\ i \in Running
    /\ \E r \in Response : Network(i, After(net[i], Parse(i, r)))
----------------------------------------------------------------------------
(* The bookkeeping half (_record_attempt, _resolve_item).                  *)

\* Mutant of Offered: any processor may be answered.
OfferedAny(job, answers) == DOMAIN answers
Offered(job, answers) == DOMAIN answers \cap job.procs
Accepted(job, answers) == {p \in Offered(job, answers) : ValidAnswer(p, edition, answers[p])}

\* Mutants of CacheKeys: what was answered without a body is cached too; the key is
\* the input of the whole batch.
CacheKeysAlways(c, P) == {KeyOf(c, p) : p \in P}
CacheKeysShared(c, P) ==
    {<<Fp[c], p, edition, IF c \in bodies THEN Text[c] ELSE Meta>> : p \in {q \in P : HasInput(c, q)}}
CacheKeys(c, P) == {KeyOf(c, p) : p \in {q \in P : HasInput(c, q)}}

\* Of an attempt, what came back about each of its candidates: of several items for
\* one candidate the first counts, and an identifier that is not in the batch counts
\* for nobody.
Items(a, c) == {k \in DOMAIN a.out.results : a.out.results[k].id = Rank(a.cands, c)}
First(a, c) == CHOOSE k \in Items(a, c) : \A j \in Items(a, c) : k <= j
Taken(a) == {c \in a.cands : Items(a, c) # {}}
Says(a, c) == a.out.results[First(a, c)].answers
Unparsed(a) == {c \in a.cands \ Taken(a) : Rank(a.cands, c) \in a.out.invalid}
\* Mutant of Overlooked: the candidates that nothing was said of are left out.
OverlookedNever(a) == {}
Overlooked(a) == a.cands \ (Taken(a) \cup Unparsed(a))

\* One transaction per attempt.
Record(i) ==
    /\ phase = "ask"
    /\ IsNext(i) /\ net[i].at = "done"
    /\ LET a == net[i].got[noted[i] + 1]
           Good(c) == Accepted(i, Says(a, c))
           Writes(c) == CacheKeys(c, Good(c))
           Written == UNION {Writes(c) : c \in Taken(a)}
           \* The last item that writes a key leaves its answer in it.
           Writer(key) == CHOOSE c \in Taken(a) :
               key \in Writes(c) /\ \A d \in Taken(a) : key \in Writes(d) => First(a, d) <= First(a, c)
           Row(c, ok) == [model |-> i.model, cand |-> c, valid |-> ok]
       IN  /\ values' = [c \in Cand |-> [p \in Proc |->
                IF c \in Taken(a) /\ p \in Good(c) THEN Says(a, c)[p] ELSE values[c][p]]]
           /\ cache' = [key \in DOMAIN cache \cup Written |->
                IF key \in Written THEN Says(a, Writer(key))[key[2]] ELSE cache[key]]
           /\ answered' = answered \cup
                UNION {{KeyOf(c, p) : p \in {q \in Good(c) : HasInput(c, q)}} : c \in Taken(a)}
           /\ sawInvalid' = sawInvalid \cup (IF a.out = Failed THEN a.cands ELSE Unparsed(a))
           /\ sawMissing' = sawMissing \cup (IF a.out = Failed THEN {} ELSE Overlooked(a))
           /\ rows' = Append(rows, IF a.out = Failed THEN {Row(c, FALSE) : c \in a.cands}
                                   ELSE {Row(c, TRUE) : c \in Taken(a)} \cup {Row(c, FALSE) : c \in Unparsed(a)})
           /\ noted' = [noted EXCEPT ![i] = @ + 1]
    /\ UNCHANGED <<settings, runs, phase, reevaluate, bodies, usedCache, toAsk, models, net, result>>

\* _finalize
Status(c, M) ==
    IF M # {} THEN "matched"
    ELSE IF c \in sawInvalid THEN "invalid_response"
    ELSE IF c \in sawMissing THEN "no_model_response"
    ELSE IF c \in usedCache THEN "cached_no_match"
    ELSE "no_match"

Settle ==
    /\ phase = "ask"
    /\ models = {}
    /\ Unrecorded = {}
    /\ result' = [c \in Cand |-> [status |-> Status(c, Matches(c, values[c])),
                                  matches |-> Matches(c, values[c]),
                                  valid |-> c \notin sawInvalid \cup sawMissing]]
    /\ phase' = "done"
    /\ UNCHANGED <<settings, tables, runs, reevaluate, bodies, item, batches, rows>>

\* The run is over, or was killed: all that is left of it is in the tables.
Leave ==
    /\ phase # "idle"
    /\ phase' = "idle"
    /\ reevaluate' = FALSE
    /\ bodies' = {}
    /\ Forget
    /\ UNCHANGED <<settings, tables, runs>>

Work(i) == Launch(i) \/ Unserved(i) \/ Served(i)
Bookkeeping == Consult \/ NextModel \/ (\E i \in DOMAIN net : Record(i)) \/ Settle
Next == Start \/ Reconfigure \/ Bookkeeping \/ Leave \/ (\E i \in DOMAIN net : Work(i))

Spec == Init /\ [][Next]_vars
\* Threads go on, and every request ends, by the timeout of the client if need be.
FairSpec == Spec /\ WF_vars(Bookkeeping) /\ WF_vars(\E i \in DOMAIN net : Work(i))
----------------------------------------------------------------------------
Item == [model : Model, cand : Cand, valid : BOOLEAN]
TypeOK ==
    /\ rules \in Rulebook
    /\ edition \in Edition
    /\ DOMAIN cache \subseteq Key /\ \A k \in DOMAIN cache : cache[k] \in Answer
    /\ answered \subseteq Key
    /\ runs \in 0..MaxRuns
    /\ phase \in {"idle", "consult", "ask", "done"}
    /\ reevaluate \in BOOLEAN
    /\ bodies \subseteq Cand
    /\ \A c \in Cand, p \in Proc : values[c][p] = NoAnswer \/ values[c][p] \in Answer
    /\ usedCache \subseteq Cand /\ sawInvalid \subseteq Cand /\ sawMissing \subseteq Cand
    /\ toAsk \in [Cand -> SUBSET Proc]
    /\ models \subseteq Model
    /\ \A i \in DOMAIN net : /\ Cardinality(i.cands) \in 1..BatchSize[i.model]
                            /\ net[i].level \in 1..Ladder[i.model]
                            /\ net[i].tried \in 0..(Tries[i.model] - 1)
    /\ noted \in [DOMAIN net -> 0..2]
    /\ rows \in Seq(SUBSET Item)
    /\ \A c \in Cand : result[c].status \in {"none", "matched", "no_match", "cached_no_match",
                                             "invalid_response", "no_model_response"}

\* Whatever a model or an earlier run left behind, every answer that rules are
\* evaluated on is one its processor declares in the configuration of this run
\* (_validate_answer, compute_processor_hash).
AnswersAreDeclared ==
    \A c \in Cand, p \in Proc : values[c][p] # NoAnswer => ValidAnswer(p, edition, values[c][p])

\* A candidate has answers only of processors that an undecided rule of it names:
\* a response never adds an answer that was not asked for (_resolve_item).
OnlyWhatWasAsked ==
    \A c \in Cand, p \in Proc : values[c][p] # NoAnswer => p \in Needed(c, Unanswered)

\* An answer of a processor that reads the body is cached under the text of a body
\* that was at hand (_processor_input_hash).
CachedOnItsBody ==
    [][\A k \in DOMAIN cache' \ DOMAIN cache : k[2] \in NeedsBody
          => \E c \in bodies : k[1] = Fp[c] /\ k[4] = Text[c]]_vars

\* A candidate all of whose questions were answered, in this run of the program
\* or in an earlier one, is not asked about again, unless told to (_consult_cache).
AskedOnce ==
    [][phase = "consult" /\ phase' = "ask" /\ ~reevaluate =>
          \A c \in Cand : toAsk'[c] # {} =>
              \E p \in Needed(c, Unanswered) : HasInput(c, p) /\ KeyOf(c, p) \notin answered]_vars

\* The rules of a result are settled: a rule that is said to match, matches
\* whatever the processors that gave no answer would have said (rules.evaluate).
MatchIsCertain ==
    phase = "done" =>
        \A c \in Cand : \A i \in result[c].matches :
            \A more \in [Proc -> {NoAnswer} \cup [value : Name \cup Probability, confidence : Probability]] :
                LET full == [p \in Proc |-> IF values[c][p] = NoAnswer THEN more[p] ELSE values[c][p]]
                IN  Verdict(rules[i].when, Facts[c], full) = "TRUE"

\* The transaction x is about the batch i.
From(x, i) == \E row \in rows[x] : row.model = i.model /\ row.cand \in i.cands
\* The audit rows of a model are in the order in which its batches were submitted,
\* however the answers came in (_classify_all).
RowsInOrder ==
    \A x, y \in DOMAIN rows : \A i, j \in DOMAIN net :
        x < y /\ From(x, i) /\ From(y, j) => i = j \/ Before(i, j)

Pieces(n) == [k \in 1..Len(n.got) |-> n.got[k].cands] \o n.parts
\* Splitting a batch loses nobody and asks nobody twice: what came back and what is
\* left to ask make up the batch, in at most two pieces (_classify_network).
SplitKeepsAll ==
    \A i \in DOMAIN net :
        /\ Len(Pieces(net[i])) <= 2
        /\ UNION {Pieces(net[i])[k] : k \in DOMAIN Pieces(net[i])} = i.cands
        /\ \A k, l \in DOMAIN Pieces(net[i]) : k # l => Pieces(net[i])[k] \cap Pieces(net[i])[l] = {}

\* A candidate that a model was asked about and gave no valid item for is told
\* apart from one that was judged: its result is not valid, and if no rule matches
\* its status is not one of the no_match (_record_attempt, _finalize).
FailureIsTold ==
    phase = "done" =>
        \A c \in Cand : \A p \in toAsk[c] :
            ~(\E x \in DOMAIN rows : [model |-> ModelOf[p], cand |-> c, valid |-> TRUE] \in rows[x])
            => ~result[c].valid /\ result[c].status \notin {"no_match", "cached_no_match"}

\* No condition of an accepted configuration is idle: given a valid answer with a
\* confidence where the type has one, it is decided, and a name that a value is to be
\* equal to is one that it can have (_validate_processor_atom).
NoIdleCondition ==
    \A i \in DOMAIN rules : \A atom \in ProcessorAtoms(rules[i].when) :
        LET V == {ProcessorVerdict(atom, [p \in Proc |-> a]) :
                    a \in {b \in [value : Name \cup Probability,
                                  confidence : IF atom.name \in Noul THEN {NoAnswer} ELSE Probability] :
                             ValidAnswer(atom.name, edition, b)}}
        IN  /\ "UNKNOWN" \notin V
            /\ atom.field = "value" /\ atom.cmp = "==" /\ atom.operand \in Name => "TRUE" \in V

\* However the models fail, an evaluation comes to its results, unless it is
\* killed: retries, levels and splits are all bounded.
EvaluationEnds == phase = "ask" ~> phase \in {"done", "idle"}

\* What the configuration promises of trash: the answers of a model alone, with
\* every deterministic atom the other way, do not suffice.
NotOnModelAlone ==
    phase = "done" =>
        \A c \in Cand : result[c].status = "matched" =>
            LET rule == rules[Winner(result[c].matches)]
            IN  (\E k \in DOMAIN rule.actions : rule.actions[k] = "trash")
                => ~(\A D \in SUBSET Fact : Verdict(rule.when, D, values[c]) = "TRUE")
=============================================================================
