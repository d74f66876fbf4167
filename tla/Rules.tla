------------------------------- MODULE Rules -------------------------------
(***************************************************************************)
(* The condition trees of a task's rules (rules.py), what the configuration *)
(* accepts of them (config.py) and the choice among the rules that match    *)
(* (policy.py).                                                             *)
(*                                                                         *)
(* A tree is a record: [op, children] for all, any and none, [op, child]    *)
(* for not, [op, name] for a deterministic atom, whose pattern, age, size   *)
(* or header test is reduced to the set of atoms that hold of a candidate,  *)
(* and [op, name, field, cmp, operand] for a condition on a processor.      *)
(***************************************************************************)
EXTENDS Integers, Sequences, FiniteSets

CONSTANTS
    Fact,      \* the deterministic atoms
    Proc,      \* the processors
    Noul,      \* those of type noul; the others have a closed vocabulary
    Name,      \* the names an answer may give
    NoAnswer

ASSUME RulesAssumption == Noul \subseteq Proc /\ NoAnswer \notin Name \cup 0..9

\* The probabilities: zero and one stand for low and high.
Probability == 0..1
----------------------------------------------------------------------------
(* rules.evaluate, rules.processor_names                                   *)

Compare(cmp, x, y) ==
    CASE cmp = "==" -> x = y
      [] cmp = "!=" -> x # y
      [] cmp = ">=" -> x \in Int /\ y \in Int /\ x >= y

\* An answer that has not come, or came without a confidence, decides nothing.
ProcessorVerdict(atom, values) ==
    LET answer == values[atom.name]
    IN  IF answer = NoAnswer \/ answer[atom.field] = NoAnswer THEN "UNKNOWN"
        ELSE IF Compare(atom.cmp, answer[atom.field], atom.operand) THEN "TRUE" ELSE "FALSE"

\* The verdicts of the children are a set.
AllOf(V) == IF "FALSE" \in V THEN "FALSE" ELSE IF V \subseteq {"TRUE"} THEN "TRUE" ELSE "UNKNOWN"
AnyOf(V) == IF "TRUE" \in V THEN "TRUE" ELSE IF V \subseteq {"FALSE"} THEN "FALSE" ELSE "UNKNOWN"
Negated(v) == IF v = "TRUE" THEN "FALSE" ELSE IF v = "FALSE" THEN "TRUE" ELSE v
\* Mutant of NoneOf: true as soon as no child is.
NoneOfKnown(V) == IF "TRUE" \in V THEN "FALSE" ELSE "TRUE"
NoneOf(V) == IF "TRUE" \in V THEN "FALSE" ELSE IF V \subseteq {"FALSE"} THEN "TRUE" ELSE "UNKNOWN"

\* How an operator of a tree combines the verdicts on what is below it.
Combined(op, V) ==
    CASE op = "all" -> AllOf(V)
      [] op = "any" -> AnyOf(V)
      [] op = "none" -> NoneOf(V)
      [] op = "not" -> Negated(CHOOSE v \in V : TRUE)

Operator == {"all", "any", "none", "not"}
Below(tree) ==
    IF tree.op = "not" THEN {tree.child} ELSE {tree.children[i] : i \in DOMAIN tree.children}

\* No tree that the configuration accepts nests operators more than three deep, so
\* what rules.py does by recursion goes down three levels.
AtomVerdict(atom, facts, values) ==
    IF atom.op = "processor" THEN ProcessorVerdict(atom, values)
    ELSE IF atom.name \in facts THEN "TRUE" ELSE "FALSE"
Verdict1(tree, facts, values) ==
    IF tree.op \in Operator THEN Combined(tree.op, {AtomVerdict(t, facts, values) : t \in Below(tree)})
    ELSE AtomVerdict(tree, facts, values)
Verdict2(tree, facts, values) ==
    IF tree.op \in Operator THEN Combined(tree.op, {Verdict1(t, facts, values) : t \in Below(tree)})
    ELSE AtomVerdict(tree, facts, values)
Verdict(tree, facts, values) ==
    IF tree.op \in Operator THEN Combined(tree.op, {Verdict2(t, facts, values) : t \in Below(tree)})
    ELSE AtomVerdict(tree, facts, values)

Leaves1(tree) == IF tree.op \in Operator THEN Below(tree) ELSE {tree}
Leaves2(tree) == IF tree.op \in Operator THEN UNION {Leaves1(t) : t \in Below(tree)} ELSE {tree}
Leaves(tree) == IF tree.op \in Operator THEN UNION {Leaves2(t) : t \in Below(tree)} ELSE {tree}

ProcessorAtoms(tree) == {t \in Leaves(tree) : t.op = "processor"}
ProcessorNames(tree) == {t.name : t \in ProcessorAtoms(tree)}
HasDeterministicAtom(tree) == \E t \in Leaves(tree) : t.op = "fact"
----------------------------------------------------------------------------
(* config.py: the nesting of a tree, its processor atoms, the actions of a  *)
(* rule.                                                                   *)

NestingAllowed(tree) == \A t \in Leaves(tree) : t.op \notin Operator

\* Mutant of ProcessorAtomAllowed: the check is left out.
ProcessorAtomUnchecked(atom, criteria) == TRUE
\* criteria gives each processor its options or levels.
ProcessorAtomAllowed(atom, criteria) ==
    /\ atom.name \in Proc
    /\ atom.field \in {"value", "confidence"}
    /\ atom.field = "confidence" => atom.name \notin Noul
    /\ atom.field = "value" /\ atom.cmp \in {"==", "!="} /\ atom.operand \in Name
           => atom.name \notin Noul /\ atom.operand \in criteria[atom.name]

Remote == {"trash", "move_to", "label"}
ActionsAllowed(rule) ==
    /\ rule.actions # <<>>
    /\ Cardinality({i \in DOMAIN rule.actions : rule.actions[i] \in Remote}) <= 1
    /\ (\E i \in DOMAIN rule.actions : rule.actions[i] = "trash") => HasDeterministicAtom(rule.when)

RuleAllowed(rule, criteria) ==
    /\ NestingAllowed(rule.when)
    /\ \A atom \in ProcessorAtoms(rule.when) : ProcessorAtomAllowed(atom, criteria)
    /\ ActionsAllowed(rule)
----------------------------------------------------------------------------
(* policy.decide: the rule listed first wins.                              *)

Winner(matches) == CHOOSE i \in matches : \A j \in matches : i <= j
=============================================================================
