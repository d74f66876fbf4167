----------------------------- MODULE MCEvaluate -----------------------------
(***************************************************************************)
(* Three candidates, the first and the last of them copies of one message   *)
(* with different bodies; a chat model that judges the metadata in batches  *)
(* of two and a system-one model that judges bodies one by one.            *)
(***************************************************************************)
EXTENDS Evaluate, Routing

CONSTANTS c1, c2, c3, chat, jev, spam, risk, old, junk, keep, ham, f1, f2, t1, t2, t3

MCPlace == [c \in Cand |-> CASE c = c1 -> 1 [] c = c2 -> 2 [] OTHER -> 3]
MCFp == [c \in Cand |-> IF c = c2 THEN f2 ELSE f1]
MCText == [c \in Cand |-> CASE c = c1 -> t1 [] c = c2 -> t2 [] OTHER -> t3]
MCFacts == [c \in Cand |-> IF c # c2 THEN {old} ELSE {}]
MCModelOf == [p \in Proc |-> IF p = spam THEN chat ELSE jev]
MCProvider == [m \in Model |-> IF m = chat THEN "openai" ELSE "systemone"]
MCLadder == [m \in Model |-> IF m = chat THEN 2 ELSE 1]
MCTries == [m \in Model |-> IF m = chat THEN 1 ELSE 2]
MCBatch == [m \in Model |-> IF m = chat THEN 2 ELSE 1]
MCConcurrent == [m \in Model |-> IF m = chat THEN 2 ELSE 1]
\* An edit of the configuration replaces the option keep by ham.
MCCriteria == [e \in Edition |-> [p \in {spam} |-> IF e = 1 THEN {junk, keep} ELSE {junk, ham}]]

On(p, f, o, x) == [op |-> "processor", name |-> p, field |-> f, cmp |-> o, operand |-> x]
IsOld == [op |-> "fact", name |-> old]
Not(t) == [op |-> "not", child |-> t]
Tree(o, s) == [op |-> o, children |-> s]
IsJunk == On(spam, "value", "==", junk)
Risky == On(risk, "value", ">=", 1)

\* The second needs no model for an old message; the others are not accepted.
Trashing == <<[when |-> Tree("all", <<IsOld, IsJunk>>), actions |-> <<"backup", "trash">>],
              [when |-> Tree("none", <<IsOld, IsJunk, Risky>>), actions |-> <<"label">>]>>
Lenient == <<[when |-> Tree("any", <<IsOld, IsJunk>>), actions |-> <<"trash">>]>>
Confident == <<[when |-> Tree("all", <<Not(IsOld), On(risk, "confidence", ">=", 1)>>), actions |-> <<"label">>]>>
Misspelt == <<[when |-> On(spam, "value", "==", keep), actions |-> <<"label">>]>>
MCRulebook == {Trashing, Confident, Misspelt}
TrashRulebook == {Lenient}

Judges(x) == [value |-> x, confidence |-> NoAnswer]
It(id, ps, a) == [id |-> id, answers |-> [p \in ps |-> a]]
MCResponse ==
    { <<It(1, {spam}, Judges(junk)), It(2, {spam}, Judges(keep))>>,
      <<It(1, {spam, risk}, Judges(1))>>,
      <<It(2, {spam}, Judges(ham)), [id |-> 1, answers |-> Malformed], It(2, {spam}, Judges(junk)), It(3, {spam}, Judges(junk))>> }

ASSUME RoutesAreChecked ==
    \A E \in SUBSET ((1..3) \X (1..3)) :
        RoutingAcyclic(1..3, E) <=> \A S \in SUBSET (1..3) \ {{}} : \E n \in S : \A k \in S : <<n, k>> \notin E
=============================================================================
