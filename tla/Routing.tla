------------------------------ MODULE Routing ------------------------------
(***************************************************************************)
(* The check of the configuration that tasks do not route messages to each  *)
(* other in a circle (config.py).                                          *)
(***************************************************************************)
EXTENDS FiniteSets

\* The depth-first search of _check_routing_acyclic over the edges E: seen holds
\* the colour of each task and whether a cycle was met.
RECURSIVE Visit(_, _, _), VisitAll(_, _, _)
Visit(E, n, seen) ==
    LET inside == VisitAll(E, {e[2] : e \in {f \in E : f[1] = n}}, [seen EXCEPT !.color[n] = "gray"])
    IN  [inside EXCEPT !.color[n] = "black"]
VisitAll(E, S, seen) ==
    IF S = {} \/ seen.cycle THEN seen
    ELSE LET n == CHOOSE n \in S : TRUE
         IN  VisitAll(E, S \ {n},
                CASE seen.color[n] = "gray" -> [seen EXCEPT !.cycle = TRUE]
                  [] seen.color[n] = "white" -> Visit(E, n, seen)
                  [] OTHER -> seen)
RoutingAcyclic(N, E) == ~VisitAll(E, N, [color |-> [n \in N |-> "white"], cycle |-> FALSE]).cycle
=============================================================================
