----------------------------- MODULE PlanScopes -----------------------------
(***************************************************************************)
(* The scopes of a Plan: the glob matcher, the two provers that decide      *)
(* without enumerating paths whether a pattern includes another or is       *)
(* disjoint from it, and the validation of a Plan that rests on them.       *)
(*                                                                         *)
(* A path is a sequence of segments and a pattern a sequence of segments,   *)
(* of which "*" matches any one segment and "**" any number of segments;    *)
(* a star inside a longer segment lies between a literal and "*" in all     *)
(* that is said here and is left out.                                       *)
(***************************************************************************)
EXTENDS Naturals, Sequences

Wild == {"*", "**"}

SegmentMatches(p, s) == p = "*" \/ p = s

\* GlobPattern.matches: starts[i] has the positions of the path from which the
\* rest of the pattern, from its segment i, matches the rest of the path.
Matches(pattern, path) ==
    LET starts[i \in 1 .. Len(pattern) + 1] ==
            IF i > Len(pattern) THEN {Len(path) + 1}
            ELSE IF pattern[i] = "**"
                 THEN {j \in 1 .. Len(path) + 1 : \E k \in starts[i + 1] : j <= k}
                 ELSE {j \in 1 .. Len(path) :
                          SegmentMatches(pattern[i], path[j]) /\ j + 1 \in starts[i + 1]}
    IN 1 \in starts[1]

IsLiteral(pattern) == \A i \in DOMAIN pattern : pattern[i] \notin Wild

\* prove_included
Included(left, right) ==
    \/ left = right
    \/ right = <<"**">>
    \/ IsLiteral(left) /\ Matches(right, left)
    \/ /\ right[Len(right)] = "**"
       /\ Len(left) >= Len(right) - 1
       /\ SubSeq(left, 1, Len(right) - 1) = SubSeq(right, 1, Len(right) - 1)

\* prove_disjoint
Disjoint(left, right) ==
    IF IsLiteral(left) /\ IsLiteral(right) THEN left # right
    ELSE \/ IsLiteral(left) /\ ~Matches(right, left)
         \/ IsLiteral(right) /\ ~Matches(left, right)
         \/ \E i \in (DOMAIN left) \cap (DOMAIN right) :
                {left[i], right[i]} \cap Wild = {} /\ left[i] # right[i]

\* Variant: patterns that are written differently are taken to be apart.
MayOverlapWhenEqual(left, right) == left = right

MayOverlap(left, right) == ~Disjoint(left, right)

AnyOverlap(S, T) == \E left \in S, right \in T : MayOverlap(left, right)

\* A contract names dependencies and the patterns of each scope; a check is
\* the set of its input patterns.
Sensitivity(c) == c.reads \cup c.depends \cup UNION c.checks

\* The edges writer -> reader of validate_plan.
PromotionHazards(contracts) ==
    {e \in (DOMAIN contracts) \X (DOMAIN contracts) :
        e[1] # e[2] /\ AnyOverlap(contracts[e[1]].writes, Sensitivity(contracts[e[2]]))}

Dependencies(contracts) ==
    {e \in (DOMAIN contracts) \X (DOMAIN contracts) : e[1] \in contracts[e[2]].after}

\* _reject_cycle peels the tasks without a predecessor until none is left: it
\* stops early just when some set of tasks has a predecessor of each in itself.
Acyclic(nodes, edges) ==
    \A S \in (SUBSET nodes) \ {{}} : \E n \in S : \A m \in S : <<m, n>> \notin edges

Respected(order, edges) ==
    \A e \in edges : \E i, j \in DOMAIN order :
        i < j /\ order[i] = e[1] /\ order[j] = e[2]

\* validate_plan, in whose order each Task stands once and no check of a Task
\* is without inputs, and what PlanProposal.from_validated_plan adds: each Task
\* has a check, and the order respects the dependencies.
Accepted(contracts, order) ==
    LET hazards == PromotionHazards(contracts)
        depends == Dependencies(contracts)
    IN
    /\ {order[i] : i \in DOMAIN order} = DOMAIN contracts
    /\ \A i, j \in DOMAIN order : order[i] = order[j] => i = j
    /\ \A k \in DOMAIN contracts :
           /\ contracts[k].after \subseteq DOMAIN contracts
           /\ \A w \in contracts[k].writes :
                  \E r \in contracts[k].reads : Included(w, r)
           /\ contracts[k].checks # {} /\ {} \notin contracts[k].checks
    /\ Respected(order, hazards)
    /\ Acyclic(DOMAIN contracts, hazards \cup depends)
    /\ Respected(order, depends)
=============================================================================
