---------------------------- MODULE MCPlanScopes ----------------------------
(***************************************************************************)
(* The provers of PlanScopes against what the patterns match: one initial   *)
(* state for each pair of patterns over two names and at most MaxSegments   *)
(* segments, compared on every path over the same names.                    *)
(***************************************************************************)
EXTENDS PlanScopes

CONSTANTS Names, MaxSegments

VARIABLES left, right

Patterns == UNION {[1 .. n -> Names \cup Wild] : n \in 1 .. MaxSegments}
Paths    == UNION {[1 .. n -> Names] : n \in 1 .. MaxSegments}

Init == left \in Patterns /\ right \in Patterns
Next == UNCHANGED <<left, right>>
Spec == Init /\ [][Next]_<<left, right>>

\* SPEC.md: "A validator must prove pattern inclusion/disjointness under this
\* grammar; unknown proof is overlap/rejection." Patterns that are proved
\* disjoint match no path in common.
DisjointIsSound ==
    Disjoint(left, right) =>
        ~\E path \in Paths : Matches(left, path) /\ Matches(right, path)
=============================================================================
