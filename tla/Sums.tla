-------------------------------- MODULE Sums --------------------------------
(***************************************************************************)
(* Sums over a finite set, as the number of elements of a disjoint union:  *)
(* unlike a fold, this needs no recursion, so facts about totals can be    *)
(* proved from the facts about cardinality.                                *)
(***************************************************************************)
EXTENDS Integers, FiniteSets

\* One element for each unit that f, if positive, gives to a member of S.
Units(f, S) == UNION {{x} \X (1..f[x]) : x \in S}

\* The sum of the integers f[x] for x in S.
Total(f, S) == Cardinality(Units(f, S)) - Cardinality(Units([x \in S |-> -f[x]], S))

=============================================================================
