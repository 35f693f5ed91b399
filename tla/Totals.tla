------------------------------- MODULE Totals -------------------------------
(***************************************************************************)
(* The sum of a function of naturals over a finite set, as the cardinality *)
(* of a set of units: f[x] distinct units stand for the amount f[x].  A    *)
(* fold would compute the same number, but what a fold returns can only be *)
(* shown by induction over its definition; a cardinality obeys the         *)
(* theorems about finite sets, so the invariants that mention a sum can be *)
(* proved for every set of voters.                                         *)
(***************************************************************************)
EXTENDS Naturals, FiniteSets

\* f[x] units of every x in S.
Units(f, S) == UNION {{x} \X (1 .. f[x]) : x \in S}

\* The sum of f[x] for x in S.
Total(f, S) == Cardinality(Units(f, S))
=============================================================================
