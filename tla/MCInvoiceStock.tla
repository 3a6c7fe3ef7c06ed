--------------------------- MODULE MCInvoiceStock ---------------------------
(***************************************************************************)
(* Small instances of InvoiceStock: one article that two lines want, and   *)
(* less of it than they want together.                                     *)
(***************************************************************************)
EXTENDS InvoiceStock, TLC

CONSTANTS r1, r2, article, lineA, lineB

MCItemOf  == [l \in {lineA, lineB} |-> article]
MCWant    == [l \in {lineA, lineB} |-> IF l = lineA THEN 2 ELSE 1]
MCOpening == [i \in {article} |-> 2]

\* The two requests are interchangeable.
Symmetry == Permutations({r1, r2})
=============================================================================
