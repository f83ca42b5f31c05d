------------------------------ MODULE MCArchive ------------------------------
(* A small instance of Archive: two clips of one month, one of another.    *)
EXTENDS Archive, TLC

CONSTANTS c1, c2, c3, may, june

TwoMonths == (c1 :> may) @@ (c2 :> may) @@ (c3 :> june)
OneMonth  == (c1 :> may) @@ (c2 :> may)

Symmetry == Permutations({c1, c2})
===============================================================================
