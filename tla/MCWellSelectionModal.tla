----------------------- MODULE MCWellSelectionModal -----------------------
(* Three wells of two columns: A1 and B1 in column 1, A2 in column 2, so  *)
(* plate order (A1, B1, A2) differs from row order and a gesture can list *)
(* them in any order.                                                      *)
EXTENDS WellSelectionModal

CONSTANTS A1, B1, A2

MCWells == {A1, B1, A2}

MCWellRank == (A1 :> 1) @@ (B1 :> 2) @@ (A2 :> 3)
=============================================================================
