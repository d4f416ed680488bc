--------------------------- MODULE MC_Blockchain ---------------------------
(* The store over five block hashes besides genesis, inserted in every     *)
(* order and over every stored parent, as in the insert1000 test which     *)
(* picks an arbitrary stored block as parent: every tree of up to six       *)
(* blocks, with forks of equal height.                                      *)
EXTENDS Blockchain

CONSTANTS G, H1, H2, H3, H4, H5, Zero
=============================================================================
