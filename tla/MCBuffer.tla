------------------------------ MODULE MCBuffer ------------------------------
(* The buffer for TLC: a reserve of 2 bytes, 3 bytes initially, pieces of  *)
(* at most 3 bytes; large enough to move, to grow and to use the reserve.  *)
EXTENDS Buffer
=============================================================================
