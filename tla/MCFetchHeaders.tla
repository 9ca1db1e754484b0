---------------------------- MODULE MCFetchHeaders ----------------------------
(***************************************************************************)
(* TLC instance of FetchHeaders.  The ranges share a headers.bin, and two  *)
(* of them a --to, where the second --from cuts the batches elsewhere.     *)
(***************************************************************************)
EXTENDS FetchHeaders

ThreeRanges == {[lo |-> 0, hi |-> 8], [lo |-> 4, hi |-> 8], [lo |-> 1, hi |-> 2]}
=============================================================================
