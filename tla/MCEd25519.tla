------------------------------- MODULE MCEd25519 -------------------------------
(***************************************************************************)
(* TLC instance of Ed25519: the curve with q = 29 and d = 27, of 8 times 5 *)
(* points, in encodings of 6 bits.  Encodings of y from 29 to 31 stand for *)
(* 0 to 2, of which 1 is the y of the point whose x is 0.                  *)
(***************************************************************************)
EXTENDS Ed25519

\* Any function will do that takes all values modulo l.
MCHash(R, key, message) == 7 * R + 3 * key + message

\* Some below the order, and what is equal to them modulo the order.
MCScalars == {0, 1, 3, 5, 6, 8}
=============================================================================
