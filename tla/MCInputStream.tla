---------------------------- MODULE MCInputStream ----------------------------
(* InputStream with model values for the authorities. *)
EXTENDS InputStream, TLC

CONSTANTS a1, a2, a3

Alike == Permutations({a1, a2, a3})
=============================================================================
