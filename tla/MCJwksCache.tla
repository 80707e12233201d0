---------------------------- MODULE MCJwksCache ----------------------------
(***************************************************************************)
(* A small instance of JwksCache for TLC.                                  *)
(***************************************************************************)
EXTENDS JwksCache, TLC

MCSymmetry == Permutations(Kids) \union Permutations(Calls)
=============================================================================
