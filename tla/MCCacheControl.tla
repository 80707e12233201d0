--------------------------- MODULE MCCacheControl ---------------------------
(***************************************************************************)
(* A small instance of CacheControl for TLC.                               *)
(***************************************************************************)
EXTENDS CacheControl

\* Below, at and above each boundary of max-age.
MCAges == {-1, 0, 1, MaxTTL, MaxTTL + 1}
=============================================================================
