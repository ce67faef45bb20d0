----------------------------- MODULE MCLruCache -----------------------------
(***************************************************************************)
(* Instance for TLC: 72 bytes in blocks of 8 with 3 ways give 3 sets, of   *)
(* which 2 are indexed.  Of the five blocks four share a set of three      *)
(* lines; one address is inside its block, so that the offset matters.     *)
(***************************************************************************)
EXTENDS LruCache

MCAddresses == {0, 8, 20, 32, 48}

=============================================================================
