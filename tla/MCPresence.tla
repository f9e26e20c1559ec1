----------------------------- MODULE MCPresence -----------------------------
(***************************************************************************)
(* Instances of Presence for TLC.                                          *)
(***************************************************************************)
EXTENDS Presence, TLC

CONSTANTS s1, s2, s3, d1, d2, i1, i2

Symmetric ==
    Permutations({s1, s2, s3} \intersect Session)
      \union Permutations({d1, d2} \intersect Connector)
      \union Permutations({i1, i2} \intersect Instance)
=============================================================================
