---------------------------- MODULE MCEnrollment ----------------------------
(***************************************************************************)
(* Instances of Enrollment for TLC.                                        *)
(***************************************************************************)
EXTENDS Enrollment, TLC

CONSTANTS s1, s2, t1, t2, c1, c2, k1, k2

Symmetric ==
    Permutations({s1, s2} \intersect Session)
      \union Permutations({t1, t2} \intersect Token)
      \union Permutations({c1, c2} \intersect Connector)
      \union Permutations({k1, k2} \intersect PublicKey)
=============================================================================
