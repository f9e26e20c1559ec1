---------------------------- MODULE MCConnector ----------------------------
(***************************************************************************)
(* Instances of Connector for TLC.                                         *)
(***************************************************************************)
EXTENDS Connector, TLC

CONSTANTS c1, c2, s1, s2, i1, i2

Symmetric ==
    Permutations({c1, c2} \intersect Call)
      \union Permutations({s1, s2} \intersect Session)
      \union Permutations({i1, i2} \intersect Instance)
=============================================================================
