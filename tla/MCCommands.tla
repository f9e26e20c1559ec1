----------------------------- MODULE MCCommands -----------------------------
(***************************************************************************)
(* Instances of Commands for TLC.                                          *)
(***************************************************************************)
EXTENDS Commands, TLC

CONSTANTS c1, c2, c3, k1, k2, s1, s2

(***************************************************************************)
(* Calls are interchangeable (a fresh uuid is the call itself), and so are *)
(* keys and connections.  Used for safety runs only.                       *)
(***************************************************************************)
Symmetric ==
    Permutations({c1, c2, c3} \intersect Call)
      \union Permutations({k1, k2} \intersect Key)
      \union Permutations({s1, s2} \intersect Session)
=============================================================================
