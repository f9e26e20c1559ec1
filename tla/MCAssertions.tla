---------------------------- MODULE MCAssertions ----------------------------
(***************************************************************************)
(* Instances of Assertions for TLC: one call of each of two identities     *)
(* that the device approves.                                               *)
(***************************************************************************)
EXTENDS Assertions, TLC

CONSTANTS d1, c1, c2, i1, i2

MCCaller == c1 :> i1 @@ c2 :> i2

MCTarget == [c \in Call |-> d1]

Symmetric == Permutations(Key)

MCDrift == {-1, 1}

MCBinding == [d \in Device |-> Identity]
=============================================================================
