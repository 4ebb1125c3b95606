-------------------------- MODULE MCExternalResync --------------------------
EXTENDS ExternalResync, TLC

B(identity, key) == [identity |-> identity, key |-> key]

(* The receiving member at leaf 0, another member whose leaf came from a   *)
(* KeyPackage at leaf 1, and the installation that lost its rows at leaf   *)
(* 3, alone beyond a full left half.                                       *)
MCFoundersApart == {Leaf(0, B("m", 1)), Leaf(1, B("n", 2)), Leaf(3, B("r", 3))}
MCLifetimesApart == (0 :> 9) @@ (1 :> 0) @@ (2 :> 0) @@ (3 :> 9)

(* It returns under its identity with a new key, under a new identity, or  *)
(* with the key it had, which the group still holds.                       *)
MCBindings == {B("r", 4), B("s", 5), B("r", 3)}
=============================================================================
