------------------------- MODULE MCAccountEnvelope -------------------------
EXTENDS AccountEnvelope, TLC

CONSTANTS alice, bob, phone, tablet, desk, laptop

Owners == phone :> alice @@ tablet :> alice @@ desk :> bob

(* What is typed: a title with white space around it and a mark that       *)
(* composes; one with a mark that does not; a title too long to seal; tags *)
(* that fold to different texts, and tags that fold to the same.           *)
Previews ==
  {[title |-> <<<<"space", "e", "acute", "space">>>>, tags |-> <<<<"s">>>>],
   [title |-> <<<<"x", "acute">>>>, tags |-> << >>],
   [title |-> <<<<"x", "x", "x", "x", "x">>>>, tags |-> << >>],
   [title |-> << >>, tags |-> <<<<"S">>, <<"x">>>>],
   [title |-> << >>, tags |-> <<<<"sharp_s">>, <<"s", "S">>>>]}
=============================================================================
