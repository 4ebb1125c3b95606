---------------------------- MODULE RatchetWindow ----------------------------
(***************************************************************************)
(* The replay window of one sender in one epoch, as a value: what          *)
(* DecryptionRatchet (vendored OpenMLS, tree/sender_ratchet.rs) promises   *)
(* its callers.  SenderRatchet.tla models the VecDeque that implements it  *)
(* and shows that it does.                                                 *)
(*                                                                         *)
(* A window is [head, keys]: head is the next generation to derive, keys   *)
(* the generations below head whose key material is still held.            *)
(***************************************************************************)
EXTENDS Integers

CONSTANTS
    Tolerance,  \* out_of_order_tolerance (5 in the production profile)
    Forward     \* maximum_forward_distance (1000 in the production profile)

ASSUME ToleranceAssumption == Tolerance \in Nat
ASSUME ForwardAssumption == Forward \in Nat

Window == [head : Nat, keys : SUBSET Nat]

\* DecryptionRatchet::new
NewWindow == [head |-> 0, keys |-> {}]

\* Generation g lies too far behind the head to be answered at all.
BehindWindow(w, g) == g < w.head /\ w.head - g > Tolerance

\* The errors of secret_for_decryption, in the order the code tests them.
WindowError(w, g) ==
    IF g > w.head + Forward THEN "TooDistantInTheFuture"
    ELSE IF BehindWindow(w, g) THEN "TooDistantInThePast"
    ELSE IF g < w.head /\ g \notin w.keys THEN "SecretReuseError"
    ELSE "Ok"

\* Mutant: an old generation's key is copied out and stays.
TakeKeyCopies(w, g) ==
    IF g >= w.head
    THEN [head |-> g + 1,
          keys |-> {k \in w.keys \cup (w.head .. g - 1) : g + 1 - k <= Tolerance}]
    ELSE w

\* Mutant: the keys skipped on the way to g are not kept.
TakeKeyForgetsSkipped(w, g) ==
    IF g >= w.head
    THEN [head |-> g + 1, keys |-> {k \in w.keys : g + 1 - k <= Tolerance}]
    ELSE [head |-> w.head, keys |-> w.keys \ {g}]

\* The window once the key of generation g is handed out: deriving g keeps the
\* keys skipped on the way and prunes those that fall behind; an older g only
\* gives up its own key.
TakeKey(w, g) ==
    IF g >= w.head
    THEN [head |-> g + 1,
          keys |-> {k \in w.keys \cup (w.head .. g - 1) : g + 1 - k <= Tolerance}]
    ELSE [head |-> w.head, keys |-> w.keys \ {g}]

=============================================================================
