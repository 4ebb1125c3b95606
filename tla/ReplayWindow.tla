----------------------------- MODULE ReplayWindow -----------------------------
(***************************************************************************)
(* Abstract specification of one sender's decryption ratchet: generations  *)
(* are accepted in any order inside a window, each at most once.           *)
(***************************************************************************)
EXTENDS RatchetWindow

CONSTANT Generations    \* the generations a ciphertext may name

VARIABLE window

Init == window = NewWindow

\* Hand out the key of generation g.
Accept(g) ==
    /\ WindowError(window, g) = "Ok"
    /\ window' = TakeKey(window, g)

Next == \E g \in Generations : Accept(g)

Spec == Init /\ [][Next]_window

=============================================================================
