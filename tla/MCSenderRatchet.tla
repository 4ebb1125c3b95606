--------------------------- MODULE MCSenderRatchet ---------------------------
(***************************************************************************)
(* Model of SenderRatchet for TLC: a ratchet of a few generations whose    *)
(* window, forward distance and last generation are all reachable.         *)
(***************************************************************************)
EXTENDS SenderRatchet
=============================================================================
