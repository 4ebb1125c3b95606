--------------------------- MODULE MCGroupLifecycle ---------------------------
(***************************************************************************)
(* Model of GroupLifecycle for TLC.                                        *)
(***************************************************************************)
EXTENDS GroupLifecycle

CONSTANTS p1, p2

MCPeer == {p1, p2}

Application(e, g) == [ratchet |-> "application", epoch |-> e, from |-> p1, gen |-> g]
Handshake(e, g) == [ratchet |-> "handshake", epoch |-> e, from |-> p1, gen |-> g]

(* Receiving: nothing is sealed here, epochs advance by Commits of p1 and by   *)
(* external Commits.  Epoch 1 has enough messages to leave the window on both  *)
(* sides and is evicted at epoch 4; p1 may remove Self and add it again.       *)
ReceiveLeafSets == {{Self, p1}, {Self, p1, p2}, {p1}}
ReceiveMessages ==
    {Application(1, 0), Application(1, 1), Application(1, 2), Application(1, 3),
     Application(2, 0), Application(2, 1), Application(3, 0),
     Handshake(1, 0), Handshake(1, 1), Handshake(2, 0), Handshake(3, 0)}
ReceiveWelcomes == {[keyPackage |-> "k1", epoch |-> 1, leaves |-> {Self, p1}],
                    [keyPackage |-> "k2", epoch |-> 3, leaves |-> {Self, p1}]}

(* Sealing: own Commits prepared, merged, discarded and superseded between own *)
(* messages, with two messages and a Commit of p1 among them.                  *)
SealLeafSets == {{Self, p1}, {p1}}
SealMessages == {Application(1, 0), Application(1, 1), Handshake(1, 0)}
SealWelcomes == {[keyPackage |-> "k1", epoch |-> 1, leaves |-> {Self, p1}]}
=============================================================================
