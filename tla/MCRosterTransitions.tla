------------------------- MODULE MCRosterTransitions -------------------------
EXTENDS RosterTransitions

B(identity, key) == [identity |-> identity, key |-> key]
A(expected, package) == [expected |-> expected, package |-> package]

(* Alice founds the group.  Bob's installation is added under one of two   *)
(* keys; the directory may answer a request for Carol with Dave's          *)
(* KeyPackage.                                                             *)
MCBindings == {B("alice", 1), B("bob", 2), B("bob", 3), B("carol", 4), B("dave", 5)}
MCFounder == B("alice", 1)
MCAdditions ==
    {A(b, b) : b \in {B("bob", 2), B("carol", 4), B("dave", 5)}}
        \cup {A(B("carol", 4), B("dave", 5))}
=============================================================================
