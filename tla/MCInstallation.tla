---------------------------- MODULE MCInstallation ----------------------------
(***************************************************************************)
(* Model of Installation for TLC: two workers, and the digests by which    *)
(* they compare rows and rosters.  Both may call everything, so one of     *)
(* them can do what an extension does.                                     *)
(***************************************************************************)
EXTENDS Installation, TLC

Digests == INSTANCE StateDigests

CONSTANTS p1, p2

MCLeafSets == {{Self, p1}}
MCMessage ==
    {[ratchet |-> "application", epoch |-> 1, from |-> p1, gen |-> 0],
     [ratchet |-> "handshake", epoch |-> 1, from |-> p1, gen |-> 0]}
\* Workers are told apart by nothing but what they do.
MCSymmetry == Permutations(Foreground)
MCWelcome == {[keyPackage |-> "k1", epoch |-> 1, leaves |-> {Self, p1}]}

-----------------------------------------------------------------------------
\* Byte strings that are prefixes of one another and end in the same byte.
ShortBytes == {<<0>>, <<0, 1>>, <<1>>, <<1, 1>>}
Globals == {<<1>>}

Lists(S, n) == UNION {[1 .. k -> S] : k \in 0 .. n}

Rosters ==
    [group : {<<0>>, <<0, 1>>}, epoch : {0, 1},
     leaves : {l \in Lists([index : {0, 1}, identity : {<<0>>, <<0, 1>>, <<1>>},
                            key : {<<1>>, <<1, 1>>}], 2) : Digests!CanonicalLeaves(l)}]

\* validate_storage_entries: no key occurs twice.
Snapshots ==
    {s \in Lists([key : ShortBytes \ {<<1, 1>>}, value : {<<>>, <<1>>}], 2) :
        \A i, j \in DOMAIN s : s[i].key = s[j].key => i = j}

RowSet(s) == Digests!ToSet(Digests!OfGroup(s, Globals))

\* A roster digest admits one roster.
ASSUME RosterDigestNames ==
    \A r, s \in Rosters : Digests!RosterDigest(r) = Digests!RosterDigest(s) => r = s

\* A state digest admits the group rows it was taken of and no others, wherever a
\* key ends and its value begins, in whatever order a database returns them and
\* whatever rows of the installation it returns with them.
ASSUME StateDigestNames ==
    \A s, t \in Snapshots :
        (Digests!GroupStateDigest(<<0>>, s, Globals) = Digests!GroupStateDigest(<<0>>, t, Globals))
        <=> (RowSet(s) = RowSet(t))
=============================================================================
