--------------------------- MODULE RosterAuthority ---------------------------
(***************************************************************************)
(* Roster authority of src/rust/src/api/group_e2ee.rs: what the caller's   *)
(* decisions about the membership of a group may name, and which roster a  *)
(* Commit made from them may produce.  A roster is the set of the leaves   *)
(* OpenMLS reports; a leaf binds an index to a Basic Credential identity   *)
(* and a signature key.  A digest is the roster it is taken of (SHA-256    *)
(* and its framing are the subject of StateDigests).                       *)
(***************************************************************************)
EXTENDS Integers, Sequences, FiniteSets

(* MlsRosterLeafV1 and the (identity, key) pair of an addition. *)
Bind(leaf) == [identity |-> leaf.identity, key |-> leaf.key]

Leaf(index, bind) == [index |-> index, identity |-> bind.identity, key |-> bind.key]

IsLeaf(leaf) == leaf = Leaf(leaf.index, Bind(leaf))

(* The leaves kept when those at the indices `gone` are removed. *)
Retained(leaves, gone) == {leaf \in leaves : leaf.index \notin gone}

(* validate_canonical_leaves: no index, identity or key occurs twice.      *)
(* roster_from_group refuses a group whose members break it.               *)
Canonical(leaves) ==
    \A a, b \in leaves :
        a.index = b.index \/ a.identity = b.identity \/ a.key = b.key => a = b

(* Mutant: the list is deduplicated silently by the set it is collected in. *)
RemovalsUnchecked(leaves, removals) ==
    \A i \in DOMAIN removals : removals[i] \in leaves

(* Mutant: only the index of a removal is looked up. *)
RemovalsByIndex(leaves, removals) ==
    /\ \A i, j \in DOMAIN removals : removals[i].index = removals[j].index => i = j
    /\ \A i \in DOMAIN removals : \E leaf \in leaves : leaf.index = removals[i].index

(* validate_removals: each authorised removal names one active leaf by its *)
(* index, identity and key; the answer is the set of indices.              *)
RemovalsValid(leaves, removals) ==
    /\ \A i, j \in DOMAIN removals : removals[i].index = removals[j].index => i = j
    /\ \A i \in DOMAIN removals : removals[i] \in leaves

Indices(removals) == {removals[i].index : i \in DOMAIN removals}

(* validate_additions: identities and keys are new among the retained      *)
(* leaves and the other additions, and the KeyPackage carries exactly the  *)
(* expected ones.                                                          *)
AdditionsValid(leaves, gone, additions) ==
    /\ \A i \in DOMAIN additions :
          /\ additions[i].package = additions[i].expected
          /\ \A leaf \in Retained(leaves, gone) :
                /\ leaf.identity # additions[i].expected.identity
                /\ leaf.key # additions[i].expected.key
    /\ \A i, j \in DOMAIN additions :
          \/ additions[i].expected.identity = additions[j].expected.identity
          \/ additions[i].expected.key = additions[j].expected.key
          => i = j

(* The additions a fresh leaf of the resulting roster matches. *)
MatchingAdditions(leaf, additions) ==
    {i \in DOMAIN additions : additions[i].expected = Bind(leaf)}

(* Mutant: a leaf may match an addition another leaf has used, and the     *)
(* number of leaves is not compared.                                       *)
DeltaReusing(leaves, resulting, gone, additions) ==
    LET retained == Retained(leaves, gone)
        fresh == {leaf \in resulting : \A old \in retained : old.index # leaf.index}
    IN  /\ resulting \ fresh \subseteq retained
        /\ \A leaf \in fresh : Cardinality(MatchingAdditions(leaf, additions)) = 1
        /\ \A i \in DOMAIN additions : \E leaf \in fresh : i \in MatchingAdditions(leaf, additions)

(* validate_exact_delta on the leaves: a leaf at a retained index is the   *)
(* retained one; every other leaf matches one addition no other leaf has   *)
(* used; nothing is missing.                                               *)
ExactDelta(leaves, resulting, gone, additions) ==
    LET retained == Retained(leaves, gone)
        fresh == {leaf \in resulting : \A old \in retained : old.index # leaf.index}
    IN  /\ resulting \ fresh \subseteq retained
        /\ \A leaf \in fresh : Cardinality(MatchingAdditions(leaf, additions)) = 1
        /\ \A a, b \in fresh :
              MatchingAdditions(a, additions) = MatchingAdditions(b, additions) => a = b
        /\ Cardinality(resulting) = Cardinality(retained) + Len(additions)
        /\ \A i \in DOMAIN additions : \E leaf \in fresh : i \in MatchingAdditions(leaf, additions)

(* What the tree of the vendored OpenMLS does with the Commit: removed     *)
(* leaves are blanked first, then each addition takes the leftmost blank   *)
(* leaf, or a new one at the right (treesync/diff.rs free_leaf_index).     *)
Blank(leaves) == {i \in 0 .. Cardinality(leaves) : \A leaf \in leaves : leaf.index # i}

LeftmostBlank(leaves) == CHOOSE i \in Blank(leaves) : \A j \in Blank(leaves) : i <= j

Placed(leaves, gone, additions) ==
    LET tree[n \in 0 .. Len(additions)] ==
            IF n = 0 THEN Retained(leaves, gone)
            ELSE tree[n - 1] \cup {Leaf(LeftmostBlank(tree[n - 1]), additions[n].package)}
    IN  tree[Len(additions)]
=============================================================================
