----------------------------- MODULE RatchetTree -----------------------------
(***************************************************************************)
(* The ratchet tree of a group, in the vendored OpenMLS: the changes of    *)
(* treesync/diff.rs and binary_tree/array_representation/diff.rs, the      *)
(* order of apply_proposals.rs, the update paths of treekem.rs, and the    *)
(* keys merge_commit keeps; and the bounds external_resync/preflight.rs    *)
(* puts on the trees and paths it is shown.                                *)
(*                                                                         *)
(* Keys are not values: a parent that is not blank is known by `holders`,  *)
(* the leaves whose installation has its private key.  An installation     *)
(* that was removed keeps the keys it had and appears as Former.  Parents  *)
(* are <<level, position>>, a leaf i is also <<0, i>>.  Members process    *)
(* every Commit, in order (GroupSystem is about that).                     *)
(***************************************************************************)
EXTENDS Integers, FiniteSets

CONSTANTS
    Height,       \* preflight's depth: 8 in the code
    Former,       \* installations that were removed
    Blank,        \* a blank parent
    MaxMembers,           \* members a roster may have; MaxLeaves in the code
    MaxChanges            \* bound: removals and additions of one Commit

MaxLeaves == 2 ^ Height

ASSUME TreeConstants ==
    /\ Height \in Nat /\ MaxMembers \in 1 .. MaxLeaves /\ MaxChanges \in Nat
    /\ Former \notin 0 .. 2 * MaxLeaves - 1
MaxTreeNodes == 2 * MaxLeaves - 1

(* One level more than the limits allow. *)
Leaves == 0 .. 2 * MaxLeaves - 1
Parents == {<<l, i \div 2 ^ l>> : l \in 1 .. Height + 1, i \in Leaves}
Nodes == {<<0, i>> : i \in Leaves} \cup Parents

Under(node) == (node[2] * 2 ^ node[1]) .. ((node[2] + 1) * 2 ^ node[1] - 1)
Left(node) == <<node[1] - 1, 2 * node[2]>>
Right(node) == <<node[1] - 1, 2 * node[2] + 1>>

(* A tree, its occupied leaves and its parents; what lies beyond `size`    *)
(* leaves is not part of it.                                               *)
VARIABLE tree

Members(t) == {i \in t.leaves : i < t.size}

Depth(t) == CHOOSE d \in 0 .. Height + 1 : 2 ^ d = t.size

(* direct_path and copath, from the leaf up, by level.                     *)
DirectPath(t, i) == [l \in 1 .. Depth(t) |-> <<l, i \div 2 ^ l>>]

Sibling(node) == <<node[1], IF node[2] % 2 = 0 THEN node[2] + 1 ELSE node[2] - 1>>

Copath(t, i) == [l \in 1 .. Depth(t) |-> Sibling(<<l - 1, i \div 2 ^ (l - 1)>>)]

OnPath(t, i) == {DirectPath(t, i)[l] : l \in 1 .. Depth(t)}

-----------------------------------------------------------------------------
(* Changes of a diff.  A diff holds the nodes that were changed; what it   *)
(* does not hold is read from the original tree, also when the diff held   *)
(* it once and was trimmed since.                                          *)

Beyond(size, node) == (node[2] + 1) * 2 ^ node[1] > size

(* shrink_tree drops the nodes beyond `size` from the diff. *)
Shrink(original, t, size) ==
    [size |-> size,
     leaves |-> {i \in t.leaves : i < size} \cup {i \in original.leaves : i >= size},
     parent |-> [n \in Parents |-> IF Beyond(size, n) THEN original.parent[n] ELSE t.parent[n]]]

(* The least full tree that holds the rightmost occupied leaf. *)
Width(members) ==
    CHOOSE s \in {2 ^ d : d \in 0 .. Height + 1} :
        /\ \A i \in members : i < s
        /\ s > 1 => \E i \in members : 2 * i >= s

(* trim_tree. *)
Trim(original, t) ==
    IF Width(Members(t)) < t.size THEN Shrink(original, t, Width(Members(t))) ELSE t

(* Mutant: the direct path keeps its keys. *)
BlankLeavesOnly(t, removed) == [t EXCEPT !.leaves = @ \ removed]

(* blank_leaf, of each leaf in turn: the leaf and its direct path. *)
BlankLeaves(t, removed) ==
    [t EXCEPT !.leaves = @ \ removed,
              !.parent = [n \in Parents |->
                  IF \E i \in removed : n \in OnPath(t, i) THEN Blank ELSE t.parent[n]]]

(* Mutant: a new leaf is always appended. *)
NextLeaf(t) ==
    IF Members(t) = {} THEN 0 ELSE 1 + CHOOSE i \in Members(t) : \A j \in Members(t) : j <= i

(* free_leaf_index. *)
FreeLeaf(t) ==
    IF Members(t) = 0 .. t.size - 1 THEN t.size
    ELSE CHOOSE i \in 0 .. t.size - 1 : i \notin Members(t) /\ 0 .. i - 1 \subseteq Members(t)

(* add_leaf: grow_tree if there is no blank leaf; every parent above that  *)
(* is not blank lists the leaf as unmerged.                                *)
AddLeaf(t) ==
    LET i == FreeLeaf(t)
        grown == [t EXCEPT !.size = IF i < t.size THEN t.size ELSE 2 * t.size]
    IN  [grown EXCEPT
            !.leaves = @ \cup {i},
            !.parent = [n \in Parents |->
                IF n \in OnPath(grown, i) /\ grown.parent[n] # Blank
                THEN [grown.parent[n] EXCEPT !.unmerged = @ \cup {i}]
                ELSE grown.parent[n]]]

AddLeaves(t, count) ==
    LET added[k \in 0 .. count] == IF k = 0 THEN t ELSE AddLeaf(added[k - 1])
    IN  added[count]

(* What an installation that is removed holds, it holds as a former one.   *)
Departed(t, removed) ==
    LET renamed(S) == IF S \cap removed = {} THEN S ELSE (S \ removed) \cup {Former}
    IN  [t EXCEPT !.parent = [n \in Parents |->
            IF t.parent[n] = Blank THEN Blank
            ELSE [t.parent[n] EXCEPT !.holders = renamed(@)]]]

(* apply_proposals: removals, then additions, then trim_tree. *)
Applied(t, removed, count) ==
    LET original == Departed(t, removed)
    IN  Trim(original, AddLeaves(BlankLeaves(original, removed), count))

-----------------------------------------------------------------------------
(* Update paths *)

(* resolution: the node if it is not blank, with its unmerged leaves, or   *)
(* else what is below it.  It has no element twice and is listed from left *)
(* to right, a parent before its unmerged leaves (Precedes).               *)
ResolutionAt(t, excluded, resolved, n) ==
    LET listed(S) == {<<0, i>> : i \in (S \cap Members(t)) \ excluded}
    IN  IF n[1] = 0 THEN listed({n[2]})
        ELSE IF t.parent[n] # Blank THEN {n} \cup listed(t.parent[n].unmerged)
        ELSE resolved[Left(n)] \cup resolved[Right(n)]
Resolution(t, node, excluded) ==
    LET resolved[n \in Nodes] == ResolutionAt(t, excluded, resolved, n)
    IN  resolved[node]

Precedes(x, y) ==
    LET first(n) == n[2] * 2 ^ n[1]
    IN  first(x) < first(y) \/ (first(x) = first(y) /\ x[1] > y[1])
Place(S, x) == Cardinality({y \in S : Precedes(y, x)})

(* filtered_direct_path: the levels whose copath node resolves to anything.*)
Filtered(t, i) == {l \in 1 .. Depth(t) : Resolution(t, Copath(t, i)[l], {}) # {}}

(* encrypt_path: the nodes the path secret of a level is encrypted to; the *)
(* leaves added by the same Commit learn it from their Welcome.            *)
Recipients(t, author, l, added) ==
    {x \in Resolution(t, Copath(t, author)[l], {}) : x[1] # 0 \/ x[2] \notin added}

Holds(t, m, x) == IF x[1] = 0 THEN x[2] = m ELSE m \in t.parent[x].holders

(* The level of the lowest common ancestor of two leaves. *)
Meet(t, i, j) ==
    CHOOSE l \in 1 .. Depth(t) :
        /\ i \div 2 ^ l = j \div 2 ^ l
        /\ i \div 2 ^ (l - 1) # j \div 2 ^ (l - 1)

(* Mutant: the receiver counts the added leaves. *)
SeenUnfiltered(t, author, m, added) ==
    Resolution(t, Copath(t, author)[Meet(t, author, m)], {})

(* decryption_key: the resolution of the author's copath node above the    *)
(* receiver, and the first node in it whose key the receiver holds.        *)
Seen(t, author, m, added) ==
    Resolution(t, Copath(t, author)[Meet(t, author, m)], added)
FirstHeld(t, m, seen) ==
    CHOOSE x \in seen : Holds(t, m, x) /\ \A y \in seen : Precedes(y, x) => ~Holds(t, m, y)

(* decrypt_path succeeds: the receiver holds a key, and the ciphertext at  *)
(* the place of the first it holds is for a key it holds (a level that has *)
(* ciphertexts is on the filtered path).                                   *)
Decrypts(t, author, m, added) ==
    LET seen == Seen(t, author, m, added)
        sent == Recipients(t, author, Meet(t, author, m), added)
    IN  /\ \E x \in seen : Holds(t, m, x)
        /\ \E x \in sent : /\ Place(sent, x) = Place(seen, FirstHeld(t, m, seen))
                           /\ Holds(t, m, x)

(* apply_own_update_path and process_update_path: the direct path is       *)
(* blanked and the filtered one set.  Who learns the path secret of a      *)
(* level also learns those above: the author, the members and the added    *)
(* leaves below that level, and a former installation if any of its keys   *)
(* were used.                                                              *)
PathSet(t, author, added) ==
    LET path == OnPath(t, author)
        levels == Filtered(t, author)
        readers == {m \in Members(t) \ {author} : m \in added \/ Decrypts(t, author, m, added)}
        exposed == {l \in levels : \E x \in Recipients(t, author, l, added) :
                                       Holds(t, Former, x)}
        learners(l) == {author} \cup {m \in readers : Meet(t, author, m) <= l}
                       \cup {f \in {Former} : \E k \in exposed : k <= l}
    IN  [t EXCEPT !.parent = [n \in Parents |->
            IF n \notin path THEN t.parent[n]
            ELSE IF n[1] \in levels THEN [holders |-> learners(n[1]), unmerged |-> {}]
            ELSE Blank]]

(* encryption_keys: the parents of a leaf's filtered direct path that are  *)
(* not blank and do not list it as unmerged.                               *)
Owned(t, m) ==
    {n \in {DirectPath(t, m)[l] : l \in Filtered(t, m)} :
        t.parent[n] # Blank /\ m \notin t.parent[n].unmerged}

(* merge_commit: the new size, and the keys the new tree says one owns.    *)
Merged(t) ==
    [size |-> t.size,
     leaves |-> Members(t),
     parent |-> [n \in Parents |->
        IF Beyond(t.size, n) \/ t.parent[n] = Blank THEN Blank
        ELSE [t.parent[n] EXCEPT !.holders =
                {m \in @ : m = Former \/ (m \in Members(t) /\ n \in Owned(t, m))}]]]

-----------------------------------------------------------------------------
(* Commits *)

Init ==
    tree = [size |-> 1, leaves |-> {0}, parent |-> [n \in Parents |-> Blank]]

(* prepare_commit: removals and additions, or neither and a new path.      *)
Changes == {c \in [removed : SUBSET Members(tree), count : 0 .. MaxChanges] :
              /\ Cardinality(c.removed) + c.count <= MaxChanges
              /\ Cardinality(Members(tree)) - Cardinality(c.removed) + c.count <= MaxMembers}

AddedBy(t, c) == Members(t) \ (Members(tree) \ c.removed)

(* Additions alone do not require a path. *)
WithPath(c) == c.removed # {} \/ c.count = 0

Commit(c) ==
    LET t == Applied(tree, c.removed, c.count)
    IN  \E author \in Members(tree) \ c.removed :
            tree' = Merged(IF WithPath(c) THEN PathSet(t, author, AddedBy(t, c)) ELSE t)

(* The external builder with an explicit leaf: it is removed, the tree     *)
(* trimmed, and the author's placeholder added.                            *)
Replacing(old) == AddLeaf(Applied(tree, {old}, 0))

(* leftmost_free_index: the author's index, taken before the removal.      *)
AuthorLeaf(old) == IF FreeLeaf(tree) < old THEN FreeLeaf(tree) ELSE old

Replaced(old) == Members(Replacing(old)) = (Members(tree) \ {old}) \cup {AuthorLeaf(old)}

(* An external Commit; the checks on the change of roster (public.rs,      *)
(* external.rs) refuse any other result.                                   *)
ExternalCommit(old) ==
    /\ old \in Members(tree)
    /\ Replaced(old)
    /\ tree' = Merged(PathSet(Replacing(old), AuthorLeaf(old), {}))

Next ==
    \/ \E c \in Changes : Commit(c)
    \/ \E old \in Members(tree) : ExternalCommit(old)

Spec == Init /\ [][Next]_tree
-----------------------------------------------------------------------------
(* preflight.rs *)

(* tree(): the nodes exported up to the rightmost occupied leaf. *)
PreflightTree(t) ==
    LET last == CHOOSE i \in Members(t) : \A j \in Members(t) : j <= i
    IN  /\ 2 * last + 1 <= MaxTreeNodes
        /\ Cardinality(Members(t)) \in 1 .. MaxLeaves
        /\ \A n \in Parents : t.parent[n] # Blank => \A i \in t.parent[n].unmerged : i < MaxLeaves

(* update_path(). *)
PreflightPath(t, author) ==
    /\ Cardinality(Filtered(t, author)) <= Height
    /\ \A l \in Filtered(t, author) : Cardinality(Recipients(t, author, l, {})) <= MaxLeaves

-----------------------------------------------------------------------------
(* The private key of a parent is held by the members below it that are    *)
(* not listed as unmerged, and by nobody else: merge_commit finds all the  *)
(* keys it must own, and no removed installation has one that is in use.   *)
HoldersExact ==
    \A n \in Parents : tree.parent[n] # Blank =>
        tree.parent[n].holders = (Under(n) \cap Members(tree)) \ tree.parent[n].unmerged

(* In every update path that could be made now, each member that stays can *)
(* read exactly one ciphertext, and it is the one it looks for; those that *)
(* were removed, now or before, and those just added can read none.        *)
ReadOnce(t, author, added) ==
    LET sent == [l \in Filtered(t, author) |-> Recipients(t, author, l, added)]
        readable(m) == {r \in UNION {{l} \X sent[l] : l \in DOMAIN sent} : Holds(t, m, r[2])}
    IN  /\ \A m \in Members(t) \ (added \cup {author}) :
              Decrypts(t, author, m, added) /\ Cardinality(readable(m)) = 1
        /\ \A m \in added \cup {Former} : readable(m) = {}

PathsReadOnce ==
    /\ \A c \in {d \in Changes : WithPath(d)} :
          LET t == Applied(tree, c.removed, c.count)
          IN  \A author \in Members(tree) \ c.removed : ReadOnce(t, author, AddedBy(t, c))
    /\ \A old \in Members(tree) :
          Replaced(old) => ReadOnce(Replacing(old), AuthorLeaf(old), {})

(* What a group within the member limit produces is never refused by the   *)
(* bounds of preflight.rs, whatever its history: neither the tree a member *)
(* exports nor the path of an external Commit.                             *)
PassesPreflight ==
    /\ PreflightTree(tree)
    /\ \A old \in Members(tree) : Replaced(old) =>
          PreflightTree(Replacing(old)) /\ PreflightPath(Replacing(old), AuthorLeaf(old))

(* "Select exactly one existing leaf to replace during external resync"    *)
(* (external_commits.rs): whichever leaf is selected, it is gone from the  *)
(* tree the builder makes.                                                 *)
SelectedIsReplaced == \A old \in Members(tree) : Replaced(old)
=============================================================================
