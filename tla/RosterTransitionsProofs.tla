----------------------- MODULE RosterTransitionsProofs -----------------------
(***************************************************************************)
(* Theorems of RosterTransitions.  They rest on the validators alone: the  *)
(* roster a Commit produces is any roster the checks on it accept, so what *)
(* OpenMLS does with the tree is not assumed.  The argument is one of      *)
(* counting: the fresh leaves and the additions are in bijection, hence as *)
(* many leaves remain as were to be retained, hence the same ones.         *)
(***************************************************************************)
EXTENDS RosterTransitions, FunctionTheorems, FiniteSetTheorems, TLAPS

IsList(list) == Len(list) \in Nat /\ DOMAIN list = 1 .. Len(list)

LEMMA ListsAreLists ==
    ASSUME NEW S, NEW list \in Lists(S)
    PROVE  IsList(list) /\ \A i \in DOMAIN list : list[i] \in S
<1>1. PICK n \in 0 .. MaxList : list \in [1 .. n -> S]
    BY DEF Lists
<1>2. list \in Seq(S)
    BY <1>1
<1> QED BY <1>1, <1>2 DEF IsList

(* validate_exact_delta keeps every retained leaf, admits no leaf that     *)
(* matches no addition, and counts one new leaf for each addition.         *)
LEMMA DeltaShape ==
    ASSUME NEW old, IsFiniteSet(old), NEW new, IsFiniteSet(new), NEW gone,
           NEW additions, IsList(additions), ExactDelta(old, new, gone, additions)
    PROVE  /\ Retained(old, gone) \subseteq new
           /\ \A leaf \in new \ Retained(old, gone) :
                 \E i \in DOMAIN additions : additions[i].expected = Bind(leaf)
           /\ Cardinality(new) = Cardinality(Retained(old, gone)) + Len(additions)
<1> DEFINE retained == Retained(old, gone)
           fresh == {leaf \in new : \A other \in retained : other.index # leaf.index}
           indices == DOMAIN additions
           match == [leaf \in fresh |->
                        CHOOSE i \in indices : i \in MatchingAdditions(leaf, additions)]
<1>1. /\ new \ fresh \subseteq retained
      /\ \A leaf \in fresh : Cardinality(MatchingAdditions(leaf, additions)) = 1
      /\ \A a, b \in fresh :
            MatchingAdditions(a, additions) = MatchingAdditions(b, additions) => a = b
      /\ Cardinality(new) = Cardinality(retained) + Len(additions)
      /\ \A i \in indices : \E leaf \in fresh : i \in MatchingAdditions(leaf, additions)
    BY DEF ExactDelta
<1>2. IsFiniteSet(indices) /\ Cardinality(indices) = Len(additions)
    <2>1. Len(additions) \in Nat /\ indices = 1 .. Len(additions)
        BY DEF IsList
    <2>2. /\ IsFiniteSet(1 .. Len(additions))
          /\ Cardinality(1 .. Len(additions)) = IF 1 > Len(additions) THEN 0 ELSE Len(additions) - 1 + 1
        BY <2>1, FS_Interval
    <2> QED BY <2>1, <2>2
<1>3. retained \in SUBSET old /\ fresh \in SUBSET new /\ new \ fresh \in SUBSET retained
    BY <1>1 DEF Retained
<1>4. IsFiniteSet(retained) /\ IsFiniteSet(fresh)
    BY <1>3, FS_Subset
<1>5. ASSUME NEW leaf \in fresh
      PROVE  match[leaf] \in indices /\ MatchingAdditions(leaf, additions) = {match[leaf]}
    <2>1. MatchingAdditions(leaf, additions) \in SUBSET indices
        BY DEF MatchingAdditions
    <2>2. IsFiniteSet(MatchingAdditions(leaf, additions))
        BY <2>1, <1>2, FS_Subset
    <2>3. Cardinality(MatchingAdditions(leaf, additions)) = 1
        BY <1>1
    <2>4. PICK i : MatchingAdditions(leaf, additions) = {i}
        BY <2>2, <2>3, FS_Singleton
    <2>5. match[leaf] \in MatchingAdditions(leaf, additions)
        BY <2>1, <2>4
    <2> QED BY <2>1, <2>4, <2>5
<1> HIDE DEF match
<1>6. match \in [fresh -> indices]
    BY <1>5 DEF match
<1>7. match \in Injection(fresh, indices)
    <2>1. ASSUME NEW a \in fresh, NEW b \in fresh, match[a] = match[b]
          PROVE  a = b
        <3>1. MatchingAdditions(a, additions) = MatchingAdditions(b, additions)
            BY <1>5, <2>1
        <3> QED BY <1>1, <3>1
    <2> HIDE DEF fresh, indices
    <2>2. DOMAIN match = fresh
        BY <1>6
    <2> QED BY <1>6, <2>1, <2>2 DEF Injection, IsInjective
<1>8. match \in Surjection(fresh, indices)
    <2>1. ASSUME NEW i \in indices
          PROVE  \E leaf \in fresh : match[leaf] = i
        <3>1. PICK leaf \in fresh : i \in MatchingAdditions(leaf, additions)
            BY <1>1
        <3>2. match[leaf] = i
            BY <1>5, <3>1
        <3> QED BY <3>2
    <2> HIDE DEF fresh, indices
    <2> QED BY <1>6, <2>1 DEF Surjection
<1> HIDE DEF retained, fresh, indices
<1>9. Cardinality(fresh) = Len(additions)
    BY <1>2, <1>7, <1>8, FS_Injection
<1>10. Cardinality(new \ fresh) = Cardinality(new) - Cardinality(new \cap fresh)
    BY FS_Difference
<1>11. new \cap fresh = fresh
    BY <1>3, Zenon
<1>12. Cardinality(retained) \in Nat /\ Cardinality(fresh) \in Nat
    BY <1>4, FS_CardinalityType
<1>13. Cardinality(new \ fresh) = Cardinality(retained)
    <2>1. Cardinality(new) = Cardinality(retained) + Cardinality(fresh)
        BY <1>1, <1>9
    <2>2. Cardinality(new \ fresh) = Cardinality(new) - Cardinality(fresh)
        BY <1>10, <1>11
    <2> QED BY <2>1, <2>2, <1>12
<1>14. new \ fresh = retained
    BY <1>3, <1>4, <1>13, FS_Subset
<1>15. ASSUME NEW leaf \in fresh
       PROVE  \E i \in DOMAIN additions : additions[i].expected = Bind(leaf)
    BY <1>5 DEF MatchingAdditions
<1> QED BY <1>1, <1>14, <1>15 DEF retained

(* validate_removals names as many leaves as the list is long. *)
LEMMA RemovalsCounted ==
    ASSUME NEW old, IsFiniteSet(old), Canonical(old),
           NEW removals, IsList(removals), RemovalsValid(old, removals)
    PROVE  /\ Cardinality(Retained(old, Indices(removals))) + Len(removals) = Cardinality(old)
           /\ Cardinality(Retained(old, Indices(removals))) \in Nat
<1> DEFINE retained == Retained(old, Indices(removals))
           removed == old \ retained
           n == Len(removals)
<1>1. n \in Nat /\ DOMAIN removals = 1 .. n
    BY DEF IsList
<1>2. \A i, j \in 1 .. n : removals[i] = removals[j] => i = j
    BY <1>1 DEF RemovalsValid
<1>3. ASSUME NEW i \in 1 .. n
      PROVE  removals[i] \in removed
    BY <1>1 DEF RemovalsValid, Retained, Indices
<1>4. ASSUME NEW leaf \in removed
      PROVE  \E i \in 1 .. n : removals[i] = leaf
    <2>1. PICK i \in 1 .. n : leaf.index = removals[i].index
        BY <1>1 DEF Retained, Indices
    <2>2. removals[i] \in old /\ leaf \in old
        BY <1>1 DEF RemovalsValid
    <2> QED BY <2>1, <2>2 DEF Canonical
<1> DEFINE list == [i \in 1 .. n |-> removals[i]]
<1>5. list \in Injection(1 .. n, removed) /\ list \in Surjection(1 .. n, removed)
    BY <1>2, <1>3, <1>4 DEF Injection, Surjection, IsInjective
<1> HIDE DEF list, removed, n
<1>6. IsFiniteSet(1 .. n) /\ Cardinality(1 .. n) = n
    <2>1. /\ IsFiniteSet(1 .. n)
          /\ Cardinality(1 .. n) = IF 1 > n THEN 0 ELSE n - 1 + 1
        BY <1>1, FS_Interval
    <2> QED BY <1>1, <2>1
<1>7. Cardinality(removed) = n
    BY <1>5, <1>6, FS_Surjection
<1>8. retained \in SUBSET old
    BY DEF Retained
<1> HIDE DEF retained
<1>9. Cardinality(old \ retained) = Cardinality(old) - Cardinality(old \cap retained)
    BY FS_Difference
<1>10. old \cap retained = retained
    BY <1>8
<1>11. Cardinality(retained) \in Nat /\ Cardinality(old) \in Nat
    BY <1>8, FS_Subset, FS_CardinalityType
<1>12. n = Cardinality(old) - Cardinality(retained)
    BY <1>7, <1>9, <1>10 DEF removed
<1>13. Cardinality(retained) + n = Cardinality(old)
    BY <1>1, <1>11, <1>12
<1> QED BY <1>11, <1>13 DEF retained, n

(* One Commit that passes the checks, whatever roster it produces. *)
LEMMA CommitKeeps ==
    ASSUME IsFiniteSet(leaves), Canonical(leaves), NEW d,
           IsList(d.removals), IsList(d.additions),
           NEW proposed, Validated(leaves, d), ResultValid(leaves, d, proposed)
    PROVE  /\ IsFiniteSet(proposed) /\ Canonical(proposed)
           /\ \A leaf \in proposed : IsLeaf(leaf)
           /\ Cardinality(proposed) <= MaxLeaves
           /\ \A leaf \in leaves \ proposed : \E i \in DOMAIN d.removals : d.removals[i] = leaf
           /\ \A leaf \in proposed \ leaves :
                 \E i \in DOMAIN d.additions : d.additions[i].expected = Bind(leaf)
<1> DEFINE gone == Indices(d.removals)
           retained == Retained(leaves, gone)
<1>1. /\ IsFiniteSet(proposed) /\ Canonical(proposed) /\ \A leaf \in proposed : IsLeaf(leaf)
      /\ ExactDelta(leaves, proposed, gone, d.additions)
    BY DEF ResultValid
<1>2. RemovalsValid(leaves, d.removals) /\ Fits(leaves, d)
    BY DEF Validated
<1>3. /\ retained \subseteq proposed
      /\ \A leaf \in proposed \ retained :
            \E i \in DOMAIN d.additions : d.additions[i].expected = Bind(leaf)
      /\ Cardinality(proposed) = Cardinality(retained) + Len(d.additions)
    BY <1>1, DeltaShape
<1>4. /\ Cardinality(retained) + Len(d.removals) = Cardinality(leaves)
      /\ Cardinality(retained) \in Nat
    BY <1>2, RemovalsCounted
<1>5. Cardinality(proposed) <= MaxLeaves
    <2>1. Len(d.removals) \in Nat /\ Len(d.additions) \in Nat
        BY DEF IsList
    <2>2. ~(Len(d.removals) > Cardinality(leaves))
        BY <1>4, <2>1
    <2>3. Cardinality(leaves) - Len(d.removals) + Len(d.additions) <= MaxLeaves
        BY <1>2, <2>2 DEF Fits
    <2> QED BY <1>3, <1>4, <2>1, <2>3, RosterConstants
<1>6. ASSUME NEW leaf \in leaves \ proposed
      PROVE  \E i \in DOMAIN d.removals : d.removals[i] = leaf
    <2>1. leaf \notin retained /\ leaf \in leaves
        BY <1>3
    <2>2. PICK i \in DOMAIN d.removals : leaf.index = d.removals[i].index
        BY <2>1 DEF Retained, Indices
    <2>3. d.removals[i] \in leaves
        BY <1>2 DEF RemovalsValid
    <2> QED BY <2>1, <2>2, <2>3 DEF Canonical
<1>7. retained \subseteq leaves
    BY DEF Retained
<1> HIDE DEF retained
<1> QED BY <1>1, <1>3, <1>5, <1>6, <1>7

-----------------------------------------------------------------------------
(* The inductive invariant: a canonical, finite roster within the limit,   *)
(* and a decision made of lists.                                           *)
RosterInv ==
    /\ IsFiniteSet(leaves)
    /\ \A leaf \in leaves : IsLeaf(leaf)
    /\ Canonical(leaves)
    /\ WithinCapacity
    /\ IsList(decision.removals)
    /\ IsList(decision.additions)
    /\ \A i \in DOMAIN decision.additions : decision.additions[i] \in Additions

LEMMA InitRosterInv == Init => RosterInv
<1> SUFFICES ASSUME Init PROVE RosterInv
    OBVIOUS
<1>1. leaves = {Leaf(0, Founder)}
    BY DEF Init
<1>2. IsFiniteSet(leaves) /\ Cardinality(leaves) = 1
    BY <1>1, FS_Singleton
<1>3. Canonical(leaves)
    BY <1>1 DEF Canonical
<1>4. 1 <= MaxLeaves /\ IsLeaf(Leaf(0, Founder))
    BY RosterConstants DEF IsLeaf, Leaf, Bind
<1>5. IsList(<<>>)
    BY DEF IsList
<1> QED BY <1>2, <1>3, <1>4, <1>5 DEF Init, None, RosterInv, WithinCapacity

(* Every step keeps the invariant. *)
LEMMA NextRosterInv == RosterInv /\ [Next]_vars => RosterInv'
<1> SUFFICES ASSUME RosterInv, [Next]_vars PROVE RosterInv'
    OBVIOUS
<1>1. CASE Decide
    <2>1. PICK removals \in Lists(leaves), additions \in Lists(Additions) :
             decision' = [removals |-> removals, additions |-> additions]
        BY <1>1 DEF Decide
    <2>2. IsList(removals) /\ IsList(additions) /\ \A i \in DOMAIN additions : additions[i] \in Additions
        BY ListsAreLists
    <2> QED BY <1>1, <2>1, <2>2 DEF Decide, RosterInv, WithinCapacity
<1>2. CASE CommitDecision
    <2>1. Validated(leaves, decision) /\ ResultValid(leaves, decision, leaves')
        BY <1>2 DEF CommitDecision
    <2>2. /\ IsFiniteSet(leaves') /\ Canonical(leaves') /\ Cardinality(leaves') <= MaxLeaves
          /\ \A leaf \in leaves' : IsLeaf(leaf)
        BY <2>1, CommitKeeps DEF RosterInv
    <2> QED BY <1>2, <2>2 DEF CommitDecision, RosterInv, WithinCapacity
<1>3. CASE OtherCommit
    <2>1. PICK removals \in Lists(leaves), additions \in Lists(Additions) :
             LET d == [removals |-> removals, additions |-> additions]
             IN  Validated(leaves, d) /\ ResultValid(leaves, d, leaves')
        BY <1>3 DEF OtherCommit
    <2>2. IsList(removals) /\ IsList(additions)
        BY ListsAreLists
    <2> DEFINE d == [removals |-> removals, additions |-> additions]
    <2>3. Validated(leaves, d) /\ ResultValid(leaves, d, leaves')
        BY <2>1
    <2>4. IsList(d.removals) /\ IsList(d.additions)
        BY <2>2
    <2> HIDE DEF d
    <2>5. /\ IsFiniteSet(leaves') /\ Canonical(leaves') /\ Cardinality(leaves') <= MaxLeaves
          /\ \A leaf \in leaves' : IsLeaf(leaf)
        BY <2>3, <2>4, CommitKeeps DEF RosterInv
    <2> QED BY <1>3, <2>5 DEF OtherCommit, RosterInv, WithinCapacity
<1>4. CASE SelfUpdate
    BY <1>4 DEF SelfUpdate, RosterInv, WithinCapacity
<1>5. CASE UNCHANGED vars
    BY <1>5 DEF vars, RosterInv, WithinCapacity
<1> QED BY <1>1, <1>2, <1>3, <1>4, <1>5 DEF Next

-----------------------------------------------------------------------------
(* Which results validate_exact_delta accepts *)

(* The legal result that gives addition i the index p[i]. *)
PlacedAt(roster, d, p) ==
    Retained(roster, Indices(d.removals))
        \cup {Leaf(p[i], d.additions[i].expected) : i \in DOMAIN p}

(* The places it may give them: new ones, each once. *)
IsPlacement(roster, d, p) ==
    /\ p \in [DOMAIN d.additions -> 0 .. MaxLeaves \cup {leaf.index : leaf \in roster}]
    /\ \A i, j \in DOMAIN p : p[i] = p[j] => i = j
    /\ \A i \in DOMAIN p, leaf \in Retained(roster, Indices(d.removals)) : leaf.index # p[i]

LEMMA PlacementsAreAll ==
    ASSUME NEW roster, NEW d, NEW r
    PROVE  r \in AllPlacements(roster, d) <=>
                \E p : IsPlacement(roster, d, p) /\ r = PlacedAt(roster, d, p)
    BY DEF AllPlacements, IsPlacement, PlacedAt

(* A legal result passes the checks on the roster and validate_exact_delta. *)
LEMMA PlacementAccepted ==
    ASSUME RosterInv, Validated(leaves, decision), NEW p, IsPlacement(leaves, decision, p)
    PROVE  LET r == PlacedAt(leaves, decision, p)
           IN  /\ IsFiniteSet(r) /\ Canonical(r) /\ \A leaf \in r : IsLeaf(leaf)
               /\ ExactDelta(leaves, r, Indices(decision.removals), decision.additions)
<1> DEFINE adds == decision.additions
           gone == Indices(decision.removals)
           retained == Retained(leaves, gone)
           at == [i \in DOMAIN adds |-> Leaf(p[i], adds[i].expected)]
           added == {at[i] : i \in DOMAIN adds}
           r == PlacedAt(leaves, decision, p)
           fresh == {leaf \in r : \A old \in retained : old.index # leaf.index}
<1>1. /\ DOMAIN p = DOMAIN adds
      /\ \A i, j \in DOMAIN adds : p[i] = p[j] => i = j
      /\ \A i \in DOMAIN adds, leaf \in retained : leaf.index # p[i]
    BY DEF IsPlacement
<1>2. r = retained \cup added
    BY <1>1 DEF PlacedAt
<1>3. AdditionsValid(leaves, gone, adds)
    BY DEF Validated
<1>4. ASSUME NEW i \in DOMAIN adds
      PROVE  /\ at[i].index = p[i]
             /\ at[i].identity = adds[i].expected.identity
             /\ at[i].key = adds[i].expected.key
             /\ Bind(at[i]) = adds[i].expected
             /\ IsLeaf(at[i])
  <2>1. adds[i].expected \in Bindings
    BY RosterConstants DEF RosterInv
  <2>2. adds[i].expected = [identity |-> adds[i].expected.identity, key |-> adds[i].expected.key]
    BY <2>1, RosterConstants
  <2> QED BY <2>2 DEF Leaf, Bind, IsLeaf
<1> HIDE DEF at, adds, gone, r
<1>5. Canonical(r)
  <2>1. \A a, b \in retained :
            a.index = b.index \/ a.identity = b.identity \/ a.key = b.key => a = b
    BY DEF RosterInv, Canonical, Retained
  <2>2. \A i, j \in DOMAIN adds :
            \/ at[i].index = at[j].index
            \/ at[i].identity = at[j].identity
            \/ at[i].key = at[j].key
            => at[i] = at[j]
    BY <1>1, <1>3, <1>4 DEF AdditionsValid
  <2>3. \A i \in DOMAIN adds, leaf \in retained :
            /\ leaf.index # at[i].index
            /\ leaf.identity # at[i].identity
            /\ leaf.key # at[i].key
    BY <1>1, <1>3, <1>4 DEF AdditionsValid
  <2> QED BY <1>2, <2>1, <2>2, <2>3 DEF Canonical
<1>6. fresh = added
    BY <1>1, <1>2, <1>4
<1>7. ASSUME NEW i \in DOMAIN adds PROVE MatchingAdditions(at[i], adds) = {i}
    BY <1>3, <1>4 DEF MatchingAdditions, AdditionsValid
<1>8. IsFiniteSet(DOMAIN adds) /\ Cardinality(DOMAIN adds) = Len(adds) /\ Len(adds) \in Nat
  <2>1. Len(adds) \in Nat /\ DOMAIN adds = 1 .. Len(adds)
    BY DEF RosterInv, IsList, adds
  <2>2. /\ IsFiniteSet(1 .. Len(adds))
        /\ Cardinality(1 .. Len(adds)) = IF 1 > Len(adds) THEN 0 ELSE Len(adds) - 1 + 1
    BY <2>1, FS_Interval
  <2> QED BY <2>1, <2>2
<1>9. IsFiniteSet(added) /\ Cardinality(added) = Len(adds)
  <2>1. DOMAIN at = DOMAIN adds
    BY DEF at
  <2>2. at \in Surjection(DOMAIN adds, added) /\ at \in Injection(DOMAIN adds, added)
    <3>1. at \in [DOMAIN adds -> added]
        BY DEF at
    <3>2. \A i, j \in DOMAIN adds : at[i] = at[j] => i = j
        BY <1>1, <1>4
    <3> QED BY <2>1, <3>1, <3>2 DEF Surjection, Injection, IsInjective
  <2> HIDE DEF added
  <2> QED BY <1>8, <2>2, FS_Surjection
<1>10. IsFiniteSet(retained)
  <2>1. retained \in SUBSET leaves
    BY DEF Retained
  <2> QED BY <2>1, FS_Subset DEF RosterInv
<1>11. IsFiniteSet(r) /\ Cardinality(r) = Cardinality(retained) + Len(adds)
  <2>1. retained \cap added = {}
    BY <1>1, <1>4
  <2> HIDE DEF retained, added
  <2>2. /\ IsFiniteSet(retained \cup added)
        /\ Cardinality(retained \cup added) =
               Cardinality(retained) + Cardinality(added) - Cardinality(retained \cap added)
    BY <1>9, <1>10, FS_Union
  <2>3. Cardinality(retained) \in Nat /\ Cardinality(added) \in Nat
    BY <1>9, <1>10, FS_CardinalityType
  <2>4. Cardinality(retained \cap added) = 0
    BY <2>1, FS_EmptySet
  <2> QED BY <1>2, <1>9, <2>2, <2>3, <2>4
<1>12. \A leaf \in r : IsLeaf(leaf)
    BY <1>2, <1>4 DEF RosterInv, Retained
<1>13. ExactDelta(leaves, r, gone, adds)
  <2>1. r \ fresh \subseteq retained
    BY <1>2, <1>6
  <2>2. ASSUME NEW leaf \in fresh PROVE Cardinality(MatchingAdditions(leaf, adds)) = 1
    <3>1. PICK i \in DOMAIN adds : leaf = at[i]
        BY <1>6
    <3>2. MatchingAdditions(leaf, adds) = {i}
        BY <1>7, <3>1
    <3> QED BY <3>2, FS_Singleton
  <2>3. \A a, b \in fresh :
            MatchingAdditions(a, adds) = MatchingAdditions(b, adds) => a = b
    BY <1>6, <1>7
  <2>4. \A i \in DOMAIN adds : \E leaf \in fresh : i \in MatchingAdditions(leaf, adds)
    BY <1>6, <1>7
  <2> QED BY <1>11, <2>1, <2>2, <2>3, <2>4 DEF ExactDelta
<1> QED BY <1>5, <1>11, <1>12, <1>13 DEF r, adds, gone

(* What validate_exact_delta accepts of canonical rosters is a legal result. *)
LEMMA AcceptedIsPlacement ==
    ASSUME RosterInv, Validated(leaves, decision),
           NEW r, IsFiniteSet(r), Canonical(r),
           \A leaf \in r :
                IsLeaf(leaf) /\ leaf.index \in 0 .. MaxLeaves \cup {l.index : l \in leaves},
           ExactDelta(leaves, r, Indices(decision.removals), decision.additions)
    PROVE  r \in AllPlacements(leaves, decision)
<1> DEFINE adds == decision.additions
           gone == Indices(decision.removals)
           retained == Retained(leaves, gone)
           fresh == {leaf \in r : \A old \in retained : old.index # leaf.index}
           of(i) == CHOOSE leaf \in fresh : i \in MatchingAdditions(leaf, adds)
           p == [i \in DOMAIN adds |-> of(i).index]
<1>1. /\ r \ fresh \subseteq retained
      /\ \A leaf \in fresh : Cardinality(MatchingAdditions(leaf, adds)) = 1
      /\ \A i \in DOMAIN adds : \E leaf \in fresh : i \in MatchingAdditions(leaf, adds)
    BY DEF ExactDelta
<1>2. retained \subseteq r
    BY DeltaShape DEF RosterInv
<1>3. AdditionsValid(leaves, gone, adds)
    BY DEF Validated
<1>4. ASSUME NEW i \in DOMAIN adds
      PROVE  of(i) \in fresh /\ adds[i].expected = Bind(of(i))
    BY <1>1 DEF MatchingAdditions
<1>5. ASSUME NEW i \in DOMAIN adds
      PROVE  of(i) = Leaf(p[i], adds[i].expected) /\ of(i) \in r
  <2>1. of(i) \in fresh /\ adds[i].expected = Bind(of(i))
    BY <1>4
  <2> HIDE DEF of
  <2> QED BY <2>1 DEF IsLeaf
<1>6. ASSUME NEW leaf \in fresh PROVE \E i \in DOMAIN adds : leaf = of(i)
  <2>0. Cardinality({}) = 0
    BY FS_EmptySet
  <2>1. MatchingAdditions(leaf, adds) # {}
    <3>1. Cardinality(MatchingAdditions(leaf, adds)) = 1
        BY <1>1
    <3> QED BY <2>0, <3>1
  <2>2. PICK i \in DOMAIN adds : adds[i].expected = Bind(leaf)
    BY <2>1 DEF MatchingAdditions
  <2>3. Bind(of(i)) = Bind(leaf) /\ of(i) \in r
    BY <1>4, <2>2
  <2> HIDE DEF of
  <2>4. of(i).identity = leaf.identity
    BY <2>3 DEF Bind
  <2> QED BY <2>3, <2>4 DEF Canonical
<1>7. IsPlacement(leaves, decision, p)
  <2>1. p \in [DOMAIN adds -> 0 .. MaxLeaves \cup {leaf.index : leaf \in leaves}]
    BY <1>5
  <2>2. ASSUME NEW i \in DOMAIN adds, NEW j \in DOMAIN adds, p[i] = p[j] PROVE i = j
    <3>1. of(i) = of(j)
        BY <1>5, <2>2 DEF Canonical
    <3>2. adds[i].expected = adds[j].expected
        BY <1>4, <3>1
    <3> QED BY <1>3, <3>2 DEF AdditionsValid
  <2>3. \A i \in DOMAIN adds, leaf \in retained : leaf.index # p[i]
    BY <1>4
  <2> HIDE DEF of
  <2> QED BY <2>1, <2>2, <2>3 DEF IsPlacement
<1>8. r = PlacedAt(leaves, decision, p)
  <2>1. r = retained \cup fresh
    BY <1>1, <1>2
  <2>2. fresh = {of(i) : i \in DOMAIN adds}
    <3> HIDE DEF of, fresh
    <3> QED BY <1>4, <1>6
  <2>3. {of(i) : i \in DOMAIN adds} = {Leaf(p[i], adds[i].expected) : i \in DOMAIN adds}
    BY <1>5
  <2> HIDE DEF of, fresh
  <2>4. DOMAIN p = DOMAIN adds
    OBVIOUS
  <2> HIDE DEF p
  <2> QED BY <2>1, <2>2, <2>3, <2>4 DEF PlacedAt
<1> QED BY <1>7, <1>8, PlacementsAreAll

(* A roster a faulty tree could show is finite and made of leaves. *)
LEMMA CandidatesShaped ==
    ASSUME RosterInv, Validated(leaves, decision), NEW r \in Candidates(leaves, decision)
    PROVE  /\ IsFiniteSet(r)
           /\ \A leaf \in r :
                IsLeaf(leaf) /\ leaf.index \in 0 .. MaxLeaves \cup {l.index : l \in leaves}
<1> DEFINE indices == 0 .. MaxLeaves \cup {l.index : l \in leaves}
           Shaped(s) == IsFiniteSet(s) /\ \A leaf \in s : IsLeaf(leaf) /\ leaf.index \in indices
           one == [index : 0 .. MaxLeaves, identity : {b.identity : b \in Bindings},
                   key : {b.key : b \in Bindings}]
           legal == AllPlacements(leaves, decision) \cup {leaves}
<1>1. Shaped(leaves)
    BY DEF RosterInv
<1>2. ASSUME NEW s \in AllPlacements(leaves, decision) PROVE Shaped(s)
  <2>1. PICK p : IsPlacement(leaves, decision, p) /\ s = PlacedAt(leaves, decision, p)
    BY PlacementsAreAll
  <2>2. IsFiniteSet(s) /\ \A leaf \in s : IsLeaf(leaf)
    BY <2>1, PlacementAccepted
  <2>3. \A leaf \in s : leaf.index \in indices
    BY <2>1 DEF PlacedAt, IsPlacement, Retained, Leaf
  <2> QED BY <2>2, <2>3
<1>3. ASSUME NEW leaf \in one PROVE IsLeaf(leaf) /\ leaf.index \in indices
    BY DEF IsLeaf, Leaf, Bind
<1>4. PICK s \in legal : \/ r = s
                         \/ \E leaf \in one : r = s \cup {leaf}
                         \/ \E leaf \in leaves : r = s \ {leaf}
  <2> DEFINE With(s, extra) == s \cup {extra}
             Without(s, lost) == s \ {lost}
             more == {With(s, extra) : s \in legal, extra \in one}
             less == {Without(s, lost) : s \in legal, lost \in leaves}
  <2>1. r \in legal \cup more \cup less
    BY DEF Candidates
  <2>2. CASE r \in legal
    BY <2>2
  <2>3. CASE r \in more
    <3> HIDE DEF legal, one, With
    <3>1. PICK s \in legal, extra \in one : r = With(s, extra)
        BY <2>3
    <3> QED BY <3>1 DEF With
  <2>4. CASE r \in less
    <3> HIDE DEF legal, one, Without
    <3>1. PICK s \in legal, lost \in leaves : r = Without(s, lost)
        BY <2>4
    <3> QED BY <3>1 DEF Without
  <2> HIDE DEF more, less
  <2> QED BY <2>1, <2>2, <2>3, <2>4
<1>5. Shaped(s)
    BY <1>1, <1>2
<1> HIDE DEF one, indices
<1>6. CASE r = s
    BY <1>5, <1>6 DEF indices
<1>7. ASSUME NEW leaf \in one, r = s \cup {leaf} PROVE Shaped(r)
  <2>1. IsFiniteSet(r)
    BY <1>5, <1>7, FS_AddElement
  <2> QED BY <1>3, <1>5, <1>7, <2>1
<1>8. ASSUME NEW leaf \in leaves, r = s \ {leaf} PROVE Shaped(r)
  <2>1. IsFiniteSet(r)
    BY <1>5, <1>8, FS_RemoveElement
  <2> QED BY <1>5, <1>8, <2>1
<1> QED BY <1>4, <1>6, <1>7, <1>8 DEF indices

(* For every roster within the limit and every decision the lists' checks  *)
(* let through, validate_exact_delta and the checks of roster_from_group   *)
(* accept exactly the legal results: nothing lost, moved, rebound or added *)
(* beside the decision, and no legal placement refused.                    *)
THEOREM DeltaAlwaysExact == Spec => []DeltaIsExact
<1>1. RosterInv => DeltaIsExact
  <2> SUFFICES ASSUME RosterInv, Validated(leaves, decision)
               PROVE  {r \in Candidates(leaves, decision) :
                          /\ {leaf.index : leaf \in r} # {}
                          /\ Canonical(r)
                          /\ ExactDelta(leaves, r, Indices(decision.removals),
                                        decision.additions)}
                        = AllPlacements(leaves, decision) \ {{}}
    BY DEF DeltaIsExact
  <2>1. ASSUME NEW r \in Candidates(leaves, decision), Canonical(r),
               ExactDelta(leaves, r, Indices(decision.removals), decision.additions)
        PROVE  r \in AllPlacements(leaves, decision)
    BY <2>1, CandidatesShaped, AcceptedIsPlacement
  <2>2. ASSUME NEW r \in AllPlacements(leaves, decision)
        PROVE  /\ r \in Candidates(leaves, decision)
               /\ Canonical(r)
               /\ ExactDelta(leaves, r, Indices(decision.removals), decision.additions)
    <3>1. PICK p : IsPlacement(leaves, decision, p) /\ r = PlacedAt(leaves, decision, p)
        BY PlacementsAreAll
    <3> QED BY <3>1, PlacementAccepted DEF Candidates
  <2>3. \A r : {leaf.index : leaf \in r} = {} <=> r = {}
    OBVIOUS
  <2> QED BY <2>1, <2>2, <2>3, Zenon
<1> QED BY <1>1, InitRosterInv, NextRosterInv, PTL DEF Spec

-----------------------------------------------------------------------------
(* No sequence of decisions, fresh or stale, makes a roster larger than    *)
(* the limit prepare computes from the lengths of the caller's lists.      *)
THEOREM CapacityKept == Spec => []WithinCapacity
<1>1. RosterInv => WithinCapacity
    BY DEF RosterInv
<1> QED BY <1>1, InitRosterInv, NextRosterInv, PTL DEF Spec

(* A decision executed at any later time removes only leaves it names by   *)
(* index, identity and key, and adds only bindings it expects.             *)
THEOREM DecisionsHonoured == Spec => OnlyAsDecided
<1> DEFINE Honoured ==
        epoch' # epoch /\ leaves' # leaves /\ CommitDecision =>
            /\ \A leaf \in leaves \ leaves' :
                  \E i \in DOMAIN decision.removals : decision.removals[i] = leaf
            /\ \A leaf \in leaves' \ leaves :
                  \E i \in DOMAIN decision.additions : decision.additions[i].expected = Bind(leaf)
<1>1. RosterInv /\ [Next]_vars => [Honoured]_vars
    <2> SUFFICES ASSUME RosterInv, CommitDecision PROVE Honoured
        OBVIOUS
    <2>1. Validated(leaves, decision) /\ ResultValid(leaves, decision, leaves')
        BY DEF CommitDecision
    <2> QED BY <2>1, CommitKeeps DEF RosterInv
<1>2. OnlyAsDecided <=> [][Honoured]_vars
    BY DEF OnlyAsDecided
<1> HIDE DEF Honoured
<1> QED BY <1>1, <1>2, InitRosterInv, NextRosterInv, PTL DEF Spec
=============================================================================
