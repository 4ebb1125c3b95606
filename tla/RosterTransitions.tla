-------------------------- MODULE RosterTransitions --------------------------
(***************************************************************************)
(* The roster of one group under the decisions of its owners.  A decision  *)
(* authorises removals, by the leaves the owner sees, and additions, by    *)
(* the identity and key it expects of a KeyPackage.  It is executed later, *)
(* perhaps again, by any member, after other Commits have moved leaves and *)
(* reused their indices: `runtime::prepare` must then still do what was    *)
(* decided or refuse.  Accepting the Commit and merging it everywhere is   *)
(* GroupSystem's subject; here a prepared Commit takes effect at once.     *)
(***************************************************************************)
EXTENDS RosterAuthority

CONSTANTS
    Bindings,   \* [identity, key] pairs an installation may present
    Founder,    \* the binding of the group's creator
    Additions,  \* the additions an owner may decide on: [expected, package]
    MaxList,    \* bound on the removals and on the additions of a decision
    MaxLeaves,  \* the roster limit (256 in the code)
    MaxEpoch    \* u64::MAX in the code

ASSUME RosterConstants ==
    /\ \A b \in Bindings : b = [identity |-> b.identity, key |-> b.key]
    /\ Founder \in Bindings
    /\ Additions \subseteq [expected : Bindings, package : Bindings]
    /\ MaxList \in Nat
    /\ MaxLeaves \in Nat \ {0}
    /\ MaxEpoch \in Nat

VARIABLES
    leaves,    \* the roster authenticated by the group's current epoch
    epoch,     \* that epoch
    decision   \* the decision in hand: [removals, additions]

vars == <<leaves, epoch, decision>>

Lists(S) == UNION {[1 .. n -> S] : n \in 0 .. MaxList}

None == [removals |-> <<>>, additions |-> <<>>]

(* create: one leaf, that of the expected owner. *)
Init ==
    /\ leaves = {Leaf(0, Founder)}
    /\ epoch = 0
    /\ decision = None

(* An owner decides on the roster it sees.  The list it sends is its own:  *)
(* a leaf may occur twice in it.                                           *)
Decide ==
    /\ \E removals \in Lists(leaves), additions \in Lists(Additions) :
          decision' = [removals |-> removals, additions |-> additions]
    /\ UNCHANGED <<leaves, epoch>>

(* The roster limit, from the lengths of the lists (saturating_sub). *)
Fits(roster, d) ==
    LET kept == IF Len(d.removals) > Cardinality(roster) THEN 0
                ELSE Cardinality(roster) - Len(d.removals)
    IN  kept + Len(d.additions) <= MaxLeaves

(* What `prepare` checks of the lists before it builds the Commit. *)
Validated(roster, d) ==
    /\ Fits(roster, d)
    /\ RemovalsValid(roster, d.removals)
    /\ AdditionsValid(roster, Indices(d.removals), d.additions)
    /\ d.removals # <<>> \/ d.additions # <<>>

(* What it checks of the roster the merged preview shows, a vector of      *)
(* leaves that roster_from_group collects.                                 *)
ResultValid(roster, d, proposed) ==
    /\ IsFiniteSet(proposed) /\ \A leaf \in proposed : IsLeaf(leaf)
    /\ Canonical(proposed)
    /\ ExactDelta(roster, proposed, Indices(d.removals), d.additions)
    /\ epoch < MaxEpoch

(* A member that is not removed itself prepares the Commit (OpenMLS        *)
(* refuses a committer that removes itself).  The decision stays in hand:  *)
(* the caller may retry it.                                                *)
CommitDecision ==
    /\ Validated(leaves, decision)
    /\ Retained(leaves, Indices(decision.removals)) # {}
    /\ LET proposed == Placed(leaves, Indices(decision.removals), decision.additions)
       IN  /\ ResultValid(leaves, decision, proposed)
           /\ leaves' = proposed
    /\ epoch' = epoch + 1
    /\ UNCHANGED decision

(* Meanwhile another member executes a decision made on the current        *)
(* roster.                                                                 *)
OtherCommit ==
    \E removals \in Lists(leaves), additions \in Lists(Additions) :
        LET d == [removals |-> removals, additions |-> additions]
            proposed == Placed(leaves, Indices(removals), additions)
        IN  /\ Validated(leaves, d)
            /\ Retained(leaves, Indices(removals)) # {}
            /\ ResultValid(leaves, d, proposed)
            /\ leaves' = proposed
            /\ epoch' = epoch + 1
            /\ UNCHANGED decision

(* A self-update: validate_self_authority finds the expected leaf, and the *)
(* proposed leaves are the previous ones.                                  *)
SelfUpdate ==
    /\ epoch < MaxEpoch
    /\ epoch' = epoch + 1
    /\ UNCHANGED <<leaves, decision>>

Next == Decide \/ CommitDecision \/ OtherCommit \/ SelfUpdate

Spec == Init /\ [][Next]_vars

-----------------------------------------------------------------------------
LeafType == [index : 0 .. MaxLeaves - 1, identity : {b.identity : b \in Bindings},
             key : {b.key : b \in Bindings}]

(* The roster is a set of leaves in which every index, identity and key    *)
(* occurs once, at the epoch it belongs to; the decision is well formed.   *)
TypeOK ==
    /\ leaves \subseteq LeafType
    /\ Canonical(leaves)
    /\ epoch \in 0 .. MaxEpoch
    /\ DOMAIN decision = {"removals", "additions"}
    /\ decision.removals \in Seq(LeafType) /\ Len(decision.removals) <= MaxList
    /\ decision.additions \in Seq(Additions) /\ Len(decision.additions) <= MaxList

(* A list that repeats a removal, or removes a leaf that another Commit    *)
(* has removed, never lets the group outgrow the roster limit `prepare`    *)
(* computes from the lengths of the lists.                                 *)
WithinCapacity == Cardinality(leaves) <= MaxLeaves

(* Reference: the result keeps every retained leaf where it was and gives  *)
(* each addition one leaf of its own at an index nobody holds.             *)
AllPlacements(roster, d) ==
    LET retained == Retained(roster, Indices(d.removals))
        indices == 0 .. MaxLeaves \cup {leaf.index : leaf \in roster}
        places == {p \in [DOMAIN d.additions -> indices] :
                      /\ \A i, j \in DOMAIN p : p[i] = p[j] => i = j
                      /\ \A i \in DOMAIN p, leaf \in retained : leaf.index # p[i]}
    IN  {retained \cup {Leaf(p[i], d.additions[i].expected) : i \in DOMAIN p} : p \in places}

(* The rosters a faulty tree could show for the decision in hand: one      *)
(* leaf of a legal one lost, added or rebound.                             *)
Candidates(roster, d) ==
    LET one == [index : 0 .. MaxLeaves, identity : {b.identity : b \in Bindings},
                key : {b.key : b \in Bindings}]
        legal == AllPlacements(roster, d) \cup {roster}
    IN  legal \cup {r \cup {leaf} : r \in legal, leaf \in one}
              \cup {r \ {leaf} : r \in legal, leaf \in roster}

(* validate_exact_delta accepts a roster exactly when it is a legal result *)
(* of the decision, for every decision the lists' checks let through.      *)
DeltaIsExact ==
    Validated(leaves, decision) =>
        {r \in Candidates(leaves, decision) :
            {leaf.index : leaf \in r} # {} /\ Canonical(r)
                /\ ExactDelta(leaves, r, Indices(decision.removals), decision.additions)}
        = AllPlacements(leaves, decision) \ {{}}

(* However stale the decision, a leaf that leaves the roster when it is    *)
(* executed is the very leaf, index, identity and key, the owner decided   *)
(* to remove, and a binding that appears is one it decided to add.         *)
OnlyAsDecided ==
    [][epoch' # epoch /\ leaves' # leaves /\ CommitDecision =>
          /\ \A leaf \in leaves \ leaves' :
                \E i \in DOMAIN decision.removals : decision.removals[i] = leaf
          /\ \A leaf \in leaves' \ leaves :
                \E i \in DOMAIN decision.additions : decision.additions[i].expected = Bind(leaf)]_vars
=============================================================================
