--------------------------- MODULE PublicValidator ---------------------------
(***************************************************************************)
(* The public validator of rust/src/external_resync/public.rs: what can be *)
(* checked of a published GroupInfo, and of an external Commit with the    *)
(* GroupInfo its author claims for the next epoch, without any secret.     *)
(*                                                                         *)
(* A group state is what every member agrees on in an epoch.  `ctx` is the *)
(* sequence of the Commits that led there: it stands for the tree, the     *)
(* group context and the confirmation tag, which differ after different    *)
(* Commits even when the rosters are equal.  A GroupInfo is a state with   *)
(* the index of the leaf that signed it; the hash of an artefact is the    *)
(* artefact.  Refusals are not told apart: none returns a result.  The     *)
(* vendored OpenMLS (PublicGroup) is modelled by what public.rs relies on. *)
(***************************************************************************)
EXTENDS RosterAuthority

CONSTANT Forever   \* later than any time: the lifetime of a Commit's leaf

States(group, epoch, leaves, until, ctx) ==
    [group |-> group, epoch |-> epoch, leaves |-> leaves, until |-> until, ctx |-> ctx]

StateOf(info) == States(info.group, info.epoch, info.leaves, info.until, info.ctx)

SignedBy(state, index) ==
    [group |-> state.group, epoch |-> state.epoch, leaves |-> state.leaves,
     until |-> state.until, ctx |-> state.ctx, signer |-> index]

LeavesAt(leaves, index) == {leaf \in leaves : leaf.index = index}

(* MlsExpectedRosterStateV1: the digest is the roster it is taken of. *)
RosterState(state) == [group |-> state.group, epoch |-> state.epoch, leaves |-> state.leaves]

-----------------------------------------------------------------------------
(* External Commits *)

Init0 == [kind |-> "init", index |-> 0, inline |-> TRUE]
Removing(index) == [kind |-> "remove", index |-> index, inline |-> TRUE]

(* The proposals of a kind, by position. *)
OfKind(commit, kind) ==
    {i \in DOMAIN commit.proposals : commit.proposals[i].kind = kind}

(* preflight::external_commit, the parts of the shape that say what the    *)
(* Commit does: public, by a new member, with AAD, and with one inline     *)
(* ExternalInit and one inline Remove.  ExternalShapes has the bounds.     *)
ShapeAccepted(commit) ==
    /\ commit.sender = "new_member"
    /\ commit.aad # ""
    /\ \A i \in DOMAIN commit.proposals :
          /\ commit.proposals[i].inline
          /\ commit.proposals[i].kind \in {"init", "remove"}
    /\ Cardinality(OfKind(commit, "init")) = 1
    /\ Cardinality(OfKind(commit, "remove")) = 1

RemovedBy(commit) == {commit.proposals[i].index : i \in OfKind(commit, "remove")}

(* PublicGroup::process_message and merge_commit: the Commit is signed for *)
(* this very state; the new leaf takes the leftmost index free after the   *)
(* removals and has no lifetime.                                           *)
Processes(state, commit) ==
    /\ commit.group = state.group
    /\ commit.epoch = state.epoch
    /\ commit.base = state.ctx
    /\ Cardinality(OfKind(commit, "init")) = 1
    /\ \A i \in RemovedBy(commit) : LeavesAt(state.leaves, i) # {}
    /\ \A leaf \in Retained(state.leaves, RemovedBy(commit)) : leaf.key # commit.leaf.key

(* The widths of full trees: public.rs refuses a leaf beyond MAX_LEAVES.   *)
TreeWidths == {1, 2, 4, 8, 16, 32, 64, 128, 256}

(* The width of the least full tree that holds the leaves. *)
TreeWidth(leaves) ==
    CHOOSE s \in TreeWidths :
        /\ \A leaf \in leaves : leaf.index < s
        /\ s > 1 => \E leaf \in leaves : 2 * leaf.index >= s

(* The tree is trimmed before the new leaf is added.  If it has to grow    *)
(* again, the removed leaves beyond the new one are read from the tree     *)
(* before the Commit: they come back (RatchetTree!Shrink).                 *)
Process(state, commit) ==
    LET kept == Retained(state.leaves, RemovedBy(commit))
        own == LeftmostBlank(kept)
        returning == {leaf \in state.leaves \ kept :
                         own = TreeWidth(kept) /\ leaf.index \in own + 1 .. 2 * own - 1}
    IN  [group |-> state.group,
         epoch |-> state.epoch + 1,
         leaves |-> kept \cup returning \cup {Leaf(own, commit.leaf)},
         until |-> [state.until EXCEPT ![own] = Forever],
         ctx |-> Append(state.ctx, commit)]

-----------------------------------------------------------------------------
(* Snapshots *)

(* public::load: PublicGroup::from_external verifies the signature of an   *)
(* occupied leaf and the lifetime of each leaf that came from a            *)
(* KeyPackage; roster() refuses a repeated identity or key.                *)
Loads(info, hash, now) ==
    /\ info = hash
    /\ LeavesAt(info.leaves, info.signer) # {}
    /\ \A leaf \in info.leaves : info.until[leaf.index] >= now
    /\ Canonical(info.leaves)

(* public::snapshot_inner. *)
SnapshotVerified(r, now) ==
    /\ Loads(r.info, r.hash, now)
    /\ RosterState(r.info) = r.expected
    /\ LeavesAt(r.info.leaves, r.info.signer) = {r.signer}

(* An honest caller's request: the frozen state and signer of `info`. *)
SnapshotRequest(info) ==
    [info |-> info, hash |-> info, expected |-> RosterState(info),
     signer |-> CHOOSE leaf \in info.leaves : leaf.index = info.signer]

-----------------------------------------------------------------------------
(* Successors *)

(* Mutant: the removed leaf's own identity counts as taken. *)
FreshBindingStrict(leaves, old, bind) ==
    \A leaf \in leaves : leaf.key # bind.key /\ leaf.identity # bind.identity

(* The new binding against the previous roster (public.rs, and again in    *)
(* external.rs prepare): the key is new to the group; the identity may be  *)
(* that of the leaf it replaces and of no other.                           *)
FreshBinding(leaves, old, bind) ==
    \A leaf \in leaves :
        /\ leaf.key # bind.key
        /\ leaf # old => leaf.identity # bind.identity

(* The staged proposals of the Commit: one ExternalInit, and one Remove of *)
(* the authorized leaf, all by value.                                      *)
ProposalsExact(commit, old) ==
    /\ \A i \in DOMAIN commit.proposals :
          /\ commit.proposals[i].inline
          /\ \/ commit.proposals[i].kind = "init"
             \/ commit.proposals[i] = Removing(old.index)
    /\ Cardinality(OfKind(commit, "init")) = 1
    /\ Cardinality(OfKind(commit, "remove")) = 1

(* The change of roster public.rs accepts of the derived state. *)
DeltaVerified(previous, derived, old, bind) ==
    /\ derived.epoch = previous.epoch + 1
    /\ Cardinality(derived.leaves) = Cardinality(previous.leaves)
    /\ previous.leaves \ {old} \subseteq derived.leaves
    /\ old \notin derived.leaves
    /\ \E leaf \in derived.leaves : Bind(leaf) = bind

(* Mutant: the reported GroupInfo is compared by its roster only. *)
ReportMatchesRoster(derived, next, bind) ==
    /\ RosterState(next) = RosterState(derived)
    /\ \E leaf \in derived.leaves :
          Bind(leaf) = bind /\ LeavesAt(next.leaves, next.signer) = {leaf}

(* The reported GroupInfo is that of the derived state, signed by the      *)
(* author's new leaf.                                                      *)
ReportMatches(derived, next, bind) ==
    /\ StateOf(next) = derived
    /\ \E leaf \in derived.leaves :
          Bind(leaf) = bind /\ LeavesAt(next.leaves, next.signer) = {leaf}

(* public::successor_inner, in its order: the base, then the Commit on it, *)
(* then the result it derives against the one that is reported.            *)
CommitVerified(r) ==
    /\ r.old \in r.base.info.leaves
    /\ FreshBinding(r.base.info.leaves, r.old, r.bind)
    /\ ShapeAccepted(r.commit)
    /\ r.commit = r.commitHash
    /\ Processes(StateOf(r.base.info), r.commit)
    /\ r.commit.aad = r.aad
    /\ r.commit.leaf = r.bind
    /\ ProposalsExact(r.commit, r.old)

ResultVerified(r, now) ==
    LET derived == Process(StateOf(r.base.info), r.commit)
    IN  /\ Canonical(derived.leaves)
        /\ DeltaVerified(r.base.info, derived, r.old, r.bind)
        /\ Loads(r.next, r.nextHash, now)
        /\ ReportMatches(derived, r.next, r.bind)

SuccessorVerified(r, now) ==
    /\ SnapshotVerified(r.base, now)
    /\ CommitVerified(r)
    /\ ResultVerified(r, now)
=============================================================================
