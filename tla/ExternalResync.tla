--------------------------- MODULE ExternalResync ---------------------------
(***************************************************************************)
(* A returning installation replaces a leaf of a group by an external      *)
(* Commit (rust/src/api/group_e2ee/runtime/external.rs, candidate.rs,      *)
(* runtime.rs export_group_info).  It prepares candidates from GroupInfos  *)
(* members published, keeps them through restarts, and promotes the one    *)
(* whose Commit the service accepted.  The service (external) runs the     *)
(* public validator and orders one Commit per epoch; a member receives the *)
(* accepted ones.  GroupSystem has the same parties with several members   *)
(* and losing Commits but takes every check as passed; here the checks are *)
(* modelled, with the time that passes between them.                       *)
(*                                                                         *)
(* The incarnation of the group and the transition context are chosen once *)
(* per operation by the caller and compared for equality: they are left    *)
(* out.  The lifecycle digest of the target is a counter.                  *)
(***************************************************************************)
EXTENDS PublicValidator

CONSTANTS
    Founders,    \* the leaves of the group at epoch 0
    Lifetimes,   \* of each index at epoch 0: the time its leaf expires
    Member,      \* the index of the member that receives
    Bindings,    \* [identity, key] pairs the returning installation may use
    Candidates,  \* bound: candidates prepared
    MaxEpoch, MaxTime, MaxLife   \* bounds

(* The founders' leaves are of the tree `Lifetimes` covers, within         *)
(* MAX_LEAVES; the leaf of a Commit expires later than all of this.        *)
ASSUME FoundersAssumption ==
    /\ IsFiniteSet(Founders)
    /\ \A leaf \in Founders : IsLeaf(leaf) /\ leaf.index \in DOMAIN Lifetimes
    /\ \E top \in 0 .. 255 : DOMAIN Lifetimes = 0 .. top

ASSUME BindingsAssumption ==
    \A bind \in Bindings : bind = [identity |-> bind.identity, key |-> bind.key]

ASSUME TimeAssumption == MaxTime \in Nat /\ Forever \in Nat /\ MaxTime <= Forever

VARIABLES
    now,        \* the clock
    line,       \* the states the service ordered, in order
    published,  \* the GroupInfos members published
    candidate,  \* candidates in the returning installation's custody
    at,         \* the position in `line` the member is at
    pending,    \* whether it has a pending Commit of its own
    target,     \* the group's rows at the returning installation, if any
    life        \* its lifecycle context for the group

vars == <<now, line, published, candidate, at, pending, target, life>>

Current == line[Len(line)]

Init ==
    /\ now = 0
    /\ line = <<States("g", 0, Founders, Lifetimes, <<>>)>>
    /\ published = {}
    /\ candidate = {}
    /\ at = 1
    /\ pending = FALSE
    /\ target = {}
    /\ life = 0

-----------------------------------------------------------------------------
(* The group *)

Tick ==
    /\ now < MaxTime
    /\ now' = now + 1
    /\ UNCHANGED <<line, published, candidate, at, pending, target, life>>

(* export_group_info: nothing pending, and the result passes the public    *)
(* validator, lifetimes included; nothing is stored.                       *)
Export ==
    /\ ~pending
    /\ LET info == SignedBy(line[at], Member)
       IN  /\ LeavesAt(line[at].leaves, Member) # {}
           /\ SnapshotVerified(SnapshotRequest(info), now)
           /\ published' = published \cup {info}
    /\ UNCHANGED <<now, line, candidate, at, pending, target, life>>

(* The member prepares a Commit of its own, or gives it up. *)
Pend ==
    /\ pending' = ~pending
    /\ UNCHANGED <<now, line, published, candidate, at, target, life>>

Internal == [name |-> "internal"]

(* The service orders a Commit of another member: it renews its own leaf   *)
(* or removes one.                                                         *)
Ordinary(leaves, index) ==
    /\ Len(line) <= MaxEpoch
    /\ line' = Append(line, States(Current.group, Current.epoch + 1, leaves,
                                   [Current.until EXCEPT ![index] = Forever],
                                   Append(Current.ctx, Internal)))

OtherCommits ==
    /\ \E own \in Current.leaves :
          /\ own.index # Member
          /\ \/ Ordinary(Current.leaves, own.index)
             \/ \E gone \in Current.leaves \ {own} :
                    gone.index # Member /\ Ordinary(Current.leaves \ {gone}, own.index)
    /\ UNCHANGED <<now, published, candidate, at, pending, target, life>>

-----------------------------------------------------------------------------
(* Candidates *)

(* Fresh randomness: no two Commits are the same. *)
Attempt == Cardinality(candidate)

(* The external Commit the vendored builder makes for an explicit leaf. *)
BuiltCommit(name, info, old, bind, aad) ==
    [name |-> name, group |-> info.group, epoch |-> info.epoch, base |-> info.ctx,
     sender |-> "new_member", aad |-> aad, leaf |-> bind,
     proposals |-> <<Init0, Removing(old.index)>>]

Candidate(name, info, old, bind) ==
    LET commit == BuiltCommit(name, info, old, bind, "aad")
        rows == Process(StateOf(info), commit)
        own == CHOOSE leaf \in rows.leaves : Bind(leaf) = bind
    IN  [info |-> info, old |-> old, bind |-> bind, commit |-> commit,
         next |-> SignedBy(rows, own.index), rows |-> rows, life |-> life]

(* SuccessorRequest of a candidate: the proof kept in its envelope. *)
Proof(c) ==
    [base |-> SnapshotRequest(c.info), commit |-> c.commit, commitHash |-> c.commit,
     aad |-> "aad", old |-> c.old, bind |-> c.bind, next |-> c.next, nextHash |-> c.next]

(* Mutant: the replaced leaf's identity may not survive. *)
DeltaNewIdentity(previous, resulting, old, new) ==
    /\ old \in previous.leaves
    /\ FreshBindingStrict(previous.leaves, old, Bind(new))
    /\ previous.leaves \ {old} \subseteq resulting.leaves
    /\ new \in resulting.leaves
    /\ Canonical(resulting.leaves)

(* validate_delta: the exact replacement, checked again apart from the     *)
(* public validator.                                                       *)
Delta(previous, resulting, old, new) ==
    /\ old \in previous.leaves
    /\ FreshBinding(previous.leaves, old, Bind(new))
    /\ Cardinality(previous.leaves) = Cardinality(resulting.leaves)
    /\ previous.group = resulting.group
    /\ previous.epoch + 1 = resulting.epoch
    /\ previous.leaves \ {old} \subseteq resulting.leaves
    /\ old \notin resulting.leaves
    /\ new \in resulting.leaves
    /\ Canonical(resulting.leaves)

Author(c) == CHOOSE leaf \in c.rows.leaves : Bind(leaf) = c.bind

(* external::prepare, from an empty store: live rows are not touched.      *)
MayPrepare(name, info, old, bind) ==
    /\ SnapshotVerified(SnapshotRequest(info), now)
    /\ old \in info.leaves
    /\ FreshBinding(info.leaves, old, bind)
    /\ Processes(StateOf(info), BuiltCommit(name, info, old, bind, "aad"))

(* What it checks of the Commit it built before it answers. *)
SelfChecked(c) ==
    /\ SuccessorVerified(Proof(c), now)
    /\ Delta(c.info, c.rows, c.old, Author(c))

Prepare ==
    /\ Cardinality(candidate) < Candidates
    /\ \E info \in published, bind \in Bindings : \E old \in info.leaves :
          /\ MayPrepare(Attempt, info, old, bind)
          /\ SelfChecked(Candidate(Attempt, info, old, bind))
          /\ candidate' = candidate \cup {Candidate(Attempt, info, old, bind)}
    /\ UNCHANGED <<now, line, published, at, pending, target, life>>

(* Mutant: the public proof is verified again when the bytes are read. *)
ReadableNow(c) == SelfChecked(c)

(* candidate::read and validate: the hash that was kept authenticates the  *)
(* bytes, so nothing that depends on the time is checked again.            *)
Readable(c) ==
    /\ RosterState(c.info) = Proof(c).base.expected
    /\ Delta(c.info, c.rows, c.old, Author(c))
    /\ c.rows.epoch = c.info.epoch + 1

(* Mutant: the hashes of the artefacts are not part of the binding. *)
BindingLeaves(c) ==
    [previous |-> RosterState(c.info), old |-> c.old, author |-> Author(c),
     info |-> {}, commit |-> {}, aad |-> c.commit.aad, next |-> {}]

(* MlsExternalCommitBindingV1 of a candidate. *)
Binding(c) ==
    [previous |-> RosterState(c.info), old |-> c.old, author |-> Author(c),
     info |-> c.info, commit |-> c.commit, aad |-> c.commit.aad, next |-> c.next]

Acceptance(c) == [binding |-> Binding(c), resulting |-> RosterState(c.next)]

-----------------------------------------------------------------------------
(* The service *)

(* It takes a request on the GroupInfo of the state it is in itself. *)
Order ==
    /\ Len(line) <= MaxEpoch
    /\ \E c \in candidate :
          /\ StateOf(c.info) = Current
          /\ SuccessorVerified(Proof(c), now)
          /\ line' = Append(line, StateOf(c.next))
    /\ UNCHANGED <<now, published, candidate, at, pending, target, life>>

Accepted == {c \in candidate : \E i \in DOMAIN line : line[i] = StateOf(c.next)}

-----------------------------------------------------------------------------
(* The member *)

(* Mutant: the author is looked up where the replaced leaf was. *)
ReceivesInPlace(state, c) ==
    /\ RosterState(state) = Binding(c).previous
    /\ Processes(state, c.commit)
    /\ Delta(state, Process(state, c.commit), c.old, Author(c))
    /\ Author(c).index = c.old.index

(* external::receive on the member's rows, with the acceptance of c. *)
Receives(state, c) ==
    LET b == Acceptance(c).binding
        derived == Process(state, c.commit)
    IN  /\ LeavesAt(state.leaves, Member) # {}
        /\ RosterState(state) = b.previous
        /\ b.old.index # Member
        /\ ShapeAccepted(c.commit)
        /\ Processes(state, c.commit)
        /\ c.commit.aad = b.aad
        /\ c.commit.leaf = Bind(b.author)
        /\ ProposalsExact(c.commit, b.old)
        /\ Delta(state, derived, b.old, b.author)
        /\ RosterState(derived) = Acceptance(c).resulting

(* A pending Commit that lost is named as superseded and cleared. *)
ReceiveExternal ==
    /\ at < Len(line)
    /\ \E c \in Accepted :
          /\ StateOf(c.next) = line[at + 1]
          /\ Receives(line[at], c)
    /\ at' = at + 1
    /\ pending' = FALSE
    /\ UNCHANGED <<now, line, published, candidate, target, life>>

(* A Commit of another member is refused while one is pending. *)
ReceiveInternal ==
    /\ at < Len(line)
    /\ ~pending
    /\ line[at + 1].ctx = Append(line[at].ctx, Internal)
    /\ at' = at + 1
    /\ UNCHANGED <<now, line, published, candidate, pending, target, life>>

-----------------------------------------------------------------------------
(* The returning installation *)

(* external::accept: the candidate is read, bound to the acceptance, and   *)
(* its rows are promoted where the group has none.                         *)
Promotes(c, accepted) ==
    /\ Readable(c)
    /\ Binding(accepted) = Binding(c)
    /\ Acceptance(accepted).resulting = RosterState(c.rows)
    /\ c.life = life
    /\ target = {}

Accept ==
    /\ \E c \in candidate, accepted \in Accepted :
          Promotes(c, accepted) /\ target' = {c.rows}
    /\ life < MaxLife
    /\ life' = life + 1
    /\ UNCHANGED <<now, line, published, candidate, at, pending>>

(* The account or installation of the target changes, with its rows. *)
Renew ==
    /\ life < MaxLife
    /\ life' = life + 1
    /\ target' = {}
    /\ UNCHANGED <<now, line, published, candidate, at, pending>>

Next ==
    \/ Tick \/ Export \/ Pend \/ OtherCommits
    \/ Prepare \/ Order \/ ReceiveExternal \/ ReceiveInternal
    \/ Accept \/ Renew

Spec == Init /\ [][Next]_vars
-----------------------------------------------------------------------------
Indices0 == DOMAIN Lifetimes

(* Rosters keep to the indices of the tree and hold every identity and key *)
(* once; the rest is well formed.                                          *)
StateOK(state) ==
    /\ \A leaf \in state.leaves : \E first \in Founders : leaf.index <= first.index
    /\ DOMAIN state.until = Indices0
    /\ Canonical(state.leaves)
    /\ state.epoch = Len(state.ctx)

TypeOK ==
    /\ now \in 0 .. MaxTime
    /\ Len(line) \in 1 .. MaxEpoch + 1
    /\ \A i \in DOMAIN line : StateOK(line[i])
    /\ \A info \in published : StateOK(info) /\ info.signer = Member
    /\ Cardinality(candidate) <= Candidates
    /\ \A c \in candidate : StateOK(c.info) /\ StateOK(c.rows)
    /\ at \in 1 .. Len(line)
    /\ pending \in BOOLEAN
    /\ Cardinality(target) <= 1
    /\ life \in 0 .. MaxLife

(* Commits other clients could have made in place of c's: other proposals, *)
(* proposals by reference, other AAD, another leaf.                        *)
Variants(c) ==
    LET with(proposals) == [c.commit EXCEPT !.proposals = proposals]
    IN  {c.commit,
         with(<<Init0>>),
         with(<<Init0, [Removing(c.old.index) EXCEPT !.inline = FALSE]>>),
         with(<<Init0, [Init0 EXCEPT !.kind = "psk"], Removing(c.old.index)>>)}
        \cup {with(<<Init0, Removing(leaf.index)>>) : leaf \in c.info.leaves}
        \cup {with(<<Init0, Removing(c.old.index), Removing(leaf.index)>>) : leaf \in c.info.leaves}
        \cup {[c.commit EXCEPT !.aad = aad] : aad \in {"", "other"}}
        \cup {[c.commit EXCEPT !.leaf = bind] : bind \in Bindings}

(* The GroupInfos somebody could report as the result of a Commit: its own *)
(* result under any signer, or that of a candidate.                        *)
Reports(state, commit) ==
    LET derived == Process(state, commit)
    IN  {d.next : d \in candidate} \cup
        IF Processes(state, commit)
        THEN {SignedBy(derived, leaf.index) : leaf \in derived.leaves}
        ELSE {}

(* `next` replaces exactly `old` by one leaf with the binding, which signs *)
(* it; every other leaf keeps its index, identity and key.                 *)
Replaced(previous, next, old, bind) ==
    /\ next.leaves = (previous.leaves \ {old}) \cup {Leaf(next.signer, bind)}
    /\ \A leaf \in previous.leaves \ {old} : leaf.index # next.signer

Assembled(info, commit, d, next) ==
    [base |-> SnapshotRequest(info), commit |-> commit, commitHash |-> commit,
     aad |-> "aad", old |-> d.old, bind |-> d.bind, next |-> next, nextHash |-> next]

(* However base, Commit, authority and reported GroupInfo are put together *)
(* from what members published, what attempts of the same authority built  *)
(* and what other clients could build, the validator (successor_inner)     *)
(* verifies only the state every member derives from that very Commit, in  *)
(* which the authorized leaf alone was replaced.  (Bases and Commits that  *)
(* already fail are not combined further.)                                 *)
VerifiedIsExact ==
    \A info \in {i \in published : SnapshotVerified(SnapshotRequest(i), now)} :
        \A commit \in UNION {Variants(c) : c \in candidate}, d \in candidate :
            CommitVerified(Assembled(info, commit, d, info)) =>
                \A next \in Reports(StateOf(info), commit) :
                    SuccessorVerified(Assembled(info, commit, d, next), now)
                    => /\ Processes(StateOf(info), commit)
                       /\ StateOf(next) = Process(StateOf(info), commit)
                       /\ Replaced(info, next, d.old, d.bind)

(* The leaves but `old` fill the left half of the tree, and `old` is       *)
(* neither among them nor the first of the right half.                     *)
AloneBeyondFullHalf(leaves, old) ==
    LET half == Cardinality(leaves) - 1
    IN  /\ half \in TreeWidths
        /\ \A leaf \in leaves \ {old} : leaf.index < half
        /\ half < old.index /\ old.index < 2 * half

(* An installation that may prepare a candidate is never refused by the    *)
(* checks on its own result, whichever blank leaf the tree gives it: the   *)
(* builder, the public validator and validate_delta agree.  The exception  *)
(* is the shape in which the replaced leaf comes back                      *)
(* (RatchetTree!SelectedIsReplaced).                                       *)
ResyncPossible ==
    \A info \in published, bind \in Bindings : \A old \in info.leaves :
        MayPrepare(Attempt, info, old, bind) =>
            \/ AloneBeyondFullHalf(info.leaves, old)
            \/ SelfChecked(Candidate(Attempt, info, old, bind))

(* Whatever the service verified in public, the member accepts in private, *)
(* unless it is the member's own leaf that was replaced: a Commit the      *)
(* service ordered never leaves the group behind.                          *)
OrderedReceivable ==
    \A c \in Accepted :
        /\ at < Len(line)
        /\ line[at + 1] = StateOf(c.next)
        /\ LeavesAt(line[at].leaves, Member) # {}
        /\ c.old.index # Member
        => Receives(line[at], c)

(* A candidate whose Commit was accepted is promoted after any restart and *)
(* however late: lifetimes that ended since it was prepared do not matter. *)
AcceptedPromotes ==
    \A c \in Accepted : c.life = life /\ target = {} => Promotes(c, c)

(* Rows that are promoted are those of a state the service ordered, secrets*)
(* included: the acceptance of one attempt never promotes the rows of      *)
(* another with the same authority.                                        *)
PromotedOnLine ==
    \A rows \in target : \E i \in DOMAIN line : line[i] = rows
=============================================================================
