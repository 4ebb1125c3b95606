----------------------------- MODULE GroupSystem -----------------------------
(***************************************************************************)
(* Several installations of one group and the service that orders their    *)
(* Commits (rust/src/api/group_e2ee/runtime.rs, runtime/external.rs,       *)
(* rust/src/api/external_resync.rs).                                       *)
(*                                                                         *)
(* Of the rows of an installation (module GroupRows) only what Commits     *)
(* decide is kept: epoch, roster, the Commit that led there (it stands for *)
(* the epoch's secrets), the pending Commit, and whether proposals are     *)
(* queued.  An installation returns after losing its rows by an external   *)
(* Commit: a candidate is prepared apart from any live rows, kept by the   *)
(* caller, and promoted once the service accepted it.                      *)
(*                                                                         *)
(* The service is external: it appends at most one Commit per epoch.  Its  *)
(* answers may be lost and asked for again, so what it decided is read off *)
(* its log whenever an installation gets to know it.                       *)
(***************************************************************************)
EXTENDS Naturals, Sequences, FiniteSets

CONSTANTS
    Installation,
    Founder,        \* the installations the group starts with
    MaxEpoch,       \* bound: length of the log
    MaxCandidate    \* bound: external candidates each installation prepares

ASSUME FounderAssumption == Founder \subseteq Installation /\ Founder # {}
ASSUME BoundAssumption == MaxEpoch \in Nat /\ MaxCandidate \in Nat

\* Leaf 0 of an installation is its founding one, leaf 1 that of its KeyPackage,
\* the others those of its external candidates.
Leaf == Installation \X (0 .. MaxCandidate + 1)
Owner(leaf) == leaf[1]

FoundingLeaves == {<<i, 0>> : i \in Founder}

\* A Commit: its epoch, its author's leaf, the leaves it leads to, and the leaf
\* an external one replaces.
CommitType == [epoch : 0 .. MaxEpoch - 1, author : Leaf, leaves : SUBSET Leaf,
               replaced : SUBSET Leaf]

VARIABLES
    log,        \* the service: the Commit accepted in each epoch
    rows,       \* of each installation: its live rows, if any
    keyPackage, \* whether the private row of its KeyPackage is still stored
    candidate,  \* external candidates in the caller's custody
    lifecycle,  \* the caller's lifecycle context: changes when rows come or go
    entered     \* history: how often the group was entered at each leaf

vars == <<log, rows, keyPackage, candidate, lifecycle, entered>>

RosterAt(epoch) == IF epoch = 0 THEN FoundingLeaves ELSE log[epoch].leaves
OriginOf(epoch) == IF epoch = 0 THEN {} ELSE {log[epoch]}

\* The rows of an installation in the epoch that Commit c led to.
RowsAfter(c, leaf) ==
    [epoch |-> c.epoch + 1, leaf |-> leaf, leaves |-> c.leaves, origin |-> {c},
     active |-> leaf \in c.leaves, pending |-> {}, proposals |-> FALSE]

Init ==
    /\ log = <<>>
    /\ rows = [i \in Installation |->
                IF i \in Founder
                THEN {[epoch |-> 0, leaf |-> <<i, 0>>, leaves |-> FoundingLeaves, origin |-> {},
                       active |-> TRUE, pending |-> {}, proposals |-> FALSE]}
                ELSE {}]
    /\ keyPackage = [i \in Installation |-> TRUE]
    /\ candidate = [i \in Installation |-> {}]
    /\ lifecycle = [i \in Installation |-> 0]
    /\ entered = [leaf \in Leaf |-> IF leaf \in FoundingLeaves THEN 1 ELSE 0]

-----------------------------------------------------------------------------
(* The service *)

Accepted(c) == Len(log) > c.epoch /\ log[c.epoch + 1] = c
Rejected(c) == Len(log) > c.epoch /\ log[c.epoch + 1] # c

\* The service appends the first Commit of an epoch it receives.
Append1(c) == Len(log) = c.epoch /\ log' = Append(log, c)

\* A pending Commit is sent, or sent again (get_pending_commit_with_storage).
Submit(i) ==
    /\ \E r \in rows[i] : \E c \in r.pending : Append1(c)
    /\ UNCHANGED <<rows, keyPackage, candidate, lifecycle, entered>>

SubmitExternal(i) ==
    /\ \E x \in candidate[i] : Append1(x.commit)
    /\ UNCHANGED <<rows, keyPackage, candidate, lifecycle, entered>>

\* The Commit that follows the rows' epoch, if the installation is told it.
Following(r) == IF r.epoch < Len(log) THEN {log[r.epoch + 1]} ELSE {}

-----------------------------------------------------------------------------
(* Operations of one installation *)

Change(i, r) ==
    /\ rows' = [rows EXCEPT ![i] = {r}]
    /\ UNCHANGED <<log, keyPackage, candidate, lifecycle, entered>>

\* Rows come into being at a leaf.
Enter(i, r) ==
    /\ rows' = [rows EXCEPT ![i] = {r}]
    /\ lifecycle' = [lifecycle EXCEPT ![i] = @ + 1]
    /\ entered' = [entered EXCEPT ![r.leaf] = @ + 1]

\* The leaves a member may commit to: one installation added by its KeyPackage,
\* one other leaf removed, one swapped for another, or an update of its own.
Additions(r) == {{}} \cup {{<<j, 1>>} : j \in {k \in Installation :
                    <<k, 1>> \notin r.leaves /\ entered[<<k, 1>>] = 0 /\ keyPackage[k]
                    /\ \A leaf \in r.leaves : Owner(leaf) # k}}
Removals(r) == {{}} \cup {{leaf} : leaf \in r.leaves \ {r.leaf}}

\* prepare: the group is active, nothing is pending, and there is a next epoch.
MayPrepare(r) == r.active /\ r.pending = {} /\ r.epoch < MaxEpoch

\* runtime::prepare
Prepare(i) ==
    \E r \in rows[i] :
        /\ MayPrepare(r)
        /\ \E added \in Additions(r), removed \in Removals(r) :
            Change(i, [r EXCEPT !.pending =
                {[epoch |-> r.epoch, author |-> r.leaf,
                  leaves |-> (r.leaves \ removed) \cup added, replaced |-> {}]}])

\* runtime::prepare of a self-update.
PrepareUpdate(i) ==
    \E r \in rows[i] :
        /\ MayPrepare(r)
        /\ Change(i, [r EXCEPT !.pending =
                {[epoch |-> r.epoch, author |-> r.leaf, leaves |-> r.leaves,
                  replaced |-> {}]}])

\* Mutant: only the resulting roster of the acceptance is compared.
AcceptanceMatchesResult(c, accepted) ==
    c.epoch = accepted.epoch /\ c.leaves = accepted.leaves

\* merge: the acceptance names the pending Commit and the roster it leads to.
AcceptanceMatches(c, accepted) == c = accepted

\* Mutant: the queued proposals survive the own Commit.
AfterMergeKeepsProposals(r, c) == [RowsAfter(c, r.leaf) EXCEPT !.proposals = r.proposals]

\* merge_pending_commit: queued proposals are dropped, committed or not.
AfterMerge(r, c) == RowsAfter(c, r.leaf)

\* runtime::merge, when told what the service accepted in the pending epoch.
Merge(i) ==
    \E r \in rows[i] : \E c \in r.pending : \E accepted \in Following(r) :
        /\ r.active
        /\ AcceptanceMatches(c, accepted)
        /\ Change(i, AfterMerge(r, c))

\* runtime::discard: the rows without the pending Commit.
AfterDiscard(r) == [r EXCEPT !.pending = {}]

\* runtime::discard, after an authenticated rejection.
Discard(i) ==
    \E r \in rows[i] : \E c \in r.pending :
        /\ r.active
        /\ Rejected(c)
        /\ Change(i, AfterDiscard(r))

\* Mutant: a Commit is refused, as send is, while proposals are queued.
MayReceiveNoProposals(r, c) ==
    r.active /\ r.pending = {} /\ c.replaced = {} /\ c.author # r.leaf /\ ~r.proposals

\* receive_inner: the checks before a Commit c of a member is processed.
MayReceive(r, c) ==
    r.active /\ r.pending = {} /\ c.replaced = {} /\ c.author # r.leaf

\* The rows after a received Commit was merged; a removed member keeps its queue.
AfterReceive(r, c) ==
    [RowsAfter(c, r.leaf) EXCEPT !.proposals = r.leaf \notin c.leaves /\ r.proposals]

\* runtime::receive of the Commit that follows.
ReceiveCommit(i) ==
    \E r \in rows[i] : \E c \in Following(r) :
        MayReceive(r, c) /\ Change(i, AfterReceive(r, c))

\* external::receive: the pending Commit, if any, is named as superseded.
ReceiveExternal(i) ==
    \E r \in rows[i] : \E c \in Following(r) :
        /\ r.active
        /\ c.replaced # {}
        /\ r.leaf \notin c.replaced
        /\ Change(i, AfterReceive(r, c))

\* runtime::receive of another member's proposal (none comes at the bound).
ReceiveProposal(i) ==
    \E r \in rows[i] :
        /\ r.active
        /\ r.pending = {}
        /\ r.epoch < MaxEpoch
        /\ ~r.proposals
        /\ Change(i, [r EXCEPT !.proposals = TRUE])

\* runtime::join: the Welcome of an accepted Commit that added this installation.
Join(i) ==
    /\ rows[i] = {}
    /\ keyPackage[i]
    /\ \E e \in 1 .. Len(log) :
        /\ <<i, 1>> \in log[e].leaves \ RosterAt(e - 1)
        /\ Enter(i, RowsAfter(log[e], <<i, 1>>))
    /\ keyPackage' = [keyPackage EXCEPT ![i] = FALSE]
    /\ UNCHANGED <<log, candidate>>

\* delete_group_with_storage, or the rows are lost with the device's storage.
Delete(i) ==
    /\ rows[i] # {}
    /\ rows' = [rows EXCEPT ![i] = {}]
    /\ lifecycle' = [lifecycle EXCEPT ![i] = @ + 1]
    /\ UNCHANGED <<log, keyPackage, candidate, entered>>

\* external::prepare on the service's current GroupInfo, with a new leaf in
\* place of this installation's.  Live rows are never looked at.
PrepareExternal(i) ==
    /\ Cardinality(candidate[i]) < MaxCandidate
    /\ Len(log) < MaxEpoch
    /\ \E old \in {leaf \in RosterAt(Len(log)) : Owner(leaf) = i} :
        LET new == <<i, Cardinality(candidate[i]) + 2>>
            c   == [epoch |-> Len(log), author |-> new, replaced |-> {old},
                    leaves |-> (RosterAt(Len(log)) \ {old}) \cup {new}]
        IN  candidate' = [candidate EXCEPT ![i] =
                            @ \cup {[commit |-> c, lifecycle |-> lifecycle[i]]}]
    /\ UNCHANGED <<log, rows, keyPackage, lifecycle, entered>>

\* Mutant: rows of the target group are not looked for.
MayPromoteOverRows(i, x) == lifecycle[i] = x.lifecycle

\* external::accept: the target has no rows of the group, and its lifecycle
\* context is that of the preparation.
MayPromote(i, x) == rows[i] = {} /\ lifecycle[i] = x.lifecycle

\* accept_external_commit_with_storage, stored under the caller's comparison of
\* lifecycle and absence; the candidate may be presented again.
AcceptExternal(i) ==
    /\ \E x \in candidate[i] :
        /\ Accepted(x.commit)
        /\ MayPromote(i, x)
        /\ Enter(i, RowsAfter(x.commit, x.commit.author))
    /\ UNCHANGED <<log, keyPackage, candidate>>

Next ==
    \E i \in Installation :
        \/ Prepare(i) \/ PrepareUpdate(i) \/ Submit(i) \/ Merge(i) \/ Discard(i)
        \/ ReceiveCommit(i) \/ ReceiveExternal(i) \/ ReceiveProposal(i)
        \/ Join(i) \/ Delete(i)
        \/ PrepareExternal(i) \/ SubmitExternal(i) \/ AcceptExternal(i)

\* Callers keep retrying what their journals hold: a pending Commit is sent
\* until it is settled, and an installation that proposals keep from sending
\* commits an update.  A fetched Commit that is refused while an own one is
\* pending is presented again, however often a new one is prepared in between.
Unblock(i) == (\E r \in rows[i] : r.proposals) /\ PrepareUpdate(i)

Fairness ==
    \A i \in Installation :
        /\ WF_vars(Submit(i)) /\ WF_vars(Merge(i)) /\ WF_vars(Discard(i))
        /\ SF_vars(ReceiveCommit(i)) /\ WF_vars(ReceiveExternal(i))
        /\ WF_vars(Unblock(i))

Spec == Init /\ [][Next]_vars
FairSpec == Spec /\ Fairness

-----------------------------------------------------------------------------
\* All installations agree with the service on every epoch they are in: on its
\* roster, and on the very Commit that led there.  Two members' updates of one
\* epoch lead to the same roster but not to the same secrets.
Agreement ==
    \A i \in Installation : \A r \in rows[i] :
        /\ r.epoch <= Len(log)
        /\ r.leaves = RosterAt(r.epoch)
        /\ r.origin = OriginOf(r.epoch)

\* While an installation has rows its epoch moves on one by one, at one leaf; and
\* where it has none, rows enter only at a leaf it never held: an old candidate, or
\* a Welcome delivered again, neither replaces live rows nor starts the ratchets of
\* a leaf anew after the group was deleted.
RowsNeverReplaced ==
    [][\A i \in Installation : \A q \in rows'[i] :
        \/ \E r \in rows[i] : q.leaf = r.leaf /\ q.epoch - r.epoch \in {0, 1}
        \/ rows[i] = {} /\ entered[q.leaf] = 0]_vars

\* An active member that is behind moves on, unless its own leaf was replaced.
CatchesUp ==
    \A i \in Installation : \A e \in 0 .. MaxEpoch - 1 :
        (\E r \in rows[i] : r.active /\ r.epoch = e /\ e < Len(log)
                            /\ r.leaf \notin log[e + 1].replaced)
            ~> (\A r \in rows[i] : r.epoch > e)

\* An installation that may not send, because of a pending Commit or of queued
\* proposals, can send again, unless its own leaf was replaced.
SendsAgain ==
    \A i \in Installation :
        (\E r \in rows[i] : r.active /\ (r.pending # {} \/ r.proposals))
            ~> (\A r \in rows[i] :
                    \/ ~r.active
                    \/ r.pending = {} /\ ~r.proposals
                    \/ \E c \in Following(r) : r.leaf \in c.replaced)

=============================================================================
