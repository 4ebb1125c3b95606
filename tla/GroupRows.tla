------------------------------ MODULE GroupRows ------------------------------
(***************************************************************************)
(* The durable rows of one MLS group on one installation, and every        *)
(* operation of the runtime core as a function of them                     *)
(* (rust/src/api/group_e2ee/runtime.rs, runtime/external.rs,               *)
(* local_group_state.rs, and the OpenMLS calls they make).                 *)
(*                                                                         *)
(* The library owns no database: an operation is called with a snapshot of *)
(* the rows and returns either an error, or a batch together with what     *)
(* leaves the call (a plaintext, a ciphertext).  So an operation is here   *)
(* the SET of its successful outcomes on a snapshot; where every check     *)
(* fails the set is empty.                                                 *)
(*                                                                         *)
(* An optional value (Rust's Option) is a set of at most one element: the  *)
(* snapshot itself is {} when the group has no rows and {r} otherwise.     *)
(* Hashes are compared only for equality, so a digest is the value it is   *)
(* taken of, and a roster summary is its epoch and its leaves.             *)
(***************************************************************************)
EXTENDS RatchetWindow, Sequences

CONSTANTS
    Self,           \* this installation's leaf
    Peer,           \* the other leaves
    Retention,      \* retained past epochs (max_past_epochs)
    LeafSets,       \* the sets of leaves a Commit may lead to
    Message,        \* the peers' ciphertexts the caller may be asked to process
    KeyPackage,     \* KeyPackages this installation may publish
    Welcome,        \* Welcomes addressed to those KeyPackages
    MaxEpoch,       \* bound: no Commit leads past this epoch
    MaxSent         \* bound: ciphertexts this installation seals per ratchet and epoch

Leaf == {Self} \cup Peer

\* SecretType: each leaf has one ratchet of each kind in every epoch.
RatchetKind == {"application", "handshake"}

\* A ciphertext of a peer is the place of its key in the secret tree.
MessageType == [ratchet : RatchetKind, epoch : Nat, from : Peer, gen : Nat]

\* A key this installation encrypted under.
SealKey == [ratchet : RatchetKind, epoch : 0 .. MaxEpoch, gen : 0 .. MaxSent - 1]

WelcomeType == [keyPackage : KeyPackage, epoch : 0 .. MaxEpoch, leaves : SUBSET Leaf]

\* validate_retention
ASSUME RetentionAssumption == Retention \in {2, 4}
ASSUME LeafAssumption == Self \notin Peer
ASSUME LeafSetsAssumption == LeafSets \subseteq (SUBSET Leaf) \ {{}}
ASSUME MessageAssumption == Message \subseteq MessageType
ASSUME WelcomeAssumption ==
    Welcome \subseteq WelcomeType /\ \A w \in Welcome : Self \in w.leaves
ASSUME BoundAssumption == MaxEpoch \in Nat /\ MaxSent \in Nat

Option(S) == {T \in SUBSET S : \A x, y \in T : x = y}

\* The value of an Option that is Some.
The(option) == CHOOSE x \in option : TRUE

-----------------------------------------------------------------------------
(* The rows *)

\* MlsRosterSummaryV1
Roster == [epoch : Nat, leaves : SUBSET Leaf]

\* MessageSecrets of one epoch: own encryption ratchets, peers' replay windows.
EpochSecrets ==
    [sent : [RatchetKind -> Nat], window : [RatchetKind -> [Peer -> Window]]]

\* A Commit this installation authored, known by the handshake key it is sealed
\* under; adds says whether it carries a Welcome.
Commit == [epoch : Nat, gen : Nat, leaves : SUBSET Leaf, adds : BOOLEAN]

\* PendingRecord: upstream is the staged commit in OpenMLS's GroupState row.
Pending == [binding : Commit, previous : Roster, proposed : Roster, upstream : Commit]

RetryRow == [row : {"commit", "welcome", "info"}, commit : Commit]

\* OpenMLS's group rows: GroupState, public group and the proposal queue.
GroupState ==
    [active : BOOLEAN, current : Roster, pending : Option(Commit), proposals : BOOLEAN]

\* MessageSecretsStore
SecretsStore ==
    [current : EpochSecrets, past : Seq([epoch : Nat, tree : EpochSecrets])]

\* LocalGroupState
LocalState ==
    [join : Nat, current : Roster, history : Seq(Roster), pending : Option(Pending)]

Rows == [group : GroupState, secrets : SecretsStore, local : LocalState,
         retry : SUBSET RetryRow]

FreshSecrets ==
    [sent |-> [k \in RatchetKind |-> 0],
     window |-> [k \in RatchetKind |-> [p \in Peer |-> NewWindow]]]

-----------------------------------------------------------------------------
(* local_group_state.rs *)

\* Mutant: the join epoch is taken to be the one before.
NewLocalTooEarly(current) ==
    [join |-> current.epoch - 1, current |-> current, history |-> <<>>, pending |-> {}]

\* LocalGroupState::new
NewLocal(current) ==
    [join |-> current.epoch, current |-> current, history |-> <<>>, pending |-> {}]

\* The number of past rosters the metadata must hold.
HistoryLength(l) ==
    IF l.current.epoch - l.join <= Retention THEN l.current.epoch - l.join ELSE Retention

\* LocalGroupState::validate
ValidLocal(l) ==
    /\ l.current.leaves # {}
    /\ l.join <= l.current.epoch
    /\ Len(l.history) = HistoryLength(l)
    /\ \A i \in 1 .. Len(l.history) :
        l.history[i].epoch = l.current.epoch - HistoryLength(l) + i - 1
    /\ \A p \in l.pending :
        /\ p.previous = l.current
        /\ Self \in l.current.leaves
        /\ p.proposed.epoch = l.current.epoch + 1

\* LocalGroupState::advance, for the roster of the next epoch.
Advance(l, resulting) ==
    [join |-> l.join,
     current |-> resulting,
     history |-> IF Len(l.history) + 1 > Retention
                 THEN Tail(Append(l.history, l.current))
                 ELSE Append(l.history, l.current),
     pending |-> {}]

\* LocalGroupState::message_roster: the roster that vouches for an epoch's senders.
MessageRoster(l, epoch) ==
    IF epoch = l.current.epoch THEN {l.current}
    ELSE {l.history[i] : i \in {j \in 1 .. Len(l.history) : l.history[j].epoch = epoch}}

\* write_retry_rows: the exact bytes to send again while c is pending.
RetryRows(c) ==
    {[row |-> name, commit |-> c] :
        name \in {"commit", "info"} \cup (IF c.adds THEN {"welcome"} ELSE {})}

-----------------------------------------------------------------------------
(* OpenMLS: message secrets and Commits *)

\* Mutant: the oldest epoch is evicted one merge late.
AddEpochEvictsLate(past, epoch, tree) ==
    Append(IF Len(past) > Retention THEN Tail(past) ELSE past,
           [epoch |-> epoch, tree |-> tree])

\* Mutant: the oldest epoch is evicted one merge early.
AddEpochEvictsEarly(past, epoch, tree) ==
    Append(IF Len(past) >= Retention - 1 THEN Tail(past) ELSE past,
           [epoch |-> epoch, tree |-> tree])

\* MessageSecretsStore::add
AddEpoch(past, epoch, tree) ==
    Append(IF Len(past) >= Retention THEN Tail(past) ELSE past,
           [epoch |-> epoch, tree |-> tree])

\* MlsGroup::message_secrets_mut: the secrets a message of that epoch needs.
SecretsFor(r, epoch) ==
    IF epoch < r.group.current.epoch
    THEN {r.secrets.past[i].tree :
            i \in {j \in 1 .. Len(r.secrets.past) : r.secrets.past[j].epoch = epoch}}
    ELSE {r.secrets.current}

\* The secrets of an epoch after the key of message m was taken.
TakeFrom(tree, m) ==
    [tree EXCEPT !.window[m.ratchet][m.from] = TakeKey(@, m.gen)]

\* MlsGroup::unprotect_message: take m's key and write the message secrets.
Unprotect(r, m) ==
    IF m.epoch < r.group.current.epoch
    THEN [current |-> r.secrets.current,
          past |-> [i \in 1 .. Len(r.secrets.past) |->
                      IF r.secrets.past[i].epoch = m.epoch
                      THEN [epoch |-> m.epoch, tree |-> TakeFrom(r.secrets.past[i].tree, m)]
                      ELSE r.secrets.past[i]]]
    ELSE [current |-> TakeFrom(r.secrets.current, m), past |-> r.secrets.past]

\* The roster one epoch on.
NextRoster(r, leaves) == [epoch |-> r.group.current.epoch + 1, leaves |-> leaves]

\* MlsGroup::merge_staged_commit when this installation stays a member, with
\* the message secrets s as the processing of the Commit left them.
MergeCommit(r, s, leaves) ==
    [group |-> [active |-> TRUE, current |-> NextRoster(r, leaves),
                pending |-> {}, proposals |-> FALSE],
     secrets |-> [current |-> FreshSecrets,
                  past |-> AddEpoch(s.past, r.group.current.epoch, s.current)],
     local |-> Advance(r.local, NextRoster(r, leaves)),
     retry |-> r.retry]

\* ... and when the Commit removes it: the public state moves on, the secrets stay.
MergeOwnRemoval(r, s, leaves) ==
    [group |-> [active |-> FALSE, current |-> NextRoster(r, leaves),
                pending |-> {}, proposals |-> r.group.proposals],
     secrets |-> s,
     local |-> Advance(r.local, NextRoster(r, leaves)),
     retry |-> r.retry]

-----------------------------------------------------------------------------
(* runtime.rs: loading *)

\* The checks of runtime::load on the rows themselves.
Loadable(r) ==
    /\ ValidLocal(r.local)
    /\ r.retry = UNION {RetryRows(p.binding) : p \in r.local.pending}
    /\ r.local.current = r.group.current
    /\ r.group.pending = {p.upstream : p \in r.local.pending}

Load(snapshot) == {r \in snapshot : Loadable(r)}

\* What a successful call returns: the rows after its batch, the ciphertext it
\* opened, the key it sealed under, the Welcome it consumed.
Outcome(rows, opened, sealed, joined) ==
    [rows |-> rows, opened |-> opened, sealed |-> sealed, joined |-> joined]

-----------------------------------------------------------------------------
(* runtime.rs and external.rs: the operations *)

\* runtime::send.  A queued proposal blocks create_message.
Send(snapshot) ==
    {Outcome({[r EXCEPT !.secrets.current.sent["application"] = @ + 1]},
             {},
             {[ratchet |-> "application", epoch |-> r.group.current.epoch,
               gen |-> r.secrets.current.sent["application"]]},
             {}) :
        r \in {q \in Load(snapshot) :
                /\ q.group.active
                /\ q.local.pending = {}
                /\ ~q.group.proposals
                /\ q.secrets.current.sent["application"] < MaxSent}}

\* The Commit prepare would stage for that set of leaves.
StagedCommit(r, leaves) ==
    [epoch |-> r.group.current.epoch,
     gen |-> r.secrets.current.sent["handshake"],
     leaves |-> leaves,
     adds |-> ~(leaves \subseteq r.group.current.leaves)]

\* The rows prepare returns: a pending Commit beside the unchanged live epoch.
WithPending(r, c) ==
    [group |-> [r.group EXCEPT !.pending = {c}],
     secrets |-> [r.secrets EXCEPT !.current.sent["handshake"] = @ + 1],
     local |-> [r.local EXCEPT !.pending =
                    {[binding |-> c, previous |-> r.local.current,
                      proposed |-> NextRoster(r, c.leaves), upstream |-> c]}],
     retry |-> RetryRows(c)]

\* runtime::prepare: add, remove, swap or self-update; the author stays.
Prepare(snapshot) ==
    UNION {{Outcome({WithPending(r, StagedCommit(r, leaves))},
                    {},
                    {[ratchet |-> "handshake", epoch |-> r.group.current.epoch,
                      gen |-> r.secrets.current.sent["handshake"]]},
                    {}) :
                leaves \in {l \in LeafSets : Self \in l}} :
        r \in {q \in Load(snapshot) :
                /\ q.group.active
                /\ q.local.pending = {}
                /\ Self \in q.group.current.leaves
                /\ q.group.current.epoch < MaxEpoch
                /\ q.secrets.current.sent["handshake"] < MaxSent}}

\* runtime::merge, for an acceptance that names the pending Commit.
Merge(snapshot) ==
    UNION {{Outcome({[MergeCommit(r, r.secrets, p.upstream.leaves) EXCEPT !.retry = {}]},
                    {}, {}, {}) :
                p \in {q \in r.local.pending : NextRoster(r, q.upstream.leaves) = q.proposed}} :
        r \in {q \in Load(snapshot) : q.group.active}}

\* Mutant: the exact retry rows survive their Commit.
WithoutPendingKeepsRetry(r) ==
    [group |-> [r.group EXCEPT !.pending = {}],
     secrets |-> r.secrets,
     local |-> [r.local EXCEPT !.pending = {}],
     retry |-> r.retry]

\* Mutant: the message secrets are restored as they were before the preparation.
WithoutPendingRestores(r) ==
    [group |-> [r.group EXCEPT !.pending = {}],
     secrets |-> [r.secrets EXCEPT !.current.sent["handshake"] =
                      IF r.local.pending = {} THEN @ ELSE The(r.local.pending).binding.gen],
     local |-> [r.local EXCEPT !.pending = {}],
     retry |-> {}]

\* The rows without the pending Commit; everything else stays live.
WithoutPending(r) ==
    [group |-> [r.group EXCEPT !.pending = {}],
     secrets |-> r.secrets,
     local |-> [r.local EXCEPT !.pending = {}],
     retry |-> {}]

\* runtime::discard, for the binding of the pending Commit.
Discard(snapshot) ==
    {Outcome({WithoutPending(r)}, {}, {}, {}) :
        r \in {q \in Load(snapshot) : q.group.active /\ q.local.pending # {}}}

\* What the secret tree answers for message m, as receive_inner reports it.
RatchetError(r, m) ==
    IF SecretsFor(r, m.epoch) = {} THEN "GenerationTooOld"
    ELSE LET tree == The(SecretsFor(r, m.epoch))
             error == WindowError(tree.window[m.ratchet][m.from], m.gen)
         IN  CASE error = "TooDistantInThePast" -> "GenerationTooOld"
               [] error = "TooDistantInTheFuture" -> "ForwardDistanceExceeded"
               [] error = "SecretReuseError" -> "Replay"
               [] error = "Ok" -> "Ok"

\* The early returns of receive_inner for a genuine message m, in order.
ReceiveError(r, m) ==
    IF ~r.group.active THEN "InactiveGroup"
    ELSE IF m.ratchet = "handshake" /\ m.epoch # r.local.current.epoch
         THEN "RequiredCommitEpochMismatch"
    ELSE IF m.ratchet = "handshake" /\ r.local.pending # {} THEN "PendingCommitExists"
    ELSE IF m.epoch > r.local.current.epoch THEN "FutureMessageEpoch"
    ELSE IF MessageRoster(r.local, m.epoch) = {} THEN "PastEpochUnavailable"
    ELSE IF \A x \in MessageRoster(r.local, m.epoch) : m.from \notin x.leaves
         THEN "SenderMismatch"
    ELSE RatchetError(r, m)

\* The messages of one ratchet kind the rows can open.
Openable(r, kind) == {m \in Message : m.ratchet = kind /\ ReceiveError(r, m) = "Ok"}

\* receive_inner, kind Application.
ReceiveApplication(snapshot) ==
    UNION {{Outcome({[r EXCEPT !.secrets = Unprotect(r, m)]}, {m}, {}, {}) :
                m \in Openable(r, "application")} : r \in Load(snapshot)}

\* receive_inner, kind Proposal.
ReceiveProposal(snapshot) ==
    UNION {{Outcome({[r EXCEPT !.secrets = Unprotect(r, m), !.group.proposals = TRUE]},
                    {m}, {}, {}) :
                m \in Openable(r, "handshake")} : r \in Load(snapshot)}

\* receive_inner, kind Commit: the author stays, this installation may not.
ReceiveCommit(snapshot) ==
    UNION {UNION {{Outcome({IF Self \in leaves
                            THEN MergeCommit(r, Unprotect(r, m), leaves)
                            ELSE MergeOwnRemoval(r, Unprotect(r, m), leaves)},
                           {m}, {}, {}) :
                        leaves \in {l \in LeafSets : m.from \in l}} :
                m \in Openable(r, "handshake")} :
        r \in {q \in Load(snapshot) : q.group.current.epoch < MaxEpoch}}

\* external::receive: a resync replaces one peer's leaf by a new one.  A pending
\* Commit must be named as superseded; it is cleared on the current rows.
ReceiveExternal(snapshot) ==
    UNION {{Outcome({MergeCommit(WithoutPending(r), r.secrets,
                                 (r.group.current.leaves \ {d[1]}) \cup {d[2]})},
                    {}, {}, {}) :
                d \in {x \in (r.group.current.leaves \ {Self}) \X Peer :
                            x[2] \notin r.group.current.leaves}} :
        r \in {q \in Load(snapshot) :
                q.group.active /\ q.group.current.epoch < MaxEpoch}}

\* The rows of a group this installation enters with that roster.
NewRows(current) ==
    [group |-> [active |-> TRUE, current |-> current, pending |-> {}, proposals |-> FALSE],
     secrets |-> [current |-> FreshSecrets, past |-> <<>>],
     local |-> NewLocal(current),
     retry |-> {}]

\* runtime::create reads installation-global rows only.
Create == {Outcome({NewRows([epoch |-> 0, leaves |-> {Self}])}, {}, {}, {})}

\* Mutant: a Welcome is accepted whether or not its KeyPackage is still stored.
JoinUnchecked(keyPackages) ==
    {Outcome({NewRows([epoch |-> w.epoch, leaves |-> w.leaves])}, {}, {}, {w}) :
        w \in {v \in Welcome : keyPackages[v.keyPackage] # "absent"}}

\* runtime::join: the Welcome's KeyPackage must still be stored.
Join(keyPackages) ==
    {Outcome({NewRows([epoch |-> w.epoch, leaves |-> w.leaves])}, {}, {}, {w}) :
        w \in {v \in Welcome : keyPackages[v.keyPackage] = "stored"}}

\* delete_group_with_storage loads the OpenMLS group only, never the metadata.
Delete(snapshot) == {Outcome({}, {}, {}, {}) : r \in snapshot}

=============================================================================
