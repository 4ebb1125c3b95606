----------------------------- MODULE StorageRows -----------------------------
(***************************************************************************)
(* Opaque storage rows: what an operation reads and writes row by row      *)
(* (rust/src/snapshot_storage.rs), and the batch the storage boundary      *)
(* makes of it (rust/src/api/storage.rs).                                  *)
(*                                                                         *)
(* A key is its label and what follows it; what is encoded is abstracted,  *)
(* except for the key of an epoch's HPKE key pairs, whose epoch and leaf   *)
(* index are written one after the other without a separator.  Of a value  *)
(* only what the rows of a group must agree on is kept.                    *)
(***************************************************************************)
EXTENDS Naturals, Sequences, FiniteSets, Functions

CONSTANTS
    Group,          \* group ids
    Global,         \* stands for "no group id"
    KeyPackage,     \* KeyPackages this installation may publish (numbers)
    ProposalRef,    \* proposals other members may send (numbers)
    Entry,          \* the places <<epoch, leaf>> at which a Welcome may lead into a group
    Epoch           \* bound: the epochs a group may be in

ASSUME GroupAssumption == Global \notin Group
ASSUME NumberAssumption == KeyPackage \subseteq Nat /\ ProposalRef \subseteq Nat
ASSUME EpochAssumption == Epoch \subseteq Nat
ASSUME EntryAssumption == Entry \subseteq Epoch \X Nat

-----------------------------------------------------------------------------
(* Keys *)

\* GLOBAL_LABELS of which the modelled operations write rows.
GlobalLabels == {"KeyPackage"}

PublicLabels == {"Tree", "ConfirmationTag", "GroupContext", "InterimTranscriptHash"}

\* One row each per group: OpenMLS's, and the package's metadata row.
SingleLabels ==
    PublicLabels \cup {"EpochSecrets", "OwnLeafNodeIndex", "MessageSecrets",
                       "ResumptionPsk", "MlsGroupJoinConfig", "GroupState", "Local"}

\* build_key: the label, then what is keyed by.
Key(label, g, id) == [label |-> label, group |-> g, id |-> id]
RowKey(label, g) == Key(label, g, <<>>)

\* is_global_key
IsGlobalKey(key) == key.label \in GlobalLabels

\* A number as JSON writes it.
Digits[n \in Nat] == IF n < 10 THEN <<n>> ELSE Append(Digits[n \div 10], n % 10)

\* build_epoch_key
EpochKey(g, epoch, leaf) == Key("EpochKeyPairs", g, Digits[epoch] \o Digits[leaf])

-----------------------------------------------------------------------------
(* The provider's working copy: a function from keys to values *)

\* kv_write, for some keys
Write(rows, keys, value) ==
    [k \in DOMAIN rows \cup keys |-> IF k \in keys THEN value ELSE rows[k]]

\* kv_delete, for some keys
Erase(rows, keys) == Restrict(rows, DOMAIN rows \ keys)

RefsKey(g) == RowKey("ProposalQueueRefs", g)
ProposalKey(g, ref) == Key("QueuedProposal", g, <<ref>>)

\* read_list: an absent row is the empty list.
QueuedRefs(rows, g) == IF RefsKey(g) \in DOMAIN rows THEN rows[RefsKey(g)] ELSE <<>>

\* queue_proposal: the row of the proposal, and its reference appended to the list.
QueueProposal(rows, g, ref) ==
    Write(Write(rows, {ProposalKey(g, ref)}, ref),
          {RefsKey(g)}, Append(QueuedRefs(rows, g), ref))

\* Mutant: the list is dropped without the rows it names.
ClearProposalQueueListOnly(rows, g) == Erase(rows, {RefsKey(g)})

\* clear_proposal_queue
ClearProposalQueue(rows, g) ==
    Erase(rows, {RefsKey(g)} \cup {ProposalKey(g, ref) : ref \in Range(QueuedRefs(rows, g))})

LiveEpoch(rows, g) == rows[RowKey("GroupContext", g)]
LiveLeaf(rows, g) == rows[RowKey("OwnLeafNodeIndex", g)]

\* PublicGroup::store
StorePublic(rows, g, epoch) == Write(rows, {RowKey(label, g) : label \in PublicLabels}, epoch)

\* The rows of a new epoch that belong to the member: secrets and metadata.  Of
\* the message secrets the epoch and the number of messages opened are kept.
StoreMember(rows, g, epoch) ==
    Write(Write(rows, {RowKey(label, g) : label \in {"EpochSecrets", "ResumptionPsk", "Local"}},
                epoch),
          {RowKey("MessageSecrets", g)}, <<epoch, 0>>)

\* MlsGroup::unprotect_message: the ratchet moves whatever the message holds.
StoreOpened(rows, g) ==
    LET secrets == rows[RowKey("MessageSecrets", g)]
    IN  Write(rows, {RowKey("MessageSecrets", g)}, <<secrets[1], secrets[2] + 1>>)

\* MlsGroup::store of a group entered at that epoch and leaf, its epoch key
\* pairs, and the metadata saved beside them.
StoreNew(rows, g, epoch, leaf) ==
    LET state  == Write(StoreMember(StorePublic(rows, g, epoch), g, epoch),
                        {RowKey("GroupState", g), RowKey("MlsGroupJoinConfig", g)},
                        "Operational")
        placed == Write(state, {RowKey("OwnLeafNodeIndex", g)}, leaf)
    IN  Write(placed, {EpochKey(g, epoch, leaf)}, <<epoch, leaf>>)

-----------------------------------------------------------------------------
(* Operations on the working copy *)

\* create_key_package_with_storage
CreatesKeyPackage == [op : {"CreateKeyPackage"}, group : {Global}, key : KeyPackage]
\* runtime::create
CreatesGroup == [op : {"CreateGroup"}, group : Group]
\* runtime::join with the Welcome for a KeyPackage
Joins == [op : {"Join"}, group : Group, key : KeyPackage, at : Entry]
\* runtime::receive of a proposal
QueuesProposal == [op : {"ReceiveProposal"}, group : Group, ref : ProposalRef]
\* merging a Commit, that keeps or removes this installation
Merges == [op : {"MergeCommit", "MergeOwnRemoval"}, group : Group]
\* delete_group_with_storage
Deletes == [op : {"DeleteGroup"}, group : Group]

Operation ==
    CreatesKeyPackage \cup CreatesGroup \cup Joins \cup QueuesProposal \cup Merges \cup Deletes

KeyPackageKey(k) == Key("KeyPackage", Global, <<k>>)

IsMember(rows, g) == RowKey("GroupState", g) \in DOMAIN rows
IsActive(rows, g) == IsMember(rows, g) /\ rows[RowKey("GroupState", g)] = "Operational"

\* The checks on which the operation fails without a batch.
Succeeds(o, rows) ==
    CASE o.op = "CreateKeyPackage" -> KeyPackageKey(o.key) \notin DOMAIN rows
      [] o.op = "CreateGroup"      -> TRUE
      [] o.op = "Join"             -> KeyPackageKey(o.key) \in DOMAIN rows
      [] o.op = "ReceiveProposal"  ->
            IsActive(rows, o.group) /\ o.ref \notin Range(QueuedRefs(rows, o.group))
      [] o.op \in {"MergeCommit", "MergeOwnRemoval"} ->
            IsActive(rows, o.group) /\ LiveEpoch(rows, o.group) + 1 \in Epoch
      [] o.op = "DeleteGroup"      -> IsMember(rows, o.group)

\* Mutant: the key pairs of the epoch left behind stay.
MergeCommitKeepsKeys(rows, g) ==
    LET epoch == LiveEpoch(rows, g) + 1
        leaf  == LiveLeaf(rows, g)
    IN  ClearProposalQueue(
            Write(StoreMember(StorePublic(rows, g, epoch), g, epoch),
                  {EpochKey(g, epoch, leaf)}, <<epoch, leaf>>), g)

\* MlsGroup::merge_commit of a member: store under the new epoch, then delete
\* the key pairs of the previous one, then empty the proposal queue.
MergeCommit(rows, g) ==
    LET epoch == LiveEpoch(rows, g) + 1
        leaf  == LiveLeaf(rows, g)
    IN  ClearProposalQueue(
            Erase(Write(StoreMember(StorePublic(rows, g, epoch), g, epoch),
                        {EpochKey(g, epoch, leaf)}, <<epoch, leaf>>),
                  {EpochKey(g, epoch - 1, leaf)}), g)

\* ... when it was removed: public state and metadata move on; the proposal
\* queue and the key pairs stay under the epoch in which it was a member.
MergeOwnRemoval(rows, g) ==
    LET epoch == LiveEpoch(rows, g) + 1
    IN  Write(Write(StorePublic(rows, g, epoch),
                    {RowKey("Local", g), RowKey("ResumptionPsk", g)}, epoch),
              {RowKey("GroupState", g)}, "Inactive")

\* MlsGroup::delete: OpenMLS's rows only.
DeleteGroup(rows, g) ==
    Erase(ClearProposalQueue(rows, g),
          {RowKey(label, g) : label \in SingleLabels \ {"Local"}}
            \cup {EpochKey(g, LiveEpoch(rows, g), LiveLeaf(rows, g))})

\* The working copy when the operation returns.
Run(o, rows) ==
    CASE o.op = "CreateKeyPackage" -> Write(rows, {KeyPackageKey(o.key)}, o.key)
      [] o.op = "CreateGroup"      -> StoreNew(rows, o.group, 0, 0)
      [] o.op = "Join"             ->
            StoreNew(Erase(rows, {KeyPackageKey(o.key)}), o.group, o.at[1], o.at[2])
      [] o.op = "ReceiveProposal"  ->
            QueueProposal(StoreOpened(rows, o.group), o.group, o.ref)
      [] o.op = "MergeCommit"      -> MergeCommit(rows, o.group)
      [] o.op = "MergeOwnRemoval"  -> MergeOwnRemoval(rows, o.group)
      [] o.op = "DeleteGroup"      -> DeleteGroup(rows, o.group)

-----------------------------------------------------------------------------
(* The durable rows: a function from keys to [value, group] *)

\* What the caller gives a call for group g: its rows and the installation's.
EntriesFor(db, g) == {k \in DOMAIN db : db[k].group \in {g, Global}}

\* validate_storage_entries, for one entry and the group the call is for.
ValidEntry(key, scope, expected) ==
    IF IsGlobalKey(key) THEN scope = Global ELSE expected # Global /\ scope = expected

\* from_entries
Snapshot(db, g) == [k \in EntriesFor(db, g) |-> db[k].value]

\* Mutant: the batch carries every row of the working copy.
UpsertsEverything(initial, current) == DOMAIN current

\* into_updates: the keys of new and changed rows, and of those that are gone.
Upserts(initial, current) ==
    {k \in DOMAIN current : k \notin DOMAIN initial \/ current[k] # initial[k]}
RemovedKeys(initial, current) == DOMAIN initial \ DOMAIN current

\* Mutant: rows are returned without a group id.
ScopeOfGlobal(key, g) == Global

\* batch_from_updates: the group id an upserted row is given.
ScopeOf(key, g) == IF IsGlobalKey(key) THEN Global ELSE g

\* Mutant: a deleted group is not named.
DeletedGroupsNone(o) == {}

\* deleted_group_ids of the batch.
DeletedGroups(o) == IF o.op = "DeleteGroup" THEN {o.group} ELSE {}

Batch(o, initial, current) ==
    [upserts |-> [k \in Upserts(initial, current) |->
                    [value |-> current[k], group |-> ScopeOf(k, o.group)]],
     deletes |-> RemovedKeys(initial, current),
     groups  |-> DeletedGroups(o)]

\* The caller's transaction: deletes, then deleted groups, then upserts.
ApplyBatch(db, b) ==
    LET kept == {k \in DOMAIN db \ b.deletes : db[k].group \notin b.groups}
    IN  [k \in kept \cup DOMAIN b.upserts |->
            IF k \in DOMAIN b.upserts THEN b.upserts[k] ELSE db[k]]

=============================================================================
