# openmls_dart: models, checks and proofs

This directory specifies the stateful core of `openmls_dart`: the Rust runtime
behind the Dart API and the native receive frames, and the parts of the vendored
OpenMLS its guarantees rest on. Modules are written in TLA+, model-checked by
TLC on small instances and, for the theorems listed below, proved by TLAPS for
every value of the constants. Paths are relative to `src/`.

## 1. The system

`openmls_dart` owns no database. An operation is called with a snapshot of rows
(`MlsStorageEntry`), works on a copy in memory (`SnapshotStorageProvider`) and
returns either an error or a complete batch of row changes together with what
leaves the call: a plaintext, a ciphertext, a KeyPackage. The caller reads the
snapshot, applies the batch in one transaction, and decides whether its snapshot
was still current. Two kinds of process use the same rows: the foreground Dart
application and a native receive extension (Android service, iOS notification
extension).

| Component | Source (under `rust/`) | State | Operations |
|---|---|---|---|
| Sender ratchets, secret tree | `vendor/openmls/src/tree/sender_ratchet.rs`, `secret_tree.rs` | per sender, epoch and kind: head generation and a queue of past keys; own encryption counters | `secret_for_decryption`, `secret_for_encryption` |
| Past epoch secrets, Commit merging | `vendor/openmls/src/group/mls_group/` | active flag, epoch, pending staged commit, proposal queue, message secrets of the current and up to 2 or 4 past epochs | `unprotect_message`, `merge_staged_commit`, `merge_pending_commit`, `clear_pending_commit`, `create_message`, `delete` |
| Ratchet tree | `vendor/openmls/src/treesync/`, `binary_tree/` | leaves, parents with their unmerged leaves, own path keys | proposals, update paths, `merge_diff` |
| Local group metadata | `src/local_group_state.rs` | join epoch, current roster, history of past rosters, pending record, retry rows with the exact bytes to send again | `new`, `advance`, `validate`, `message_roster`, `write_retry_rows`, `clear_retry_rows`, `load`, `save` |
| Group runtime core | `src/api/group_e2ee/runtime.rs`, `src/api/group_e2ee.rs` | none of its own between calls | `create`, `join`, `prepare` (add, remove, swap, self-update), `merge`, `discard`, `inspect_pending`, `send`, `receive`, `export_group_info` |
| Roster authority | `src/api/group_e2ee.rs` | none: rosters, decisions and digests are the caller's | validation of removals, additions, exact deltas; `roster_digest`, group-state digest |
| External resync | `src/api/group_e2ee/runtime/external.rs`, `candidate.rs`, `src/api/external_resync.rs` | an inactive candidate kept by the caller | `prepare`, `inspect`, `accept`, `receive` |
| Public validator | `src/external_resync/` | none | verify a published GroupInfo; verify an external Commit with its claimed result |
| Storage boundary | `src/api/storage.rs`, `src/snapshot_storage.rs` | initial and current copy of the rows during a call; the rows are the caller's | `provider_from_entries`, `into_updates`, `batch_from_updates`, `create_key_package_with_storage`, `delete_group_with_storage` |
| Native receive frames, platform entry points | `src/native_receive_v2.rs`, `native_receive_v3.rs`, `native_receive_apple.rs`, `native_receive_android.rs` | none | decode a frame, run one receive operation, encode the outcome |
| Account envelope | `src/api/account_envelope/` | none: private and public bundles, pins and envelopes are the caller's | create, rotate, authorize, verify continuity, seal, open |
| Keys, credentials, configuration, types | `src/api/*.rs` | none | conversions |
| Bindings, hook, scripts, CI, examples | `lib/`, `hook/`, `scripts/`, `.github/`, `example*/` | none | generated code and tooling |

**Interactions.** Everything meets in the rows. A group has four families of
rows that must agree: OpenMLS's group state (with the staged commit), OpenMLS's
message secrets, the package's metadata, and the package's retry rows.
`runtime::load` refuses rows that disagree, so a wrong write locks the
installation out of its group. KeyPackage rows are installation-global and are
consumed by `join`. Other installations are seen only through their ciphertexts,
Commits and Welcomes.

**What is hard.**

* *Stale snapshots.* Two processes read, compute and store without a lock. The
  digest check of `load` catches a context taken after the rows changed; the
  caller's compare-and-apply catches rows that changed after the context was
  taken. Neither is enough alone. `create` and `join` take no digest at all.
* *Keys are taken before they are earned.* OpenMLS takes a key from the ratchet
  and writes the message-secrets row before the message is authenticated; only
  because a failed call returns no batch does a forged message cost nothing.
* *Two retention lists.* Past rosters and past epoch secrets are evicted by
  different code and must keep the same epochs.
* *Long-lived pending Commits.* The outcome of an own Commit can stay unknown
  for long, while messages are received and ratchets move. Merging, discarding
  or superseding it must touch only what belongs to it.
* *Removal and return.* A Commit that removes this installation leaves old
  secrets behind; the group is deleted and joined again later, by a Welcome or,
  if its rows were lost, by an external Commit prepared long before it is
  accepted.
* *Decisions that age.* Members decide on the roster they see, contacts on the
  bundles they were shown; what they decided is executed later, on something
  else.
* *Two implementations of one check.* The public validator, the author and the
  receivers of an external Commit check it separately, at different times; an
  encoder of another language writes the frames this crate decodes. Where they
  disagree, a group or a call is stuck.
* *Bounds in different files.* Frames, records, rows and batches each have a
  limit; one that is smaller than what the others allow fails on every retry.

The hazards, each at its line and with the properties that cover it, are listed
in `PROJECT.json`.

**What makes each component correct.**

* Sender ratchets: every generation of the window is handed out exactly once;
  the queue index is always right; the counter never overflows.
* Epoch secrets and metadata: retained epochs agree; late messages are
  authorised by the roster of their epoch; error codes are truthful.
* Runtime core: no plaintext twice, no key sealed under twice, rows always load,
  no rewinding.
* Storage boundary: concurrent workers and crashes do only what operations run
  one at a time can do; no row is lost, brought back or orphaned.
* Several installations: they agree on the Commit of each epoch; one that is
  behind catches up, one that may not send can send again.
* Roster authority: a Commit does exactly what was decided or is refused, and no
  sequence of decisions outgrows the limit.
* External resync and validator: what is verified in public is the exact
  replacement of one leaf; what was ordered is received by the members and
  promoted by its author; a candidate never overwrites live rows.
* Account envelope: no key has two successors, contacts that start from one
  bundle agree, an invitation opens, a rotation reaches every contact.
* Frames and records: one accepted form, authority before secrets, and nothing
  within its own bounds is ever refused for its size.
* Ratchet tree: members hold exactly the keys above them, and those who left
  hold none.

## 2. Modules

An arrow from `B` up to `A` says that `B` is shown to implement `A`.

```
RatchetWindow        the replay window as a value (operators only)
  |-- ReplayWindow   abstract specification: accept each generation once
  |     ^ ImplementsWindow
  |-- SenderRatchet  the VecDeque and the receive call around it
  |     \-- SenderRatchetProofs
  \-- GroupRows      the rows of a group, every operation as a function of them
        \-- GroupLifecycle      the operations as atomic steps
              |  ^ ImplementsLifecycle
              \-- Installation  workers with stale reads, races and crashes
                    \-- GroupLifecycleProofs   of both

StorageRows          keys, operations row by row, diff, batch (operators only)
  |-- RowStore       abstract specification: operations act at once
  |     ^ ImplementsRowStore
  \-- SnapshotStorage   calls on snapshots, stored later
        \-- BoundaryProofs

RosterAuthority      what decisions may name, which roster may follow
  |-- RosterTransitions -- RosterTransitionsProofs
  \-- PublicValidator   what is verified without secrets
        \-- ExternalResync -- ExternalResyncProofs

GroupSystem -- GroupSystemProofs   several installations and the ordering service
RatchetTree -- RatchetTreeProofs   the tree behind the rosters, and the builder's finding
StateDigests         roster and group-state digests, framing included

AccountBundles, InvitationPreview   (operators only)
  \-- AccountEnvelope -- AccountEnvelopeProofs

NativeFrames         the frames and their decoder (operators only)
  \-- NativeReceive  one native call (theorems in BoundaryProofs)
FrameBudget, CustodyBudget   their sizes (theorems in BoundaryProofs)
```

`MC...` modules give the constants their values: `MCSenderRatchet`,
`MCGroupLifecycle` (two configurations), `MCInstallation`, `MCSnapshotStorage`,
`MCGroupSystem`, `MCRosterTransitions`, `MCExternalResync`, `MCRatchetTree` (two
configurations), `MCAccountEnvelope`, `MCNativeReceive`.

The system is cut by question. `GroupRows` has every row family of one
installation and takes the outcome of ordering as an input; `GroupSystem` has
several installations and the service, and keeps of the rows what Commits
decide; `ExternalResync` has the checks that `GroupSystem` takes as passed;
`RatchetTree` has the leaves that `ExternalResync` places by rule;
`SnapshotStorage` has the rows that `GroupRows` holds as fields.

### RatchetWindow, ReplayWindow, SenderRatchet

`SenderRatchet` is `DecryptionRatchet` line by line: `stored.past` is the
`VecDeque<Option<..>>`, newest first; `DecryptionResult` is the result of
`secret_for_decryption` with its tests in the order of the code, and
`AfterDecryption` what it leaves in memory, including the error path on which
the skipped keys have been pushed but nothing was pruned. Around it stands one
receive call: `Open` (the snapshot is loaded), `Take` (the key leaves the
ratchet in memory), `Reject` (a later check fails), `Finish` (the batch is
applied and the plaintext handed out) or `Drop` (error return or crash).
`handed` is a history variable.

`ReplayWindow` is the promise: a set of keys below a head. `ImplementsWindow`
says that the ratchet implements it: each `Finish` is one `Accept`, every other
step is invisible.

### GroupRows

A group is a record of four row families (`group`, `secrets`, `local`, `retry`).
An operation is the *set of its successful outcomes* on a snapshot: where every
check of the code fails the set is empty. An `Option` is a set with at most one
element, so a snapshot is `{}` when the group has no rows.

| Operator | Code |
|---|---|
| `Load`, `Loadable` | the checks of `runtime::load` between metadata, OpenMLS and retry rows |
| `Create`, `Join`, `Send`, `Prepare`, `Merge`, `Discard` | the functions of that name in `runtime.rs` |
| `ReceiveApplication`, `ReceiveProposal`, `ReceiveCommit` | `receive_inner`, one per kind; its early returns in order are `ReceiveError` |
| `ReceiveExternal` | `external::receive`, with or without a superseded pending Commit |
| `Delete` | `delete_group_with_storage` |
| `AddEpoch`, `SecretsFor`, `Unprotect`, `MergeCommit`, `MergeOwnRemoval`, `WithoutPending` | the OpenMLS functions they call |

Abstractions. A digest is the value it is taken of. A roster is an epoch and a
set of leaves (in the code: leaf index, identity and key). A ciphertext of a
peer is the place of its key: ratchet kind, epoch, sender, generation. A Commit
is known by the handshake key it is sealed under. The proposal queue is one
flag: all the runtime core distinguishes is whether it is empty. TreeKEM and the
key schedule are absent; a new epoch starts with fresh secrets. A message the
model processes is genuine; forged ones are the subject of `SenderRatchet`.

### GroupLifecycle

The variables are the rows (`db`), the state of each KeyPackage row, and history
variables: Welcomes joined, epochs reached, how often each message was handed
out, how often each own key was sealed under. Each operation is one atomic
action, so this module is the contract of the storage boundary.

Two guards state what the library cannot know and its caller must: `CreateGroup`
(an application issues a group id once) and `JoinGroup` (a Welcome is for an
epoch this installation has not been a member in, or is one delivered again).

### Installation

Workers of a foreground and an extension process, which may call everything or
only receive operations. A worker reads rows,
KeyPackage rows and the caller's lifecycle fence in one snapshot (`Read`), later
takes the digest its caller keeps and calls an operation (`Call...`), later
stores the batch (`Store`) if digest and fence are still current
(`ContextCurrent`); it may be abandoned after every step (`Abandon`: an error, a
refused transaction, a crash). `BatchApplied` applies only the row families that
differ, as `into_updates` does. Which operations the extension may run is
`ReceiveCall`. The fence is the caller's (`native/receive_v3/README.md` asks for
it): it is part of the same read as the rows. TLC shows that this matters: with
the fence read later, a Welcome already consumed could be joined again from a
stale KeyPackage row after the group was deleted, with the ratchets of an old
epoch restarted.

### SnapshotStorage, StorageRows, RowStore

`StorageRows` has the rows of `snapshot_storage.rs`: a key is a label and what
follows it, and each operation (`Run`) is the reads and writes it makes, row by
row: the proposal queue with its list of references, the tree and context rows,
the key pairs of an epoch, the KeyPackage a join consumes, the package's
metadata. `Batch` is `into_updates` and `batch_from_updates`: the difference
between the initial and the current copy, with the scope of each row and the
deletion of a whole group by its id. The key of an epoch's HPKE key pairs is
built from epoch and leaf index without a separator; `Digits` keeps this, so
epoch 1 of leaf 11 and epoch 11 of leaf 1 share a key in the model as in the
code.

`SnapshotStorage` has callers that open a snapshot and store the batch later,
serialized by the two fences the repository asks of them (one per group, one of
the installation for Welcomes and KeyPackages:
`KURTUBA_WMF0_NATIVE_AMBASSADOR_PROOF.md`, `rust/src/api/external_resync.rs`,
`CHANGELOG.md`). A call for a group still reads installation rows that other
calls change meanwhile. `RowStore` is the promise: every operation acts at once
on the rows as they are. `Installation` asks the other question: what if one
group's callers are *not* serialized.

### GroupSystem

Installations, each with the rows of one group as far as Commits decide them,
and the service's log, which takes one Commit per epoch. Answers are lost and
asked for again, so a decision is read off the log whenever an installation
learns of it: `Merge` and `Discard` need the answer, `ReceiveCommit` and
`ReceiveExternal` the fetched Commit. Two members may prepare Commits in one
epoch; an installation may be removed, added again by a Welcome, lose its rows,
prepare an external candidate, enter otherwise meanwhile, and try to accept the
old candidate. `origin` is the Commit that led to the epoch and stands for its
secrets.

### RosterAuthority, RosterTransitions, StateDigests

`RosterAuthority` translates the validation of decisions: removals by full leaf,
additions by expected binding and KeyPackage, exact deltas, canonical rosters;
and where OpenMLS places additions. In `RosterTransitions` owners decide on the
roster they see and any member executes the decision later, perhaps twice, after
other Commits have reused indices. `CommitDecision` is `prepare` with its order
of checks, the capacity computed from the lengths of the caller's lists
(`saturating_sub`) included.

`StateDigests` has the framing of the two digests, byte string by byte string,
with SHA-256 taken for injective. `GroupRows`, `Installation` and
`ExternalResync` compare rosters and rows instead of digests; the named
assumptions `RosterDigestNames` and `StateDigestNames` of `MCInstallation`
check, over identities, keys and rows of several lengths and in every order,
that this is the same.

### PublicValidator, ExternalResync

`PublicValidator` is `public.rs` and the shape checks of `preflight.rs`, in the
order of the code. A group state is epoch, roster, the times the leaves expire,
and `ctx`, the sequence of the Commits that led there: it stands for tree, group
context and confirmation tag. A hash is what it is taken of. Refusals are not
told apart. The validator cannot check the confirmation MAC or the external
public key (`PUBLIC_VALIDATOR_V1.md` says so); nor can the model's.

In `ExternalResync` a member publishes GroupInfos, the group moves on, an
installation that lost its rows prepares candidates for a leaf, restarts at any
time (candidates are the caller's), the service orders what the validator
verifies, the member receives with its own checks, and the author accepts. A
clock lets leaves expire in between. The incarnation and the transition context
are chosen once per operation and compared for equality: they are left out.

### RatchetTree

The diffs of `treesync/diff.rs` over the array representation, the order of
`apply_proposals.rs`, filtered update paths, resolutions with unmerged leaves,
and the keys `merge_diff` keeps. A parent's key is not a value but the set of
the leaves whose installation has its private half (`holders`); all removed
installations together are `Former`. Trees grow, are trimmed and grow again; a
diff reads what it does not hold from the original tree, as the code does.
`PreflightTree` and `PreflightPath` are the validator's bounds.

A leaf is occupied or not, so the leaves of a tree are a set; its parents are a
function of level and position. A resolution is a list in the code; it has no
element twice and runs from left to right, a parent before its unmerged leaves,
so it is a set here, `Precedes` is its order and `Place` the index of an element
in it. The recursion of `resolution` over the two children is a recursive
function of the nodes (`ResolutionAt`), that of `add_leaf` over the additions one
of their number.

### AccountBundles, AccountEnvelope, InvitationPreview

`AccountBundles` has creation, authorization, decoding and `verify_continuity`
as operators; a key stands for the HPKE and the signature pair made together.
`AccountEnvelope` has the callers: roots of an account (a device at an authority
generation) that race to rotate and reset, lose their store, publish late and
twice; contacts that pin, are shown any selection and order of bundles, and
trust again after a reset; envelopes sealed in between. The account service and
the callers' transactions are external: a retired predecessor is stored together
with the successor it authorized, and the service keeps one bundle per
generation, the first that continues its newest. `InvitationPreview` has the
text of an invitation: trimming, NFC with its quick check, case folding of tags,
the padding class.

### NativeFrames, NativeReceive, FrameBudget, CustodyBudget

A payload is a sequence of CBOR heads. The code writes one decoder and one
encoder per map by hand; here one table of steps, `Fields(op)`, lists the keys
of each map with their bounds and the consistency checks between them, in the
code's order: the steps before the storage rows, the key of the rows and the
steps after them. Nested maps are laid out flat, and a step within an optional
field is taken if the field is there (`when`). `Decode` reads a frame against
the table, with the preflight scan (depth, items, shortest form, ascending keys)
before any field, and `Encode` writes one. The scan recurses in the code; here
it is a walk over the heads with a stack of the containers that are open.
`NativeReceive` is one call: a request is encoded, an encoder of another
language makes a slip in one head (`Slip`), an adapter refuses null and
oversized arguments, `Execute` decodes and runs, the runtime answers with a
result, an error or a panic, and `Return` passes the frame through the adapter.
Its specification is `CallSpec`, so that `BoundaryProofs` can extend it next to
`SnapshotStorage`.
The reader of secret rows is separate, so that it is seen when they are copied.
The bounds are the real ones in bytes; the number of rows and of items is scaled
down (`MaxRows`, `MaxItems`). The decoder does not check that a row's label
agrees with its scope (the storage adapter does), and the order of rows is free;
the model keeps both.

`FrameBudget` and `CustodyBudget` have the sizes: how many bytes and items a
request, a result, the metadata row, a validator frame or a candidate envelope
can take, from the bounds of their fields. `Measured`, an assumption of
`MCNativeReceive`, compares the formulas with frames that `Encode` makes.

## 3. Runs

| Run | Properties | Bounds | What it shows |
|---|---|---|---|
| `sender_ratchet` | `TypeOK`, `WindowExact`, `ImplementsWindow` | tolerance 2, forward distance 3, generations 0..7 | the head passes through every distance to the last generation; keys are skipped, pruned, taken late, refused; `RatchetTooLong` is reached |
| `receive` | `PlaintextOnce`, `RetainedInStep`, `DeliverableExactlyOnce`, `ErrorsTruthful` | retention 2, tolerance 2, forward 1, epochs to 4, 11 messages of one peer, two Welcomes, no own sending | messages on both sides of the window, an epoch evicted (epoch 1 at epoch 4), own removal and return, external Commits |
| `pending` | `TypeOK`, `SealOnce`, `AlwaysLoads`, `RatchetsNeverRewind` | as above with epochs to 3, two own ciphertexts per ratchet and epoch, three messages of a peer | prepare, merge, discard and supersede in every order with sending and receiving; a Welcome delivered again |
| `installation` | `ImplementsLifecycle`, `DigestNamesLife` | two workers that may call everything (interchangeable: symmetry), epochs to 2, one own ciphertext per ratchet and epoch, one Welcome | every interleaving of two workers' reads, calls and stores with crashes |
| `storage` | `SnapshotsAccepted`, `QueueAgrees`, `EpochKeysCurrent`, `NoOrphans`, `ImplementsRowStore` | two groups, two workers, two KeyPackages, one proposal; epochs and leaves whose encodings coincide (1, 11) | overlapping calls of different groups and of the installation, own removal, deletion, colliding keys; 63,953 states |
| `group_system` | `Agreement`, `RowsNeverReplaced`, `CatchesUp`, `SendsAgain` | two founders, three epochs, one external candidate each | lost races, removal, return by Welcome and by candidate, candidates and Welcomes that come too late; liveness under `FairSpec` |
| `account` | `SuccessorUnique`, `SameAnchorSameKeys`, `EnvelopesOpen`, `RotationsReachContacts` | two accounts, three roots, two contacts, three generations, one store lost, one envelope over five previews, responses of up to two bundles, chains of one link at a time | two roots race to the same generation, resets, refused bundles shown to contacts, retired keys that open; liveness under `FairSpec` |
| `roster` | `DeltaIsExact`, `WithinCapacity`, `OnlyAsDecided` | groups of up to three, lists of up to two, four bindings, three epochs | stale and repeated decisions, indices reused, duplicates in lists, the limit |
| `native_frames` | `DecodesExactly`, `RowsAfterAuthority`, `SuccessDelivered` | the real byte bounds; 4 rows, 140 items; every single slip in every head of every request of both versions | frames at and beyond each bound, version and operation mixed up, panics, results too large; 61,390 states |
| `resync` | `VerifiedIsExact`, `ResyncPossible`, `OrderedReceivable`, `AcceptedPromotes`, `PromotedOnLine` | three founders at leaves 0, 1 and 3, two candidates, two epochs, one tick, one change of the lifecycle | a group that moves on, a leaf that expires, two attempts of one authority, whatever other clients could put together; 61,992 states |
| `tree` | `HoldersExact`, `PathsReadOnce`, `PassesPreflight` | height 3, six members, two removals and additions per Commit | trees that shrink and grow, unmerged leaves, blank paths, external Commits |
| `selected_leaf` | `SelectedIsReplaced` (violated) | as `tree` with one change per Commit | the finding below |

In words, the properties that take a sentence:

* `WindowExact`: within the window a generation is answered if and only if it
  was never handed out, whatever forged ciphertexts and failed calls came
  before. `DeliverableExactlyOnce`: a message is opened if and only if its epoch
  is retained, its key in reach and the message not handed out before.
  `ErrorsTruthful`: a message refused as a replay was handed out.
* `RetainedInStep`: OpenMLS's past epochs and the package's roster history hold
  the same epochs. `AlwaysLoads`: `runtime::load` accepts what any operation
  left. `RatchetsNeverRewind`: no step brings back a spent key or a passed
  counter. `DigestNamesLife`: a digest of rows that are present belongs to one
  life of the group. It is stated of the rows a batch was read from: a deletion
  compares no digest, and only the lifecycle fence keeps one that was decided in
  an earlier life from deleting the group's rows of a later one.
* `QueueAgrees`: the list of queued references and the rows of queued proposals
  agree, so that clearing the queue leaves none behind. `EpochKeysCurrent`: a
  group has one row of epoch key pairs, that of its live epoch and leaf.
  `NoOrphans`: no row outlives its group.
* `Agreement`: every installation is on the Commit the service ordered, not only
  on its roster. `RowsNeverReplaced`: rows enter only where there are none, at a
  leaf never held before. `CatchesUp`, `SendsAgain`: an active installation that
  is behind moves on; one that may not send can send again.
* `SuccessorUnique`, `SameAnchorSameKeys`: chains do not fork, whichever bundles
  a contact is shown. `RotationsReachContacts`: a contact reaches the newest
  rotation without a decision of the user. `EnvelopesOpen`: an invitation opens
  exactly if its text keeps no combining mark after composition (see below).
* `DeltaIsExact`: a delta is accepted if and only if the result keeps every
  retained leaf and places each addition once. `OnlyAsDecided`: a decision
  removes and adds only what it names, however late it is executed.
* `DecodesExactly`: a frame that is accepted is what the encoder makes of the
  request it decodes to, up to the order and the labels of rows; what the
  encoder writes is decoded to itself. `RowsAfterAuthority`: secret rows are
  copied only after the public authority of an external Commit is consistent.
  `SuccessDelivered`: once the runtime succeeded the caller gets a result frame,
  unless the Android adapter cannot allocate it.
* `VerifiedIsExact`: whatever base, Commit, authority and claimed result are put
  together, the validator verifies only the state members derive from that
  Commit, in which the authorised leaf alone was replaced. `ResyncPossible`: an
  author that may prepare is not refused by the checks on its own result, except
  in the shape of the finding. `OrderedReceivable`, `AcceptedPromotes`,
  `PromotedOnLine`: what was verified is received by the member, and promoted by
  the author however late, to the state that was ordered and no other.
* `HoldersExact`: the private key of a parent is with exactly the members below
  it that are not unmerged. `PathsReadOnce`: an update path is read by all who
  stay, by each at one place, and by no one else. `PassesPreflight`: no tree or
  path the group can reach is refused by the validator's bounds.

**Bounds.** They are named constants. `receive` and `pending` split one model by
question: with `MaxSent = 0` no own Commit is possible and the receiving side
has room for more messages and epochs; in `pending` it is the other way round.
Retention 2 is the smallest value the code admits (`validate_retention`: 2 or 4)
and eviction happens within the bound on epochs. Two workers suffice for lost
races, because a worker interferes with another only through the shared rows,
which two workers change in every order; for the same reason two groups suffice
in `storage`. In `resync` leaf 3 is alone in the right half and the first half
is full when leaf 1 stays, so that replaced leaves land before, at and after
their old place. Six members in a tree of height 3 leave a right half with and
without its first leaf. Where the theorems of section 5 exist, they cover all
values of the constants.

**Deadlock** is checked in `sender_ratchet`, `installation` and `native_frames`.
In the others the bounds on epochs, ciphertexts, candidates or generations leave
states in which nothing more is possible.

**Mutants.** Every property is shown to depend on the code: for each one a
mutated definition (a key copied instead of taken, an eviction one epoch early
or late, a discard that restores ratchets, a report compared by its roster only,
a queue cleared without its rows, a predecessor that keeps its key...) is
written next to the original and makes TLC report a violation.

**Finding** (`selected_leaf`). `shrink_tree` drops what a diff says of the
leaves beyond the smaller tree, the blanked leaf among them. If `add_leaf` then
grows the same diff, that leaf is read from the original tree, where it is still
occupied. Only an external Commit adds a leaf after its tree was trimmed. So
with members at leaves 0, 1 and 3, replacing leaf 3 by `with_resync_leaf` makes
a tree with members 0, 1, 2 *and* 3. It happens exactly if the replaced leaf is
the only member in the right half, is not its first leaf, and the left half is
full. The author's own checks and the validator refuse the result, so the system
fails closed, but that installation cannot resync until the group changes. The
tests replace other leaves (`rust/src/external_resync/tests.rs:441`).

**A divergence that fails closed.** Sealing an invitation composes its text
(`invitation.rs:289`); opening asks the quick check for Yes (`:301`), which
answers Maybe for a combining mark that composes with nothing. Such an
invitation is sealed and cannot be opened. `EnvelopesOpen` states it exactly,
through `Composed`.

## 4. Fairness

Only `group_system` and `account` assume fairness, and only of callers that
retry what they hold. No package code runs by itself, so it promises nothing.

* `group_system`. Callers keep a journal of pending Commits and retry with the
  exact bytes until they are settled (`README.md`, "Caller-owned transaction
  boundary"): weak fairness of `Submit`, `Merge`, `Discard`, of
  `ReceiveExternal`, and of `Unblock`, the self-update of an installation that
  queued proposals keep from sending. A fetched Commit is refused while an own
  one is pending and presented again afterwards, however often a new one is
  prepared in between: strong fairness of `ReceiveCommit`. Nothing is assumed of
  other members, of joining, leaving or external candidates.
* `account`. A contact asks again and the service answers with the links that
  follow its pin, at most `MaxLinks` at a time and none past a reset: weak
  fairness of `Ask`. Nothing is assumed of owners and users.

## 5. Proofs

Eight modules hold theorems; TLAPS checks them for every value of the constants
that satisfies the named assumptions of the modules they extend. Every safety
property that a passing run checks is proved, but for `DecodesExactly`.

Where an argument goes over the numbers (a chain of rotations, a text that
shrinks as it is composed, the leftmost blank leaf), it takes the least
counterexample: `LeastNumber`, that every set of numbers that is not empty has a
least member, follows from the well-foundedness of `<` without an operator
parameter. So a recursive function is unfolded once, at the least input at which
the claim would fail.

### SenderRatchetProofs

`PlaintextOnce` is not inductive: to know that a key given out was not given out
before, one must know that the queue holds keys exactly of the generations not
handed out. That is `Holds(r, count)`: the queue is as long as the tolerance
allows and no longer than the head; its entry *i* is `Some` if and only if
generation `head - i` was never handed out; nothing at or beyond the head was.
The inductive invariant `IInv` adds the types and says of a running call that
its ratchet in memory is the stored one, or the stored one after one `Ok`
answer. `HoldsAfter` is the heart: it follows each index of the queue through
the push of the skipped keys, the placeholder and the truncation. Nothing is
assumed of how tolerance, forward distance and maximum generation compare, but
that the distance is at most the maximum.

| Theorem | Statement |
|---|---|
| `TypeCorrect`, `Invariance` | `Spec => []TypeOK`, `Spec => []IInv` |
| `PlaintextHandedOutOnce` | `Spec => []PlaintextOnce` |
| `WindowAlwaysExact` | `Spec => []WindowExact` |
| `IndexAlwaysInRange` | `Spec => []IndexInRange`: the `IndexOutOfBounds` arm is dead |
| `RefinesReplayWindow` | `Spec => ImplementsWindow` |

For the refinement, `HeldKeys` reads the set of keys off the queue;
`DerivedKeys` and `TakenKeys` show that the two outcomes change this set as
`TakeKey` does. So `Finish` is an `Accept`, and all other steps stutter.

### GroupLifecycleProofs

`SealOnce` needs to know which keys are still unused. `SealInv` says: keys of
epochs not reached yet are unused (`LaterUnsealed`); the group is in the last
epoch reached (`InLastEpoch`); in that epoch keys from the encryption counter on
are unused (`CounterUnsealed`); a joined Welcome has cost its KeyPackage
(`JoinedConsumed`), so a Welcome delivered again finds none and cannot lead back
into an old epoch. Every operation is first shown to do one of four things to an
installation: stay in its epoch and seal only under keys its counters pass
(`Stays`), lead to the next epoch without sealing (`Advances`), enter an epoch
(`Enters`), or leave no rows. The invariant then needs one argument for each of
the four.

Two more inductive invariants stand above it. `LoadInv` says that the rows are
`Sound`: they load, the roster proposed by a pending Commit is not empty, and,
while the group is active, past epochs and history keep the same epochs in the
same order. It is needed because a step relies on the checks of `load` and has
to restore all of them; for the two lists, because `add` and `advance` evict by
their own lengths, which agree only if the lists do (`EvictTogether`). One lemma
per operation shows that it leaves sound rows.

`HandedInv` relates what was handed out to what is still held: epochs not
reached yet have handed out nothing (`LaterUnhanded`); in the epochs still held,
the key of every message handed out is spent, and a key below the head that is
gone was handed out (`HandedSpent`). Both directions are needed: the first for
"not twice", the second for "exactly once". Each operation is shown to
`Deliver`: what it opens had its key, that key and all keys spent before are
spent afterwards, no other key is taken, nothing is rewound. The invariant then
needs three cases: a step that delivers, one that enters an epoch not reached
before (by `SealInv`), and deletion.

| Theorem | Statement |
|---|---|
| `SealInvariance`, `LoadInvariance`, `HandedInvariance` | `Spec => []SealInv`, `[]LoadInv`, `[]HandedInv` |
| `LifecycleTypeCorrect`, `NoKeySealsTwice` | `Spec => []TypeOK`, `[]SealOnce` |
| `AlwaysLoadable`, `RetainsInStep` | `Spec => []AlwaysLoads`, `[]RetainedInStep` |
| `NoPlaintextTwice`, `OpensExactlyOnce`, `ErrorsAreTruthful` | `Spec => []PlaintextOnce`, `[]DeliverableExactlyOnce`, `[]ErrorsTruthful` |
| `NoRatchetRewinds` | `Spec => RatchetsNeverRewind` |

With these, every property that `receive` and `pending` check is proved. The
theorems on sealing and delivery rest on the guard of `JoinGroup`: without it, a
Welcome for an old epoch under a KeyPackage not yet consumed would start that
epoch's ratchets afresh.

The last part of the module is about `Installation`: any number of workers, of
either kind. `InstInv` is `SealInv` and, of every
read and every batch in flight: its rows are of this life of the group or of an
earlier one, and then all of an earlier epoch (`ReadOfLife`); a KeyPackage seen
stored still is, as long as the same life has no rows (`StoredKept`); a batch was
computed by a call on the rows of its digest, or enters a group and still may,
or deletes (`BatchAllowed`). A batch that the compare-and-apply lets through was
therefore computed on the rows as they are, or on a group that is as absent as
when it was read, and its `Store` is the atomic operation; every other step
stutters. That the epochs of two lives never meet is what makes a digest name a
life, and it comes from the guard of `JoinGroup` again.

| Theorem | Statement |
|---|---|
| `InstInvariance` | `InstSpec => []InstInv` |
| `InstallationRefines` | `InstSpec => ImplementsLifecycle` |
| `DigestsNameLives` | `InstSpec => []DigestNamesLife` |
| `InstallationSafe` | what is proved of operations one at a time holds of workers that overlap and crash |

### GroupSystemProofs

`Agreement` is inductive with what the ordering service promises: the log has
one Commit for each epoch, made in the epoch before (`LogInOrder`); a Commit
pending with an installation is of its own epoch (`PendingCurrent`). For
`RowsNeverReplaced`, candidates have leaves of their own installation, numbered
as they were prepared (`CandidatesNumbered`); the leaves of candidates not
prepared yet, of the unused KeyPackage and of candidates of the present lifecycle
were never entered (`NotYetEntered`), any other at most once (`EnteredOnce`).

| Theorem | Statement |
|---|---|
| `SystemInvariance`, `LeavesEnteredOnce` | `Spec => []IInv`; no leaf is entered twice |
| `InstallationsAgree` | `Spec => []Agreement` |
| `LiveRowsKept` | `Spec => RowsNeverReplaced` |

### BoundaryProofs

*Rows.* That batches computed on old snapshots act at once has three reasons.
What an operation makes of a group's rows depends on them alone
(`RunDependsOnGroup`); it changes no row elsewhere but the KeyPackage it
publishes or uses up (`RunElsewhere`); and the fences keep two calls from
touching the same rows (`Apart`). So the invariant says of an open call that the
rows it read of its group, and of the installation if it uses them, are still
there as it read them, and that the operation still succeeds and still may run
(`CallOK`). `BatchIsAfter` then compares, key by key, the caller's transaction
with the promise of `RowStore`. The rows themselves keep `GroupOK`: a group is
present with everything its operations read, or has no row at all (`PresentOK`);
the list names the queued proposals (`QueueOK`); there is one row of epoch key
pairs, the live one (`KeysOK`). For the last, `NextKeyDiffers` shows that epochs
one apart are never encoded alike at one leaf, so that the row a merge deletes
is not the row it has just written, for all epochs and leaves: `Digits` writes a
number of any length, and different numbers differently (`DigitsInjective`, by
induction over the number; `DigitsStep` shows first that the recursive function
exists), so that equal keys of one leaf would be keys of one epoch. The fences
are assumed, as the repository asks for them.

| Theorem | Statement |
|---|---|
| `StorageInvariance` | `Spec => []StorageInv` |
| `BatchesActAtOnce` | `Spec => ImplementsRowStore` |
| `SnapshotsAlwaysAccepted`, `QueueAlwaysAgrees` | `Spec => []SnapshotsAccepted`, `[]QueueAgrees` |
| `EpochKeysAlwaysCurrent`, `NoRowOrphaned` | `Spec => []EpochKeysCurrent`, `[]NoOrphans` |

*Sizes.* Arithmetic over `FrameBudget` and `CustodyBudget`. `RequestsFit`,
`ItemsFit` and `ResultsFit`: no request whose fields are within their bounds is
refused for its length or its items, no result of the runtime for its length.
`MetadataFits`, `ValidatorFramesFit` and `CandidatesFit`: the same of the
metadata row of a full group, of the validator's frames and of the candidate
envelope.

*Native calls.* `SuccessDelivered` is `ResultsFit` put to use: whatever is within
the bounds of the runtime (`RuntimeBounded`) is encoded (`BoundedEncodes`), so
that `Answer` never replaces a success. `ResultsAssumption` says only that sizes
and counts are natural numbers. `RowsAfterAuthority` holds because of what is
read before the rows, so the proof goes through the decoder. A step keeps the
rows (`FieldKeeps`), and so does a table of steps, by induction over its length
(`ReadFieldsKeep`). A table that ends in a check is read without an error only
if what was read passes it (`LastCheck`), which is the table of operations 4 and
5 before the rows. The scan adds a row only within the aggregate bound
(`RowKeepsBound`; a row that was read has a size, `RowRead`), and sorting the
rows leaves their total as it is (`SortedSize`). `DecodeAuthorises` has the
result, of every frame. Over the steps, `Consistent` adds that what is decoded
belongs to the frame the call holds: a slip may change the frame, but not once
it is decoded. `RowsAfterAuthority` alone does not exclude that.

The induction over the numbers (`Induction`) is the least counterexample again,
for a set instead of an operator. Each recursive function of the decoder needs a
lemma that it exists (`SumExists`, `SortExists`, `ReadingExists`, `ScanExists`);
the four differ in the step alone, and a lemma over steps would need an operator
as parameter.

| Theorem | Statement |
|---|---|
| `ResultsAlwaysDelivered` | `CallSpec => []SuccessDelivered` |
| `RowsAlwaysAfterAuthority` | `CallSpec => []RowsAfterAuthority` |

### AccountEnvelopeProofs

`KeyInv` follows a key: it is stored in one private frame on one root
(`StoredOnce`), and once a released bundle names it as predecessor that frame is
retired (`PredecessorsRetired`). `PinsChained` says that a pin hangs on its
anchor by a chain of published rotations, one for each generation between them;
two chains from one bundle agree wherever both have a link, because no key has
two successors. `EnvelopeInv` says that a key belongs to one account and one
generation, whatever names it (`Named`), and that an envelope has the canonical
form of a preview that could be typed and sealed. For an invitation to open,
composing must not undo the trimming: `NfcEnds` shows that it leaves the ends of
a text clear of white space. `Nfc` is a recursive function over the characters,
and the lemma takes the least number of characters read at which it would fail.
`SealedIsShown` then says that opening refuses only a combining mark that was
left. `EnvelopeAssumption` asks that what is typed be sequences of characters.

| Theorem | Statement |
|---|---|
| `SuccessorsUnique`, `AnchorsAgree` | `Spec => []SuccessorUnique`, `[]SameAnchorSameKeys` |
| `EnvelopesAlwaysOpen` | `Spec => []EnvelopesOpen` |
| `RetiredSealNothing` | `Spec => RetiredNeverSeals`: a key seals nothing once it has a successor |

### RosterTransitionsProofs

The capacity check counts list entries, not leaves. A counting argument on
finite sets shows that this is enough: removals that pass are distinct members,
additions that match are at most as many as their list. `RosterInv` adds that
the roster is finite and canonical. `CapacityKept` is `Spec =>
[]WithinCapacity`, `DecisionsHonoured` is `Spec => OnlyAsDecided`.
`DeltaAlwaysExact` is `Spec => []DeltaIsExact`, for rosters of any size within
the limit: the checks of `validate_exact_delta` go by the length of the lists and
by membership, and decide what the definition of a legal result says of
placements.

### ExternalResyncProofs

`ResyncInv` says that the `ctx` of the *i*-th state of the line has *i* - 1
Commits, that every published GroupInfo and every candidate's base is a state of
the line, what the checks made at preparation found of each candidate, clock
left out (`Checked`), and `PromotedOnLine`. The member is at the state a Commit
was made for because no two states of the line have a `ctx` of the same length.
`PromotedWereOrdered`, `AcceptedArePromoted` and `OrderedAreReceived` are
`PromotedOnLine`, `AcceptedPromotes` and `OrderedReceivable` of `Spec`.

`ShapeInv` says that every state of the line is finite, has canonical leaves
within the tree and a lifetime for each leaf. With it, `VerifiedAreExact`
(`VerifiedIsExact`) compares the validator's checks on the difference of two
rosters with the one replacement a member derives, and `ResyncIsPossible`
(`ResyncPossible`) goes the other way: what the author builds passes each of
those checks, unless the shape is that of the finding, which `ReturnsOnlyAlone`
and `WidthExists` derive from the widths of the tree (the powers of two to 256).
Assumed of the constants: founders are finitely many leaves, the tree's indices
run from 0 to at most 255, and no clock passes the latest lifetime
(`FoundersAssumption`, `BindingsAssumption`, `TimeAssumption`).

### RatchetTreeProofs

Trees of every height. `HoldersExact` is not inductive. `Good` adds to it, of
every parent that is not blank: its unmerged leaves are members below it,
somebody holds its key, and the subtrees of both its children are inhabited.
The last is why `merge_commit` loses no key: it keeps those of the filtered
direct path, and a parent with an empty child would not be on it (`OwnedIs`).
`TreeInv` says that all parents are good, that nothing is left beyond the size,
that the size is a power of two within the limit, and that the members are not
more than a roster may have.

*Paths.* By induction over the levels, every member below a node that is not
excluded holds the key of exactly one element of its resolution (`HeldExists`,
`HeldOnce`), and nobody else holds any (`HeldUnder`). What the sender leaves out
of a resolution after computing it, the receiver leaves out while it does; the
result is the same (`FilteredResolution`), so the ciphertext is at the place
where the receiver looks (`StaysReads`). Hence the learners of a level are the
members below it, and the path leaves good parents (`PathSetIs`, `PathSetGood`).

*Changes.* Blanking a direct path leaves no parent above a removed leaf, so no
key of a removed installation is in use (`BlankedIs`); an added leaf is unmerged
wherever it does not hold the key (`SoundAdd`), and there is room for it as long
as the members are fewer than the leaves. Trimming takes what it drops back from
the original tree (`TrimIs`); that does no harm to a Commit of a member, since
what is beyond the size is never merged (`MergedIs`). The external builder does
grow again after the trimming, and can find a stale parent: `ReplacingIs` shows
that, if the result is not refused, the replaced leaf was the only one beyond the
trimmed tree and is gone, so only the new root can be stale, and the author's
path replaces it.

The prover knows nothing of powers. `PowType` and `PowNext` derive that 2^*n* is a
number and doubles with *n* from the theorem that a set of *n* elements has 2^*n*
subsets. `TreeConstants` asks only that the roster limit is no more than the
leaves and that `Former` is none of them.

| Theorem | Statement |
|---|---|
| `TreeAlwaysSound` | `Spec => []TreeInv` |
| `HoldersAlwaysExact` | `Spec => []HoldersExact` |
| `PathsAlwaysReadOnce` | `Spec => []PathsReadOnce` |
| `PreflightAlwaysPasses` | `Spec => []PassesPreflight` |
| `FilteredResolution` | of every tree, node and set of leaves left out |

### Only model-checked

* Safety: `DecodesExactly`, and the digests (assumptions of `MCInstallation`).
  The first says that reading is the inverse of writing: an induction over both
  the tables and the frame, whose field names are concatenated strings
  (`"previous" \o ".epoch"`) that the provers cannot tell apart.
* Out of the prover's reach: liveness under fairness (`CatchesUp`, `SendsAgain`,
  `RotationsReachContacts`).

`RetiredNeverSeals`, and `PlaintextOnce` and `IndexInRange` of `SenderRatchet`,
are proved and not part of a run.

## 6. Not modelled

* Key schedule, signatures, AEAD, MACs, serialization of MLS messages and
  OpenMLS's validation of framing, credentials and extensions: their results are
  inputs (a ciphertext decrypts or not, a Commit is valid). A message a model
  processes is genuine; forged ones are the subject of `SenderRatchet`.
* Forward secrecy in memory: zeroization, and the wiping of returned buffers,
  which is a contract of the foreign caller.
* The proposal queue in the runtime core: one flag there; its rows are in
  `StorageRows`.
* `rust/src/native_receive_v1.rs` and its vectors: a test fixture of a retired
  contract, absent from production builds. The `legacy_*` wrappers of
  `group_e2ee.rs` belong to it.
* Byte layouts of the account envelope and of the validator's frames:
  fixed-length fields, written and read in one order; their sizes are in
  `CustodyBudget`. The table of `unicode17_casefold.rs` is data.
* The number of KeyPackage rows: `create_key_package_with_storage` puts no bound
  on it, so there is none to check.
* Keys, credentials, configuration, types: stateless conversions.
* Generated code (`frb_generated.rs`, the Dart bindings), build hook, scripts,
  CI, examples.

The generated code, the Unicode table, version 1 and the test vectors are more
than half of the lines of the implementation; the rest of what no definition
names is mostly conversion, error wording, doc comments and tests.

## 7. Plan

1. Proofs: `DecodesExactly` of `NativeReceive`, with numbered fields in place of
   names.
2. The proposal queue behind the flag of `GroupRows`: by-reference proposals,
   when they are cleared, and what survives own removal.
3. `GroupSystem` over `ExternalResync`: several members and losing Commits with
   the checks modelled.
