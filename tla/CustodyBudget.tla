---------------------------- MODULE CustodyBudget ----------------------------
(***************************************************************************)
(* How large the CBOR records get that are written to be read again later: *)
(* the local metadata row of a group (local_group_state.rs), the frames of *)
(* the public validator (external_resync/codec.rs) and the envelope of a   *)
(* candidate (runtime/external/candidate.rs).  The bound of a record and   *)
(* the bounds of its fields are constants of different files: a record     *)
(* that could outgrow its bound would be refused when it is written, in    *)
(* the middle of an operation whose inputs are all legal, and every retry  *)
(* would end there again.                                                  *)
(***************************************************************************)
EXTENDS Integers

ValueBytes == 2 * 1024 * 1024          \* local_group_state.rs MAX_VALUE
ArtefactBytes == 1024 * 1024           \* MAX_MLS_BYTES, MAX_WIRE
AadBytes == 16 * 1024                  \* MAX_AAD_BYTES
Leaves == 256                          \* MAX_LEAVES
Retained == 4                          \* validate_retention: 2 or 4 epochs
ValidatorRequest == 4 * 1024 * 1024    \* codec.rs REQUEST_MAX_BYTES
ValidatorResult == 256 * 1024          \* codec.rs RESULT_MAX_BYTES
EnvelopeBytes == 12 * 1024 * 1024      \* candidate.rs MAX_BYTES
RowBytes == 6 * 1024 * 1024            \* entry_bytes
Rows == 4096                           \* entry_bytes

(* A head of n takes 1, 2, 3 or 5 bytes as n is below 24, 2^8, 2^16, 2^32; *)
(* below are the largest a field can need.                                 *)
GroupId == 1 + 16
Epoch == 9
Hash == 2 + 32
Id == 2 + 128
Identity == 2 + 45
Key == 2 + 32
LeafRecord == 1 + 5 + Identity + Key
StateRecord == 1 + GroupId + Epoch + Hash
RosterRecord(leaves) == 1 + GroupId + Epoch + 3 + LeafRecord * leaves + Hash

(* LocalGroupState::encode, of a group whose rosters have so many leaves.  *)
PendingRecord(leaves) ==
    1 + GroupId + 2 * Id + Hash + LeafRecord + StateRecord + 4 * Hash
    + RosterRecord(leaves) + 2 * Hash
MetadataRecord(leaves, history) ==
    1 + 3 + 3 + GroupId + Id + 5 + Epoch + RosterRecord(leaves)
    + 1 + history * RosterRecord(leaves) + PendingRecord(leaves)

(* encode_request, for GroupInfos of g and n bytes, a Commit of w bytes    *)
(* and AAD of a bytes.                                                     *)
Header == 12
SnapshotRequest(g) == 1 + 3 + (5 + g) + Hash + StateRecord + LeafRecord
SuccessorRequest(g, w, a, n) ==
    Header + 1 + SnapshotRequest(g) + (5 + w) + Hash + (3 + a) + LeafRecord
    + Identity + Key + (5 + n) + Hash

(* execute, for rosters of so many leaves. *)
VerifiedRecord(leaves) == 1 + 3 + Hash + RosterRecord(leaves) + LeafRecord
SuccessorResult(previous, resulting) ==
    Header + 1 + Hash + 1 + 1 + VerifiedRecord(previous) + 2 * Hash + VerifiedRecord(resulting)

(* candidate::encode, for a proof of p bytes and rows of so many bytes.    *)
Envelope(p, previous, resulting, rows, bytes) ==
    1 + 1 + 3 * Id + 2 * Hash + 5 + (5 + p) + RosterRecord(previous) + RosterRecord(resulting)
    + Hash + 3 + rows * (1 + 3 + 5) + bytes
=============================================================================
