---------------------------- MODULE FrameBudget -----------------------------
(***************************************************************************)
(* How large the frames of native_receive_v2.rs and native_receive_v3.rs   *)
(* can get, in bytes and in CBOR items, from the bounds of their fields.   *)
(* The bounds of a frame, of its fields and of the runtime's batches are   *)
(* constants of different files; a frame bound that is smaller than what   *)
(* the field bounds allow refuses a receive that is otherwise legal, and   *)
(* refuses it again on every retry.                                        *)
(***************************************************************************)
EXTENDS Integers

RequestBytes == 12 * 1024 * 1024     \* NATIVE_RECEIVE_REQUEST_MAX_BYTES
ResultBytes == 8 * 1024 * 1024       \* NATIVE_RECEIVE_RESULT_MAX_BYTES
BatchBytes == 6 * 1024 * 1024        \* NATIVE_RECEIVE_STORAGE_MAX_BYTES
BatchRows == 4096                    \* NATIVE_RECEIVE_STORAGE_MAX_ENTRIES
WireBytes == 1024 * 1024
TreeBytes == 2 * 1024 * 1024
AadBytes == 16 * 1024
SignerBytes == 4096
PlaintextBytes == 256 * 1024
RosterLeaves == 256
PreflightItems == 32768

(* A head takes at most 9 bytes; the encoded maps, each of their keys one  *)
(* byte.  Row: a map of key (at most 4096 bytes), value (at most 2 MiB)    *)
(* and label.                                                              *)
HeaderSize == 12
LeafSize == 1 + (1 + 5) + (1 + 2 + 45) + (1 + 2 + 32)
StateSize == 1 + (1 + 1 + 16) + (1 + 9) + (1 + 2 + 32)
HashSize == 1 + 2 + 32
IdSize == 1 + 2 + 128
RowHeads == 1 + (1 + 3) + (1 + 5) + (1 + 1)
SnapshotSize(rows, bytes) == 1 + (1 + 1) + (1 + 3) + RowHeads * rows + bytes
PendingSize == 1 + (1 + 17) + 2 * IdSize + 5 * HashSize + (1 + LeafSize) + (1 + StateSize)

(* The largest frame of a request: a message, AAD, tree and signer of w,   *)
(* a, t and s bytes and a snapshot of so many rows and bytes.              *)
Outer == HeaderSize + 1 + (1 + 3) + (1 + 5)      \* header, map, profile, retention
ProcessSize(w, a, rows, bytes) ==
  Outer + (1 + 17) + (1 + 5 + w) + (1 + 3 + a) + (1 + LeafSize) + 3 * (1 + StateSize)
  + 2 * HashSize + IdSize + (1 + SnapshotSize(rows, bytes))
WelcomeSize(w, t, s, rows, bytes) ==
  Outer + (1 + 5 + w) + (1 + 5 + t) + (1 + 3 + s) + (1 + LeafSize) + (1 + StateSize)
  + 2 * HashSize + IdSize + (1 + SnapshotSize(rows, bytes))
AcceptanceSize == 1 + 2 * IdSize + 5 * HashSize + 2 * (1 + StateSize) + 2 * (1 + LeafSize)
ExternalSize(w, a, rows, bytes) ==
  Outer + (1 + 17) + IdSize + (1 + 5 + w) + (1 + 3 + a) + HashSize + (1 + AcceptanceSize)
  + (1 + PendingSize) + (1 + SnapshotSize(rows, bytes))
InspectSize(rows, bytes) ==
  Outer + (1 + 17) + IdSize + (1 + StateSize) + HashSize + (1 + SnapshotSize(rows, bytes))

(* The items preflight counts: every map, array, key and value. *)
LeafItems == 7
StateItems == 7
SnapshotItems(rows) == 4 + 1 + 7 * rows
ProcessItems(rows) == 1 + 13 + 8 + LeafItems + 3 * StateItems + SnapshotItems(rows)
WelcomeItems(rows) == 1 + 11 + 8 + LeafItems + StateItems + SnapshotItems(rows)
ExternalItems(rows) ==
  1 + 10 + 7 + (1 + 11 + 7 + 2 * StateItems + 2 * LeafItems)
  + (1 + 10 + 8 + LeafItems + StateItems) + SnapshotItems(rows)
InspectItems(rows) == 1 + 7 + 5 + StateItems + SnapshotItems(rows)

(* encode_roster, encode_storage_batch, encode_success: the largest result *)
(* for a plaintext, two rosters and a batch of so many rows and bytes.     *)
RosterSize(leaves) == 1 + (1 + 17) + (1 + 9) + (1 + 3) + LeafSize * leaves + HashSize
BatchSize(upserts, deletes, bytes) ==
  1 + (1 + 1) + (1 + 3) + RowHeads * upserts + (1 + 3) + 3 * deletes + (1 + 1) + bytes
ResultSize(plaintext, previous, resulting, upserts, deletes, bytes) ==
  HeaderSize + 1 + (1 + 3) + (1 + 1) + 1 + (1 + 1) + (1 + 1 + LeafSize)
  + (1 + RosterSize(previous)) + (1 + RosterSize(resulting)) + 2 * HashSize
  + (1 + 5 + plaintext) + (1 + BatchSize(upserts, deletes, bytes))
  + (1 + 9) + (1 + 5) + (1 + PendingSize)
=============================================================================
