--------------------------- MODULE NativeReceive ----------------------------
(***************************************************************************)
(* One native receive call: an app or extension encodes a request (with    *)
(* this crate's encoder or with its own), an Apple or Android adapter      *)
(* passes the bytes to execute_native_receive_v2 or _v3, and the frame     *)
(* that comes back reports a result or an error.  Nothing is kept between  *)
(* two calls.  Slip stands for what an encoder of another language can get *)
(* wrong; the runtime behind the frames answers with a result within its   *)
(* own bounds, an error, or a panic.                                       *)
(***************************************************************************)
EXTENDS NativeFrames, FrameBudget

CONSTANTS
  Requests(_),    \* <<op, request>>: what callers of a version ask for
  GlobalKeys,     \* storage keys of the installation (snapshot_storage::is_global_key)
  Results,        \* what the runtime may succeed with
  RuntimeErrors,
  MaxSlips

(* Sizes and counts are usize; key and value are the longest of the rows.  *)
(* No key is empty: build_key puts its label first.                        *)
ASSUME ResultsAssumption ==
  Results \subseteq [plaintext : Nat, previous : Nat, resulting : Nat,
                     upserts : Nat, deletes : Nat, bytes : Nat, key : Nat, value : Nat]

VARIABLES
  entry,     \* [platform, version] of the symbol that is called
  asked,     \* the <<op, request>> behind the frame
  frame,     \* the bytes passed, as NativeFrames.Frame; NullPointer; NoCall
  slips,     \* changes made to the encoded frame so far
  decoded,   \* what the frame decoded to, or why it was refused
  runtime,   \* what the runtime answered
  reply      \* the frame returned; NoReply; a null array of the JNI

callVars == <<entry, asked, frame, slips, decoded, runtime, reply>>

Entries_ == [platform : {"apple", "android"}, version : {2, 3}]
NoCall == [none |-> "call"]
NoReply == [none |-> "reply"]
NullArray == [none |-> "array"]
NullPointer(length) == [none |-> "pointer", size |-> length]
IsFrame == "payload" \in DOMAIN frame
Undecoded == [Unread EXCEPT !.err = "none"]
Idle == [kind |-> "idle"]

-----------------------------------------------------------------------------
(* The answers.                                                            *)

Recognised(version) == IF version = 2 THEN 1 .. 3 ELSE Ops

(* operation_hint, and the same filter in execute_native_receive_v3 *)
Hint == IF frame.size >= 7 /\ frame.op \in Recognised(entry.version) THEN frame.op ELSE 0

Failure(op, e) == [version |-> entry.version, op |-> op, applied |-> FALSE, error |-> e]
Success(op, r) == [version |-> entry.version, op |-> op, applied |-> FALSE, result |-> r]

SizeOf(r) ==
  ResultSize(r.plaintext, r.previous, r.resulting, r.upserts, r.deletes, r.bytes)

(* Mutant: the heads of the rows count against the bound of the batch. *)
EncodesResultTight(r) ==
  /\ {r.previous, r.resulting} \subseteq 1 .. RosterLeaves
  /\ r.bytes + RowHeads * r.upserts <= BatchBytes
(* encode_success with encode_roster, encode_storage_batch, add_entry_size, *)
(* encode_frame                                                            *)
EncodesResult(r) ==
  /\ r.plaintext <= PlaintextBytes
  /\ r.previous \in 1 .. RosterLeaves /\ r.resulting \in 1 .. RosterLeaves
  /\ r.upserts <= BatchRows /\ r.deletes <= BatchRows
  /\ r.bytes <= BatchBytes /\ r.key <= KeyMax /\ r.value <= ValueMax
  /\ SizeOf(r) <= ResultBytes

(* The bounds of runtime.rs: entry_bytes and bounded_batch for the batch,  *)
(* receive for the plaintext, the roster summary for the leaves.           *)
RuntimeBounded(r) ==
  /\ r.plaintext <= 256 * 1024
  /\ {r.previous, r.resulting} \subseteq 1 .. 256
  /\ r.upserts <= 4096 /\ r.deletes <= 4096 /\ r.bytes <= 6 * 1024 * 1024
  /\ r.key <= 4096 /\ r.value <= 2 * 1024 * 1024

Panic == [kind |-> "panic"]
Answers == {[kind |-> "error", error |-> e] : e \in RuntimeErrors}
             \cup {[kind |-> "success", result |-> r] : r \in {r \in Results : RuntimeBounded(r)}}
             \cup {Panic}

(* Both execute functions after the runtime: a panic is an internal        *)
(* failure; a result that cannot be encoded is answered as a failure.      *)
Answer(op, a) ==
  CASE a.kind = "panic" -> Failure(op, "InternalFailure")
    [] a.kind = "error" -> Failure(op, a.error)
    [] a.kind = "success" /\ EncodesResult(a.result) -> Success(op, a.result)
    [] OTHER -> Failure(op, "LimitExceeded")

-----------------------------------------------------------------------------
(* What callers can present.                                               *)

Resized(payload) ==
  LET size == PayloadSize(payload) IN
  [frame EXCEPT !.payload = payload, !.declared = size, !.size = 12 + size]

(* One head changed, dropped, repeated or exchanged with the next, or an   *)
(* item appended; the frame's length follows the payload.                  *)
PayloadSlips(p) ==
  {ReplaceAt(p, i, [p[i] EXCEPT !.short = FALSE]) : i \in DOMAIN p}
  \cup {ReplaceAt(p, i, [p[i] EXCEPT !.n = n]) :
          i \in {j \in DOMAIN p : p[j].t # "null"}, n \in {0, 1, 3, 257, ValueMax}}
  \cup {ReplaceAt(p, i, [p[i] EXCEPT !.v = v]) :
          i \in {j \in DOMAIN p : p[j].t = "bytes"}, v \in {<<1>>, <<9>>}}
  \cup {ReplaceAt(p, i, x) : i \in DOMAIN p, x \in {Null, Item("text", 5)}}
  \cup {RemoveAt(p, i) : i \in DOMAIN p}
  \cup {InsertAt(p, i, p[i]) : i \in DOMAIN p}
  \cup {ReplaceAt(ReplaceAt(p, i, p[i + 1]), i + 1, p[i]) : i \in 1 .. Len(p) - 1}
  \cup {Append(p, Null)}

(* The rows of a snapshot in another order. *)
RowsAt(p) == {i \in 1 .. Len(p) - 14 : p[i] = MapItem(3) /\ p[i + 7] = MapItem(3)
                                       /\ p[i + 2].t = "bytes" /\ p[i + 9].t = "bytes"
                                       /\ p[i + 4].t = "bytes" /\ p[i + 11].t = "bytes"}
RowSwaps(p) == {SubSeq(p, 1, i - 1) \o SubSeq(p, i + 7, i + 13) \o SubSeq(p, i, i + 6)
                  \o SubSeq(p, i + 14, Len(p)) : i \in RowsAt(p)}

HeaderSlips ==
  {[frame EXCEPT !.version = v] : v \in {2, 3}} \cup {[frame EXCEPT !.op = o] : o \in 0 .. 6}
  \cup {[frame EXCEPT !.flags = 1], [frame EXCEPT !.magic = FALSE],
        [frame EXCEPT !.declared = @ + 1], [frame EXCEPT !.size = 6, !.payload = <<>>],
        [frame EXCEPT !.size = RequestMax + 1]}

CallInit ==
  /\ entry \in Entries_ /\ asked = NoCall /\ frame = NoCall /\ slips = 0
  /\ decoded = Undecoded /\ runtime = Idle /\ reply = NoReply

Present(q) ==
  /\ frame = NoCall
  /\ q[1] \in Recognised(entry.version)
  /\ Encodes(q[1], entry.version, q[2], GlobalKeys)
  /\ asked' = q
  /\ frame' = Encode(q[1], entry.version, q[2])
  /\ UNCHANGED <<entry, slips, decoded, runtime, reply>>

PresentNull(length) ==
  /\ frame = NoCall
  /\ entry.platform = "apple"
  /\ frame' = NullPointer(length)
  /\ UNCHANGED <<entry, asked, slips, decoded, runtime, reply>>

Slip ==
  /\ IsFrame /\ reply = NoReply /\ slips < MaxSlips
  /\ slips' = slips + 1
  /\ frame' \in HeaderSlips \cup {Resized(p) : p \in PayloadSlips(frame.payload)
                                                     \cup RowSwaps(frame.payload)}
  /\ UNCHANGED <<entry, asked, decoded, runtime, reply>>

(* openmls_receive_v2_execute and _v3_execute: the length is looked at     *)
(* before the pointer.                                                     *)
AppleRefuses ==
  /\ entry.platform = "apple" /\ frame # NoCall /\ reply = NoReply
  /\ \/ frame.size > RequestMax /\ reply' = Failure(0, "LimitExceeded")
     \/ frame.size <= RequestMax /\ ~IsFrame /\ reply' = Failure(0, "InvalidFrame")
  /\ UNCHANGED <<entry, asked, frame, slips, decoded, runtime>>

(* nativeExecuteReceiveV2 and V3: a conversion between Java arrays and     *)
(* byte vectors may fail, on the way in and on the way out (Returned), and *)
(* then no frame is returned.                                              *)
Returned(answer) == {answer} \cup (IF entry.platform = "android" THEN {NullArray} ELSE {})
AndroidRefuses ==
  /\ entry.platform = "android" /\ frame # NoCall /\ reply = NoReply
  /\ \/ reply' = NullArray
     \/ frame.size > RequestMax /\ reply' \in Returned(Failure(0, "LimitExceeded"))
  /\ UNCHANGED <<entry, asked, frame, slips, decoded, runtime>>

(* execute_native_receive_v2 and _v3 on a frame that is refused *)
Refuse ==
  /\ IsFrame /\ reply = NoReply /\ frame.size <= RequestMax
  /\ \E d \in {Decode(frame, entry.version)} :
     /\ d.err # OK
     /\ decoded' = d
     /\ reply' \in Returned(Failure(Hint, d.err))
  /\ UNCHANGED <<entry, asked, frame, slips, runtime>>

(* ... and on one the runtime gets to see. *)
Execute ==
  /\ IsFrame /\ reply = NoReply /\ frame.size <= RequestMax
  /\ \E d \in {Decode(frame, entry.version)} :
     /\ d.err = OK
     /\ decoded' = d
  /\ \E a \in Answers : runtime' = a /\ reply' \in Returned(Answer(frame.op, a))
  /\ UNCHANGED <<entry, asked, frame, slips>>

(* The caller has taken its answer; the next call starts from nothing. *)
Return ==
  /\ reply # NoReply
  /\ asked' = NoCall /\ frame' = NoCall /\ slips' = 0 /\ decoded' = Undecoded
  /\ runtime' = Idle /\ reply' = NoReply
  /\ entry' \in Entries_

CallNext ==
  \/ \E q \in Requests(entry.version) : Present(q)
  \/ \E n \in {0, 1, RequestMax + 1} : PresentNull(n)
  \/ Slip \/ AppleRefuses \/ AndroidRefuses \/ Refuse \/ Execute \/ Return

CallSpec == CallInit /\ [][CallNext]_callVars

-----------------------------------------------------------------------------
Accepted == decoded.err = OK
WellLabelled(r) == RowsWritable(r["storage"], GroupOf(r), GlobalKeys)
SameHeads(p, q) ==
  /\ Len(p) = Len(q)
  /\ \A i \in DOMAIN p : Cardinality({j \in DOMAIN p : p[j] = p[i]})
                             = Cardinality({j \in DOMAIN q : q[j] = p[i]})

(* A frame that is accepted is the frame this crate's own encoder makes of *)
(* the request it decodes to, up to the order of the storage rows: there   *)
(* is no second form of a head, no field the encoder would refuse, nothing *)
(* that is skipped.  Rows whose label contradicts their key are the one    *)
(* exception; the storage adapter refuses them.  And a request this crate  *)
(* encodes is decoded to itself, whichever fields are null and however the *)
(* snapshot is split into rows.                                            *)
DecodesExactly ==
  /\ Accepted /\ WellLabelled(Decoded(decoded)) =>
       /\ Encodes(frame.op, entry.version, Decoded(decoded), GlobalKeys)
       /\ SameHeads(Encode(frame.op, entry.version, Decoded(decoded)).payload, frame.payload)
  /\ slips = 0 /\ decoded # Undecoded =>
       /\ Accepted
       /\ Decoded(decoded) = [asked[2] EXCEPT !["storage"] = ByKey(@)]

(* Secret rows are copied only for an external Commit whose public         *)
(* authority is consistent, for an inspection of the group it names, and   *)
(* never past the aggregate bound, also when the frame is refused later    *)
(* (native_receive_v3.rs:538, native_receive_v2.rs:1043).                  *)
RowsAfterAuthority ==
  decoded.copied > 0 =>
    LET r == decoded.got IN
    /\ TotalSize(decoded.rows) <= StorageMax
    /\ frame.op = 4 => /\ r["previous.group_id"] = r["group_id"]
                       /\ r["resulting.epoch"] = r["previous.epoch"] + 1
                       /\ r["commit_hash"].v = HashOf(r["commit"])
                       /\ r["aad_hash"].v = HashOf(r["aad"])
                       /\ r["has_pending"] =>
                            /\ r["pending.previous.digest"] = r["previous.digest"]
                            /\ r["pending.incarnation"] = r["incarnation"]
    /\ frame.op = 5 => r["current.group_id"] = r["group_id"] /\ r["retention"] \in Retentions

(* Whatever the runtime succeeds with reaches the caller as a result: no   *)
(* bound of the result frame is tighter than what the runtime allows, so a *)
(* receive never turns into a failure after its plaintext was decrypted;   *)
(* only the JNI can lose it, and then the caller gets no frame at all.     *)
SuccessDelivered ==
  runtime.kind = "success" /\ reply # NullArray =>
    "result" \in DOMAIN reply /\ reply.result = runtime.result
=============================================================================
