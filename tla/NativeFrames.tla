---------------------------- MODULE NativeFrames ----------------------------
(***************************************************************************)
(* The request frames of the native receive entry points                   *)
(* (native_receive_v2.rs, native_receive_v3.rs): a 12-byte header and one  *)
(* CBOR item.  A payload is its sequence of CBOR heads: a head has a type, *)
(* its argument n (a value or a length), the contents v of a byte string,  *)
(* and whether the argument is in its shortest form.  A request is a       *)
(* function from field names to values; a byte string is [n, v], with its  *)
(* contents v a short tuple of numbers.                                    *)
(*                                                                         *)
(* The code writes a decoder and an encoder for every map by hand.  Here   *)
(* one table, Fields(op), lists each map's keys with their bounds and the  *)
(* checks the decoder makes between two of them.                           *)
(***************************************************************************)
EXTENDS Integers, Sequences, FiniteSets, SequencesExt, TLC

CONSTANTS
  MaxRows,    \* NATIVE_RECEIVE_STORAGE_MAX_ENTRIES: 4096
  MaxItems,   \* PREFLIGHT_MAX_ITEMS: 32768
  MaxEpoch    \* u64::MAX

ASSUME FrameConstants == {MaxRows, MaxItems, MaxEpoch} \subseteq Nat \ {0}

KiB == 1024
RequestMax == 12 * KiB * KiB
StorageMax == 6 * KiB * KiB
KeyMax == 4096
ValueMax == 2 * KiB * KiB
MessageMax == KiB * KiB
TreeMax == 2 * KiB * KiB
AadMax == 16 * KiB
SignerMax == 4096
MaxDepth == 6
MaxMapEntries == 32
Retentions == {2, 4}        \* local_group_state::validate_retention
U16 == 65535
U32 == 2147483647           \* u32::MAX, cut to what TLC can count

Ops == 1 .. 5               \* Application, Commit, Welcome, external, inspect
OK == "ok"

Item(t, n) == [t |-> t, n |-> n, v |-> <<>>, short |-> TRUE]
UintItem(n) == Item("uint", n)
MapItem(n) == Item("map", n)
Null == Item("null", 0)
BytesItem(b) == [t |-> "bytes", n |-> b.n, v |-> b.v, short |-> TRUE]

(* The bytes a head and its contents take. *)
HeadSize(n) == IF n < 24 THEN 1 ELSE IF n < 256 THEN 2 ELSE IF n < 65536 THEN 3 ELSE 5
ItemSize(i) ==
  CASE i.t = "null" -> 1
    [] i.t = "bytes" -> HeadSize(i.n) + i.n
    [] OTHER -> HeadSize(i.n)
Total(numbers) ==
  LET upTo[i \in 0 .. Len(numbers)] == IF i = 0 THEN 0 ELSE upTo[i - 1] + numbers[i]
  IN upTo[Len(numbers)]
PayloadSize(p) == Total([i \in DOMAIN p |-> ItemSize(p[i])])

-----------------------------------------------------------------------------
(* CborPreflight: a walk over the borrowed bytes, before any owned value   *)
(* exists.  s holds the items seen, the first error, and the arrays and    *)
(* maps that are open: the values each still expects, and for a map the    *)
(* last key and whether a key is next.                                     *)

Fail(s, e) == [s EXCEPT !.err = e]

Counted(s) ==
  IF s.items + 1 > MaxItems THEN Fail(s, "LimitExceeded") ELSE [s EXCEPT !.items = @ + 1]

(* Mutant: argument() accepts longer forms. *)
AnyForm(i) == i.t \in {"uint", "bytes", "array", "map", "null"}
Wellformed(i) == i.t \in {"uint", "bytes", "array", "map", "null"} /\ i.short

Ascends(previous, key) == key > previous

EndOfInput == Item("end", 0)
Array(n) == [left |-> n, map |-> FALSE, key |-> FALSE, previous |-> -1]
MapOf(n) == [left |-> n, map |-> TRUE, key |-> TRUE, previous |-> -1]

ScanKey(s, i) ==
  LET top == Len(s.open) IN
  CASE i = EndOfInput -> Fail(s, "InvalidFrame")
    [] i.t # "uint" \/ ~Wellformed(i) \/ ~Ascends(s.open[top].previous, i.n)
         -> Fail(s, "NoncanonicalEncoding")
    [] OTHER -> Counted([s EXCEPT !.open[top].key = FALSE, !.open[top].previous = i.n])

(* A value fills a place of the innermost container; those that are full   *)
(* are left.                                                               *)
ScanValue(s, i) ==
  LET top == Len(s.open)
      c == Counted(s)
      filled == [c EXCEPT !.open[top].left = @ - 1, !.open[top].key = s.open[top].map]
      left(open) == SubSeq(open, 1, Max({0} \cup {k \in DOMAIN open : open[k].left > 0}))
      entered(container) == [filled EXCEPT !.open = left(Append(@, container))]
  IN CASE top - 1 > MaxDepth -> Fail(s, "LimitExceeded")
       [] c.err # OK -> c
       [] i = EndOfInput -> Fail(s, "InvalidFrame")
       [] ~Wellformed(i) -> Fail(s, "NoncanonicalEncoding")
       [] i.t = "bytes" /\ i.n > StorageMax -> Fail(s, "LimitExceeded")
       [] i.t = "array" /\ i.n > MaxRows -> Fail(s, "LimitExceeded")
       [] i.t = "map" /\ i.n > MaxMapEntries -> Fail(s, "LimitExceeded")
       [] i.t = "array" -> entered(Array(i.n))
       [] i.t = "map" -> entered(MapOf(i.n))
       [] OTHER -> [filled EXCEPT !.open = left(@)]

Scan(s, i) ==
  CASE s.err # OK -> s
    [] s.open = <<>> -> IF i = EndOfInput THEN s ELSE Fail(s, "NoncanonicalEncoding")
    [] s.open # <<>> /\ s.open[Len(s.open)].key -> ScanKey(s, i)
    [] OTHER -> ScanValue(s, i)

Preflight(in) ==
  LET input == Append(in, EndOfInput)
      walk[i \in 0 .. Len(input)] ==
        IF i = 0 THEN [err |-> OK, items |-> 0, open |-> <<Array(1)>>]
        ELSE Scan(walk[i - 1], input[i])
  IN walk[Len(input)]

-----------------------------------------------------------------------------
(* The request maps: the steps before the storage rows, the key of the     *)
(* rows, and the steps after them.  A step opens a map, reads a field,     *)
(* tells an option that is null from one that is present, or checks what   *)
(* was read; it is taken if every option in `when` is present.             *)

NoKey == -1
Step(kind, key, name, min, max) ==
  [kind |-> kind, key |-> key, name |-> name, min |-> min, max |-> max,
   err |-> "LimitExceeded", when |-> {}]
MapHead(key, n) == <<Step("map", key, "", n, n)>>
Uint(key, name, max) == <<Step("uint", key, name, 0, max)>>
Bytes(key, name, min, max) == <<Step("bytes", key, name, min, max)>>
Exact(key, name, n) == Bytes(key, name, n, n)
Check(name) == <<Step("check", NoKey, name, 0, 0)>>
If(name, steps) == [i \in DOMAIN steps |-> [steps[i] EXCEPT !.when = @ \cup {name}]]
Option(key, name, steps) == <<Step("option", key, name, 0, 0)>> \o If(name, steps)
Taken(f, got) == \A name \in f.when : name \in DOMAIN got /\ got[name]

Leaf(key, of) ==
  MapHead(key, 3) \o Uint(0, of \o ".leaf_index", U32) \o Exact(1, of \o ".identity", 45)
  \o Exact(2, of \o ".signature_key", 32)
State(key, of) ==
  MapHead(key, 3) \o Exact(0, of \o ".group_id", 16) \o Uint(1, of \o ".epoch", MaxEpoch)
  \o Exact(2, of \o ".digest", 32)
Hash(key, name) == Exact(key, name, 32)
Id(key, name) == Bytes(key, name, 1, 128)

Request(before, key, after) == [before |-> before, rows |-> key, after |-> after]

ProcessBefore ==
  MapHead(NoKey, 13) \o Uint(0, "profile", U16) \o Check("profile") \o Exact(1, "group_id", 16)
  \o Bytes(2, "message", 1, MessageMax) \o Bytes(3, "aad", 1, AadMax)
  \o Leaf(4, "sender") \o State(5, "previous") \o State(6, "resulting") \o Hash(7, "base")
ProcessAfter ==
  State(9, "message_state") \o Uint(10, "retention", U32) \o Check("retention")
  \o Hash(11, "message_hash") \o Id(12, "incarnation")

WelcomeBefore ==
  MapHead(NoKey, 11) \o Uint(0, "profile", U16) \o Check("profile")
  \o Bytes(1, "welcome", 1, MessageMax)
  \o Option(2, "has_tree", Bytes(NoKey, "tree", 1, TreeMax)) \o Bytes(3, "signer", 1, SignerMax)
  \o Leaf(4, "local_leaf") \o State(5, "resulting") \o Hash(6, "key_package")
WelcomeAfter ==
  Uint(8, "retention", U32) \o Check("retention") \o Id(9, "incarnation")
  \o Hash(10, "welcome_hash")

(* put_acceptance / get_acceptance *)
AcceptanceFields ==
  MapHead(7, 11) \o Id(0, "candidate") \o Id(1, "command") \o Hash(2, "context")
  \o State(3, "previous") \o State(4, "resulting") \o Leaf(5, "old_leaf") \o Leaf(6, "author")
  \o Hash(7, "input_info") \o Hash(8, "resulting_info") \o Hash(9, "commit_hash")
  \o Hash(10, "aad_hash")

(* put_pending / get_pending *)
PendingFields ==
  MapHead(NoKey, 10) \o Exact(0, "pending.group_id", 16) \o Id(1, "pending.incarnation")
  \o Id(2, "pending.command") \o Hash(3, "pending.context") \o Leaf(4, "pending.author")
  \o State(5, "pending.previous") \o Hash(6, "pending.commit_hash") \o Hash(7, "pending.aad_hash")
  \o Option(8, "has_welcome", Hash(NoKey, "pending.welcome_hash"))
  \o Option(9, "has_info", Hash(NoKey, "pending.info_hash"))

(* The public authority is checked before the rows of the snapshot. *)
ExternalKeys ==
  MapHead(NoKey, 10) \o Uint(0, "profile", U16) \o Exact(1, "group_id", 16) \o Id(2, "incarnation")
  \o Bytes(3, "commit", 1, MessageMax) \o Bytes(4, "aad", 1, AadMax) \o Hash(5, "base")
  \o Uint(6, "retention", U32) \o AcceptanceFields \o Option(8, "has_pending", PendingFields)
(* Mutant: the rows are copied first. *)
RowsFirst == Request(ExternalKeys, 9, Check("external"))
ExternalFields == Request(ExternalKeys \o Check("external"), 9, <<>>)

InspectKeys ==
  MapHead(NoKey, 7) \o Uint(0, "profile", U16) \o Exact(1, "group_id", 16) \o Id(2, "incarnation")
  \o State(3, "current") \o Hash(4, "base") \o Uint(5, "retention", U32)
InspectFields == Request(InspectKeys \o Check("inspection"), 6, <<>>)

Fields(op) ==
  CASE op \in {1, 2} -> Request(ProcessBefore, 8, ProcessAfter)
    [] op = 3 -> Request(WelcomeBefore, 7, WelcomeAfter)
    [] op = 4 -> ExternalFields
    [] op = 5 -> InspectFields

LabelStep == [Step("bytes", NoKey, "label", 16, 16) EXCEPT !.err = "InternalFailure"]
RowFields ==
  MapHead(NoKey, 3) \o Bytes(0, "key", 1, KeyMax) \o Bytes(1, "value", 0, ValueMax)
  \o Option(2, "has_label", <<LabelStep>>)

-----------------------------------------------------------------------------
(* Decoding.  s holds the position, the fields read so far, the storage    *)
(* rows, how many of them were copied out of the frame and the first       *)
(* error.                                                                  *)

NoGroup == [n |-> 0, v |-> <<>>]       \* a Welcome names no group: rows carry no label
HashOf(b) == <<0>> \o b.v

(* validate: the authority of an external Commit, all of it public. *)
ExternalConsistent(r) ==
  IF r["profile"] # 2 THEN "UnsupportedProfile"
  ELSE IF r["retention"] \notin Retentions THEN "UnsupportedRetention"
  ELSE IF r["old_leaf.leaf_index"] > 255 \/ r["author.leaf_index"] > 255 THEN "LimitExceeded"
  ELSE IF \/ r["previous.group_id"] # r["group_id"]
          \/ r["resulting.group_id"] # r["group_id"] THEN "GroupMismatch"
  ELSE IF \/ r["previous.epoch"] = MaxEpoch
          \/ r["resulting.epoch"] # r["previous.epoch"] + 1 THEN "ResultingEpochMismatch"
  ELSE IF r["commit_hash"].v # HashOf(r["commit"]) THEN "WireHashMismatch"
  ELSE IF r["aad_hash"].v # HashOf(r["aad"]) THEN "AadMismatch"
  ELSE IF ~r["has_pending"] THEN OK
  ELSE IF r["pending.author.leaf_index"] > 255 THEN "LimitExceeded"
  ELSE IF \/ r["pending.group_id"] # r["group_id"]
          \/ r["pending.incarnation"] # r["incarnation"]
          \/ r["pending.previous.group_id"] # r["previous.group_id"]
          \/ r["pending.previous.epoch"] # r["previous.epoch"]
          \/ r["pending.previous.digest"] # r["previous.digest"] THEN "PendingBindingMismatch"
  ELSE OK

(* validate_inspection *)
InspectionConsistent(r) ==
  IF r["profile"] # 2 THEN "UnsupportedProfile"
  ELSE IF r["retention"] \notin Retentions THEN "UnsupportedRetention"
  ELSE IF r["group_id"] # r["current.group_id"] THEN "GroupMismatch"
  ELSE OK

Verdict(check, r) ==
  CASE check = "profile" -> IF r["profile"] = 2 THEN OK ELSE "UnsupportedProfile"
    [] check = "retention" -> IF r["retention"] \in Retentions THEN OK ELSE "UnsupportedRetention"
    [] check = "external" -> ExternalConsistent(r)
    [] check = "inspection" -> InspectionConsistent(r)

With(got, name, value) ==
  [x \in {name} \cup DOMAIN got |-> IF x = name THEN value ELSE got[x]]
Put(s, name, value) == [s EXCEPT !.at = @ + 1, !.got = With(@, name, value)]

(* expect_map, expect_key, Decoder::u16/u32/u64: a head of one type with  *)
(* one argument.                                                           *)
Has(in, s, t) == s.at <= Len(in) /\ in[s.at].t = t
Expect(in, s, t, n) ==
  IF s.err # OK THEN s
  ELSE IF Has(in, s, t) /\ in[s.at].n = n THEN [s EXCEPT !.at = @ + 1]
  ELSE Fail(s, "NoncanonicalEncoding")

(* decode_bounded_bytes *)
ReadBytes(in, s, f) ==
  IF ~Has(in, s, "bytes") THEN Fail(s, "NoncanonicalEncoding")
  ELSE IF in[s.at].n \notin f.min .. f.max THEN Fail(s, f.err)
  ELSE Put(s, f.name, [n |-> in[s.at].n, v |-> in[s.at].v])

ReadUint(in, s, f) ==
  IF Has(in, s, "uint") /\ in[s.at].n <= f.max
  THEN Put(s, f.name, in[s.at].n)
  ELSE Fail(s, "NoncanonicalEncoding")

ReadOption(in, s, f) ==
  IF Has(in, s, "null") THEN Put(s, f.name, FALSE)
  ELSE [s EXCEPT !.got = With(@, f.name, TRUE)]

AfterKey(in, s, f) == IF f.key = NoKey THEN s ELSE Expect(in, s, "uint", f.key)

ReadField(in, s, f) ==
  LET k == AfterKey(in, s, f) IN
  IF s.err # OK \/ ~Taken(f, s.got) THEN s
  ELSE IF k.err # OK THEN k
  ELSE CASE f.kind = "map" -> Expect(in, k, "map", f.max)
         [] f.kind = "uint" -> ReadUint(in, k, f)
         [] f.kind = "bytes" -> ReadBytes(in, k, f)
         [] f.kind = "option" -> ReadOption(in, k, f)
         [] f.kind = "check" -> [s EXCEPT !.err = Verdict(f.name, s.got)]

ReadFields(in, s, steps) ==
  LET read[i \in 0 .. Len(steps)] ==
        IF i = 0 THEN s ELSE ReadField(in, read[i - 1], steps[i])
  IN read[Len(steps)]

(* The bytes of a row that count against the aggregate bound. *)
RowSize(row) == row["key"].n + row["value"].n + (IF row["has_label"] THEN row["label"].n ELSE 0)
TotalSize(rows) == Total([i \in DOMAIN rows |-> RowSize(rows[i])])

Distinct(rows) == \A i, j \in DOMAIN rows : rows[i]["key"] = rows[j]["key"] => i = j

(* Each row is inserted after those with a smaller key. *)
Placed(sorted, row) ==
  InsertAt(sorted, 1 + Cardinality({i \in DOMAIN sorted : sorted[i]["key"].v[1] < row["key"].v[1]}),
           row)
ByKey(rows) ==
  LET sorted[i \in 0 .. Len(rows)] == IF i = 0 THEN <<>> ELSE Placed(sorted[i - 1], rows[i])
  IN sorted[Len(rows)]

WithinAggregate(rows) == TotalSize(rows) <= StorageMax

(* The borrowed scan: shape, bounds and label of each row, and the running *)
(* aggregate, before any value of a row is copied.                         *)
ScanRow(in, s, group) ==
  LET r == ReadFields(in, [s EXCEPT !.got = <<>>], RowFields)
      rows == Append(s.rows, r.got)
  IN IF s.err # OK THEN s
     ELSE IF r.err # OK THEN Fail(s, r.err)
     ELSE IF r.got["has_label"] /\ r.got["label"] # group THEN Fail(s, "InvalidStorageSnapshot")
     ELSE IF ~WithinAggregate(rows) THEN Fail(s, "LimitExceeded")
     ELSE [s EXCEPT !.at = r.at, !.rows = rows]

(* The rows that were scanned are copied and sorted, so their order in the *)
(* frame is not part of the request.                                       *)
CopyRows(s) ==
  LET copied == [s EXCEPT !.copied = Len(s.rows), !.rows = ByKey(s.rows)] IN
  IF s.err # OK THEN s
  ELSE IF Distinct(s.rows) THEN copied ELSE Fail(copied, "InvalidStorageSnapshot")

(* The format version and the array of the rows. *)
RowsHead(in, s) ==
  LET format == Expect(in, Expect(in, s, "map", 2), "uint", 0)
      count == Expect(in, [format EXCEPT !.at = @ + 1], "uint", 1)
  IN IF format.err # OK THEN format
     ELSE IF ~Has(in, format, "uint") THEN Fail(s, "NoncanonicalEncoding")
     ELSE IF in[format.at].n # 1 THEN Fail(s, "StorageFormatMismatch")
     ELSE IF count.err # OK THEN count
     ELSE IF ~Has(in, count, "array") THEN Fail(s, "NoncanonicalEncoding")
     ELSE [count EXCEPT !.at = @ + 1]

(* decode_storage_snapshot *)
ReadRows(in, s, group) ==
  LET head == RowsHead(in, s)
      rows == in[head.at - 1].n
      scan[k \in 0 .. rows] == IF k = 0 THEN head ELSE ScanRow(in, scan[k - 1], group)
  IN IF head.err # OK THEN head
     ELSE IF rows \notin 0 .. MaxRows THEN Fail(s, "LimitExceeded")
     ELSE CopyRows(scan[rows])

GroupOf(r) == IF "group_id" \in DOMAIN r THEN r["group_id"] ELSE NoGroup

Unread == [err |-> OK, at |-> 1, got |-> <<>>, rows |-> <<>>, copied |-> 0]
ReadRequest(in, request) ==
  LET before == ReadFields(in, Unread, request.before)
      key == Expect(in, before, "uint", request.rows)
      rows == IF key.err # OK THEN key ELSE ReadRows(in, key, GroupOf(before.got))
  IN ReadFields(in, rows, request.after)

(* decode_header of v2 and header of v3: v2 recognises the operation after *)
(* the header, v3 as its last check.                                       *)
HeaderVerdict(frame, version) ==
  IF frame.size > RequestMax THEN "LimitExceeded"
  ELSE IF frame.size < 12 \/ ~frame.magic THEN "InvalidFrame"
  ELSE IF frame.version # version THEN "UnsupportedContractVersion"
  ELSE IF frame.flags # 0 \/ frame.declared # frame.size - 12 THEN "InvalidFrame"
  ELSE IF frame.op \notin (IF version = 2 THEN 1 .. 3 ELSE Ops) THEN "UnsupportedOperation"
  ELSE OK

(* decode_native_receive_request_v2 and _v3 *)
Decode(frame, version) ==
  LET header == HeaderVerdict(frame, version)
      scan == Preflight(frame.payload)
      s == ReadRequest(frame.payload, Fields(frame.op))
  IN IF header # OK THEN Fail(Unread, header)
     ELSE IF scan.err # OK THEN Fail(Unread, scan.err)
     ELSE IF s.err = OK /\ s.at # Len(frame.payload) + 1 THEN Fail(s, "NoncanonicalEncoding")
     ELSE s
Decoded(s) == With(s.got, "storage", s.rows)

-----------------------------------------------------------------------------
(* Encoding.  CanWrite collects the refusals of the encoder, Written the   *)
(* heads it emits.                                                         *)

(* encode_storage_snapshot: a row of the installation carries no label, a  *)
(* group's row the label of the request; is_global is a property of keys.  *)
RowsWritable(rows, group, Global) ==
  /\ Len(rows) <= MaxRows
  /\ Distinct(rows)
  /\ \A i \in DOMAIN rows :
       LET row == rows[i] IN
       /\ row["key"].n \in 1 .. KeyMax /\ row["value"].n \in 0 .. ValueMax
       /\ IF row["key"] \in Global THEN ~row["has_label"]
          ELSE IF group = NoGroup THEN ~row["has_label"]
          ELSE row["has_label"] /\ row["label"] = group
  /\ TotalSize(rows) <= StorageMax

CanWrite(steps, r) ==
  \A i \in DOMAIN steps :
    LET f == steps[i] IN
    Taken(f, r) =>
      CASE f.kind = "uint" -> r[f.name] <= f.max
        [] f.kind = "bytes" -> r[f.name].n \in f.min .. f.max
        [] f.kind = "check" -> Verdict(f.name, r) = OK
        [] OTHER -> TRUE

WriteField(f, r) ==
  CASE f.kind = "map" -> <<MapItem(f.max)>>
    [] f.kind = "uint" -> <<UintItem(r[f.name])>>
    [] f.kind = "bytes" -> <<BytesItem(r[f.name])>>
    [] f.kind = "option" -> IF r[f.name] THEN <<>> ELSE <<Null>>
    [] f.kind = "check" -> <<>>
Written(steps, r) ==
  FlattenSeq([i \in DOMAIN steps |->
    IF ~Taken(steps[i], r) THEN <<>>
    ELSE (IF steps[i].key = NoKey THEN <<>> ELSE <<UintItem(steps[i].key)>>)
         \o WriteField(steps[i], r)])
WriteRows(rows) ==
  <<MapItem(2), UintItem(0), UintItem(1), UintItem(1), Item("array", Len(rows))>>
  \o FlattenSeq([i \in DOMAIN rows |-> Written(RowFields, rows[i])])
Payload(request, r) ==
  Written(request.before, r) \o <<UintItem(request.rows)>> \o WriteRows(ByKey(r["storage"]))
  \o Written(request.after, r)

Frame(op, version, payload) ==
  [magic |-> TRUE, version |-> version, op |-> op, flags |-> 0,
   declared |-> PayloadSize(payload), size |-> 12 + PayloadSize(payload), payload |-> payload]

(* encode_native_receive_request_v2 and _v3: what a request is encoded as, *)
(* and whether the encoder accepts it.                                     *)
Encode(op, version, r) == Frame(op, version, Payload(Fields(op), r))
Encodes(op, version, r, Global) ==
  /\ CanWrite(Fields(op).before, r) /\ CanWrite(Fields(op).after, r)
  /\ RowsWritable(r["storage"], GroupOf(r), Global)
  /\ Encode(op, version, r).size <= RequestMax
=============================================================================
