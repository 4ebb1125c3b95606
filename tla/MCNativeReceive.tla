-------------------------- MODULE MCNativeReceive ---------------------------
(* One request of each shape: optional fields null and present, snapshots  *)
(* that are empty, split over rows, and at the aggregate bound.            *)
EXTENDS NativeReceive

B(n, v) == [n |-> n, v |-> v]
LeafOf(of, index) ==
  (of \o ".leaf_index" :> index) @@ (of \o ".identity" :> B(45, <<4>>))
  @@ (of \o ".signature_key" :> B(32, <<5>>))
StateOf(of, epoch) ==
  (of \o ".group_id" :> B(16, <<1>>)) @@ (of \o ".epoch" :> epoch)
  @@ (of \o ".digest" :> B(32, <<6, epoch>>))
Names(names, value) == [name \in names |-> value]

GlobalRow(k, n) == [key |-> B(20, <<k>>), value |-> B(n, <<2>>), has_label |-> FALSE]
GroupRow(k, n) ==
  [key |-> B(30, <<k>>), value |-> B(n, <<3>>), has_label |-> TRUE, label |-> B(16, <<1>>)]
MCGlobalKeys == {B(20, <<k>>) : k \in 1 .. 9}

Common(rows) ==
  ("profile" :> 2) @@ ("retention" :> 2) @@ ("incarnation" :> B(8, <<7>>)) @@ ("storage" :> rows)
Process(message, rows) ==
  Common(rows) @@ ("group_id" :> B(16, <<1>>)) @@ ("message" :> message)
  @@ ("aad" :> B(40, <<8>>)) @@ LeafOf("sender", 3) @@ StateOf("previous", 1)
  @@ StateOf("resulting", 2) @@ StateOf("message_state", 0)
  @@ Names({"base", "message_hash"}, B(32, <<10>>))
Welcome(tree, rows) ==
  Common(rows) @@ ("welcome" :> B(MessageMax, <<11>>)) @@ tree @@ ("signer" :> B(200, <<12>>))
  @@ LeafOf("local_leaf", 2) @@ StateOf("resulting", 1)
  @@ Names({"key_package", "welcome_hash"}, B(32, <<13>>))
NoTree == "has_tree" :> FALSE
Tree(n) == ("has_tree" :> TRUE) @@ ("tree" :> B(n, <<14>>))
External(pending, rows) ==
  Common(rows) @@ ("group_id" :> B(16, <<1>>)) @@ ("commit" :> B(300, <<15>>))
  @@ ("aad" :> B(40, <<16>>)) @@ Names({"candidate", "command"}, B(9, <<17>>))
  @@ Names({"base", "context", "input_info", "resulting_info"}, B(32, <<18>>))
  @@ StateOf("previous", 1) @@ StateOf("resulting", 2)
  @@ LeafOf("old_leaf", 3) @@ LeafOf("author", 255)
  @@ ("commit_hash" :> B(32, <<0, 15>>)) @@ ("aad_hash" :> B(32, <<0, 16>>)) @@ pending
NoPending == "has_pending" :> FALSE
Pending(welcome, info) ==
  ("has_pending" :> TRUE) @@ ("pending.group_id" :> B(16, <<1>>))
  @@ ("pending.incarnation" :> B(8, <<7>>)) @@ ("pending.command" :> B(128, <<19>>))
  @@ Names({"pending.context", "pending.commit_hash", "pending.aad_hash"}, B(32, <<20>>))
  @@ LeafOf("pending.author", 1) @@ StateOf("pending.previous", 1)
  @@ ("has_welcome" :> welcome) @@ ("has_info" :> info)
  @@ (IF welcome THEN "pending.welcome_hash" :> B(32, <<21>>) ELSE <<>>)
  @@ (IF info THEN "pending.info_hash" :> B(32, <<22>>) ELSE <<>>)
Inspect(rows) ==
  Common(rows) @@ ("group_id" :> B(16, <<1>>)) @@ ("base" :> B(32, <<18>>))
  @@ StateOf("current", 1)

(* Three rows; with `last` at its most they fill the aggregate to the byte. *)
Full(last) == <<GroupRow(11, ValueMax), GroupRow(10, ValueMax), GlobalRow(1, last)>>
MCRequests(version) ==
  {<<1, Process(B(300, <<9>>), <<GlobalRow(2, 0), GroupRow(10, 40)>>)>>,
   <<2, Process(B(MessageMax, <<9>>), Full(ValueMax - 112))>>,
   <<3, Welcome(NoTree, <<GlobalRow(1, 7)>>)>>, <<3, Welcome(Tree(TreeMax), <<>>)>>}
  \cup IF version = 2 THEN {} ELSE
  {<<4, External(NoPending, <<>>)>>,
   <<4, External(Pending(FALSE, TRUE), <<GroupRow(11, 50), GlobalRow(1, 3)>>)>>,
   <<4, External(Pending(TRUE, FALSE), <<GroupRow(12, 1)>>)>>,
   <<5, Inspect(<<GlobalRow(1, 3), GroupRow(11, 50)>>)>>}

Largest == [plaintext |-> PlaintextBytes, previous |-> RosterLeaves, resulting |-> RosterLeaves,
            upserts |-> BatchRows, deletes |-> BatchRows, bytes |-> BatchBytes,
            key |-> KeyMax, value |-> ValueMax]
MCResults == {Largest, [Largest EXCEPT !.plaintext = 0, !.previous = 1, !.upserts = 0, !.bytes = 0],
              [Largest EXCEPT !.bytes = BatchBytes + 1], [Largest EXCEPT !.previous = 0],
              [Largest EXCEPT !.value = ValueMax + 1]}
MCRuntimeErrors == {"BaseStateMismatch", "InternalFailure"}

(* FrameBudget's sizes and item counts are upper bounds of what is really  *)
(* encoded and counted; BoundaryProofs proves that they fit the limits.    *)
FitsBudget(op, r) ==
  LET sent == Encode(op, 3, r)
      rows == Len(r["storage"])
      bytes == TotalSize(r["storage"])
      items == Len(sent.payload)      \* preflight counts every head
      within(size, count) == sent.size <= size /\ items <= count
  IN CASE op \in {1, 2} ->
            within(ProcessSize(r["message"].n, r["aad"].n, rows, bytes), ProcessItems(rows))
       [] op = 3 ->
            within(WelcomeSize(r["welcome"].n, IF r["has_tree"] THEN r["tree"].n ELSE 0,
                               r["signer"].n, rows, bytes), WelcomeItems(rows))
       [] op = 4 ->
            within(ExternalSize(r["commit"].n, r["aad"].n, rows, bytes), ExternalItems(rows))
       [] op = 5 -> within(InspectSize(rows, bytes), InspectItems(rows))

ASSUME Measured == \A version \in {2, 3} : \A q \in Requests(version) : FitsBudget(q[1], q[2])
=============================================================================
