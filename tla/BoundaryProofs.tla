---------------------------- MODULE BoundaryProofs ----------------------------
(***************************************************************************)
(* What crosses the boundary between the package and its caller: rows read *)
(* and written by calls that overlap, frames, and records kept.            *)
(*                                                                         *)
(* A batch computed from an old snapshot does what the operation does on   *)
(* the rows as they are, because an operation on a group depends on that   *)
(* group's rows and changes no others, which the fence leaves alone.  The  *)
(* invariant of the rows (GroupOK) is then that of operations that run one *)
(* after another.                                                          *)
(*                                                                         *)
(* The bounds of frames and records leave room for everything the bounds   *)
(* of their fields allow.  So a native call reports whatever the runtime   *)
(* succeeded with; and it reads secret rows out of a frame only after the  *)
(* public authority in it.                                                 *)
(***************************************************************************)
EXTENDS SnapshotStorage, NativeReceive, FiniteSetTheorems, SequenceTheorems,
        WellFoundedInduction, TLAPS

C == INSTANCE CustodyBudget   \* the records kept between calls

\* The rows have the same value, or neither has one, under the key.
SameAt(rows1, rows2, k) ==
    /\ k \in DOMAIN rows1 <=> k \in DOMAIN rows2
    /\ k \in DOMAIN rows1 => rows1[k] = rows2[k]

\* The rows of the group are the same.
LikeOn(rows1, rows2, g) == \A k : k.group = g => SameAt(rows1, rows2, k)

-----------------------------------------------------------------------------
(* Rows written and erased *)

LEMMA WriteAt ==
    ASSUME NEW rows, NEW keys, NEW value, NEW k
    PROVE  /\ k \in DOMAIN Write(rows, keys, value) <=> k \in DOMAIN rows \/ k \in keys
           /\ k \in keys => Write(rows, keys, value)[k] = value
           /\ k \in DOMAIN rows /\ k \notin keys => Write(rows, keys, value)[k] = rows[k]
BY DEF Write

LEMMA EraseAt ==
    ASSUME NEW rows, NEW keys, NEW k
    PROVE  /\ k \in DOMAIN Erase(rows, keys) <=> k \in DOMAIN rows /\ k \notin keys
           /\ k \in DOMAIN rows /\ k \notin keys => Erase(rows, keys)[k] = rows[k]
BY DEF Erase, Restrict

LEMMA LikeWrite ==
    ASSUME NEW rows1, NEW rows2, NEW g, LikeOn(rows1, rows2, g), NEW keys, NEW value
    PROVE  LikeOn(Write(rows1, keys, value), Write(rows2, keys, value), g)
BY WriteAt DEF LikeOn, SameAt

LEMMA LikeErase ==
    ASSUME NEW rows1, NEW rows2, NEW g, LikeOn(rows1, rows2, g), NEW keys
    PROVE  LikeOn(Erase(rows1, keys), Erase(rows2, keys), g)
BY EraseAt DEF LikeOn, SameAt

LEMMA LikeReads ==
    ASSUME NEW rows1, NEW rows2, NEW g, LikeOn(rows1, rows2, g)
    PROVE  /\ QueuedRefs(rows1, g) = QueuedRefs(rows2, g)
           /\ IsMember(rows1, g) <=> IsMember(rows2, g)
           /\ IsActive(rows1, g) <=> IsActive(rows2, g)
           /\ \A label : /\ RowKey(label, g) \in DOMAIN rows1 <=> RowKey(label, g) \in DOMAIN rows2
                         /\ RowKey(label, g) \in DOMAIN rows1 =>
                                rows1[RowKey(label, g)] = rows2[RowKey(label, g)]
<1>1. \A label : SameAt(rows1, rows2, RowKey(label, g))
    BY DEF LikeOn, RowKey, Key
<1>2. \A label : /\ RowKey(label, g) \in DOMAIN rows1 <=> RowKey(label, g) \in DOMAIN rows2
                 /\ RowKey(label, g) \in DOMAIN rows1 =>
                        rows1[RowKey(label, g)] = rows2[RowKey(label, g)]
    BY <1>1 DEF SameAt
<1>3. QueuedRefs(rows1, g) = QueuedRefs(rows2, g)
    BY <1>2 DEF QueuedRefs, RefsKey
<1> QED BY <1>2, <1>3 DEF IsMember, IsActive

LEMMA LikeClears ==
    ASSUME NEW rows1, NEW rows2, NEW g, LikeOn(rows1, rows2, g)
    PROVE  LikeOn(ClearProposalQueue(rows1, g), ClearProposalQueue(rows2, g), g)
<1>1. QueuedRefs(rows1, g) = QueuedRefs(rows2, g)
    BY LikeReads
<1> QED BY <1>1, LikeErase DEF ClearProposalQueue

LEMMA LikeStores ==
    ASSUME NEW rows1, NEW rows2, NEW g, LikeOn(rows1, rows2, g), NEW epoch, NEW leaf
    PROVE  /\ LikeOn(StorePublic(rows1, g, epoch), StorePublic(rows2, g, epoch), g)
           /\ LikeOn(StoreMember(rows1, g, epoch), StoreMember(rows2, g, epoch), g)
           /\ LikeOn(StoreNew(rows1, g, epoch, leaf), StoreNew(rows2, g, epoch, leaf), g)
<1>1. ASSUME NEW r1, NEW r2, LikeOn(r1, r2, g)
      PROVE  /\ LikeOn(StorePublic(r1, g, epoch), StorePublic(r2, g, epoch), g)
             /\ LikeOn(StoreMember(r1, g, epoch), StoreMember(r2, g, epoch), g)
    BY <1>1, LikeWrite DEF StorePublic, StoreMember
<1>2. LikeOn(StoreMember(StorePublic(rows1, g, epoch), g, epoch),
             StoreMember(StorePublic(rows2, g, epoch), g, epoch), g)
    BY <1>1
<1> QED BY <1>1, <1>2, LikeWrite DEF StoreNew

-----------------------------------------------------------------------------
(* Only an operation's own rows *)

\* The rows an operation on a group reads are there.
Complete(rows, g) ==
    IsMember(rows, g) => {RowKey(label, g) : label \in {"GroupContext", "OwnLeafNodeIndex",
                                                        "MessageSecrets"}} \subseteq DOMAIN rows

(* What an operation makes of a group's rows depends on them alone.        *)
LEMMA RunDependsOnGroup ==
    ASSUME NEW o \in Operation, o.group \in Group, NEW rows1, NEW rows2,
           LikeOn(rows1, rows2, o.group), Complete(rows1, o.group), Succeeds(o, rows1)
    PROVE  LikeOn(Run(o, rows1), Run(o, rows2), o.group)
<1> DEFINE g == o.group
<1>1. o.op \in {"CreateKeyPackage", "CreateGroup", "Join", "ReceiveProposal", "MergeCommit",
                "MergeOwnRemoval", "DeleteGroup"}
    BY DEF Operation, CreatesKeyPackage, CreatesGroup, Joins, QueuesProposal, Merges, Deletes
<1>2. o.op # "CreateKeyPackage"
    BY GroupAssumption DEF Operation, CreatesKeyPackage, CreatesGroup, Joins, QueuesProposal,
                           Merges, Deletes
<1> HIDE DEF g
<1>3. LikeOn(rows1, rows2, g) /\ Complete(rows1, g)
    BY DEF g
<1>4. CASE o.op = "CreateGroup"
    BY <1>3, <1>4, LikeStores DEF Run, g
<1>5. CASE o.op = "Join"
  <2>1. LikeOn(Erase(rows1, {KeyPackageKey(o.key)}), Erase(rows2, {KeyPackageKey(o.key)}), g)
    BY <1>3, LikeErase
  <2> QED BY <1>5, <2>1, LikeStores DEF Run, g
<1>6. CASE o.op \in {"ReceiveProposal", "MergeCommit", "MergeOwnRemoval", "DeleteGroup"}
  <2>1. IsMember(rows1, g)
    BY <1>6 DEF Succeeds, IsActive, g
  <2>2. \A label \in {"GroupContext", "OwnLeafNodeIndex", "MessageSecrets"} :
            rows1[RowKey(label, g)] = rows2[RowKey(label, g)]
    BY <1>3, <2>1, LikeReads DEF Complete
  <2>3. LiveEpoch(rows1, g) = LiveEpoch(rows2, g) /\ LiveLeaf(rows1, g) = LiveLeaf(rows2, g)
    BY <2>2 DEF LiveEpoch, LiveLeaf
  <2>4. CASE o.op = "ReceiveProposal"
    <3>1. LikeOn(StoreOpened(rows1, g), StoreOpened(rows2, g), g)
        BY <1>3, <2>2, LikeWrite DEF StoreOpened
    <3>2. LikeOn(QueueProposal(StoreOpened(rows1, g), g, o.ref),
                 QueueProposal(StoreOpened(rows2, g), g, o.ref), g)
        BY <3>1, LikeReads, LikeWrite DEF QueueProposal
    <3> QED BY <2>4, <3>2 DEF Run, g
  <2>5. CASE o.op = "MergeCommit"
    <3>1. \A epoch : LikeOn(StoreMember(StorePublic(rows1, g, epoch), g, epoch),
                            StoreMember(StorePublic(rows2, g, epoch), g, epoch), g)
        BY <1>3, LikeStores
    <3>2. LikeOn(MergeCommit(rows1, g), MergeCommit(rows2, g), g)
        BY <2>3, <3>1, LikeWrite, LikeErase, LikeClears DEF MergeCommit
    <3> QED BY <2>5, <3>2 DEF Run, g
  <2>6. CASE o.op = "MergeOwnRemoval"
    <3>1. \A epoch : LikeOn(StorePublic(rows1, g, epoch), StorePublic(rows2, g, epoch), g)
        BY <1>3, LikeStores
    <3>2. LikeOn(MergeOwnRemoval(rows1, g), MergeOwnRemoval(rows2, g), g)
        BY <2>3, <3>1, LikeWrite DEF MergeOwnRemoval
    <3> QED BY <2>6, <3>2 DEF Run, g
  <2>7. CASE o.op = "DeleteGroup"
    <3>1. LikeOn(DeleteGroup(rows1, g), DeleteGroup(rows2, g), g)
        BY <1>3, <2>3, LikeErase, LikeClears DEF DeleteGroup
    <3> QED BY <2>7, <3>1 DEF Run, g
  <2> QED BY <1>6, <2>4, <2>5, <2>6, <2>7
<1> QED BY <1>1, <1>2, <1>4, <1>5, <1>6

-----------------------------------------------------------------------------
(* Rows an operation leaves alone *)

\* What a key belongs to its label says: OpenMLS's global labels, or a group's.
Scoped(k) == IsGlobalKey(k) <=> k.group = Global

OwnKey(k, g) == k.group = g /\ ~IsGlobalKey(k)

\* From rows1 to rows2 no row of another group changed, and the new ones are g's.
Within(rows1, rows2, g) ==
    \A k : /\ k.group # g => SameAt(rows1, rows2, k)
           /\ k \in DOMAIN rows2 /\ k \notin DOMAIN rows1 => OwnKey(k, g)

LEMMA WithinTwice ==
    ASSUME NEW rows1, NEW rows2, NEW rows3, NEW g, Within(rows1, rows2, g), Within(rows2, rows3, g)
    PROVE  Within(rows1, rows3, g)
BY DEF Within, SameAt

LEMMA WithinWrite ==
    ASSUME NEW rows, NEW g, NEW keys, NEW value, \A k \in keys : OwnKey(k, g)
    PROVE  Within(rows, Write(rows, keys, value), g)
BY WriteAt DEF Within, SameAt, OwnKey

LEMMA WithinErase ==
    ASSUME NEW rows, NEW g, NEW keys, \A k \in keys : k.group = g
    PROVE  Within(rows, Erase(rows, keys), g)
BY EraseAt DEF Within, SameAt

LEMMA OwnKeys ==
    ASSUME NEW g
    PROVE  /\ \A label : label \notin GlobalLabels => OwnKey(RowKey(label, g), g)
           /\ \A ref : OwnKey(ProposalKey(g, ref), g)
           /\ OwnKey(RefsKey(g), g)
           /\ \A epoch, leaf : OwnKey(EpochKey(g, epoch, leaf), g)
           /\ \A label : RowKey(label, g).group = g /\ RowKey(label, g).label = label
BY DEF OwnKey, RowKey, ProposalKey, RefsKey, EpochKey, Key, IsGlobalKey, GlobalLabels

LEMMA WithinClears ==
    ASSUME NEW rows, NEW g
    PROVE  Within(rows, ClearProposalQueue(rows, g), g)
BY OwnKeys, WithinErase DEF ClearProposalQueue, OwnKey

LEMMA WithinStores ==
    ASSUME NEW rows, NEW g, NEW epoch, NEW leaf
    PROVE  /\ Within(rows, StorePublic(rows, g, epoch), g)
           /\ Within(rows, StoreMember(rows, g, epoch), g)
           /\ Within(rows, StoreNew(rows, g, epoch, leaf), g)
<1>1. ASSUME NEW r
      PROVE  Within(r, StorePublic(r, g, epoch), g)
    <2>1. \A k \in {RowKey(label, g) : label \in PublicLabels} : OwnKey(k, g)
        BY OwnKeys DEF PublicLabels, GlobalLabels
    <2> QED BY <2>1, WithinWrite DEF StorePublic
<1>2. ASSUME NEW r
      PROVE  Within(r, StoreMember(r, g, epoch), g)
    <2>1. /\ \A k \in {RowKey(label, g) : label \in {"EpochSecrets", "ResumptionPsk", "Local"}} :
                OwnKey(k, g)
          /\ \A k \in {RowKey("MessageSecrets", g)} : OwnKey(k, g)
        BY OwnKeys DEF GlobalLabels
    <2> DEFINE first == Write(r, {RowKey(label, g) : label \in {"EpochSecrets", "ResumptionPsk",
                                                                "Local"}}, epoch)
    <2>2. Within(r, first, g)
        BY <2>1, WithinWrite
    <2>3. Within(first, StoreMember(r, g, epoch), g)
        BY <2>1, WithinWrite DEF StoreMember
    <2> QED BY <2>2, <2>3, WithinTwice
<1> DEFINE member == StoreMember(StorePublic(rows, g, epoch), g, epoch)
           state  == Write(member, {RowKey("GroupState", g), RowKey("MlsGroupJoinConfig", g)},
                           "Operational")
           placed == Write(state, {RowKey("OwnLeafNodeIndex", g)}, leaf)
<1>3. Within(rows, member, g)
    BY <1>1, <1>2, WithinTwice
<1>4. Within(member, state, g)
    BY OwnKeys, WithinWrite DEF GlobalLabels
<1>5. Within(state, placed, g)
    BY OwnKeys, WithinWrite DEF GlobalLabels
<1>6. Within(placed, StoreNew(rows, g, epoch, leaf), g)
    BY OwnKeys, WithinWrite DEF StoreNew
<1> HIDE DEF member, state, placed
<1>7. Within(rows, StoreNew(rows, g, epoch, leaf), g)
    BY <1>3, <1>4, <1>5, <1>6, WithinTwice
<1> QED BY <1>1, <1>2, <1>7

\* The row of the KeyPackage an operation publishes or uses up.
Published(o) == IF UsesInstallation(o) THEN {KeyPackageKey(o.key)} ELSE {}

(* An operation changes rows of its own group, and of the installation's   *)
(* the KeyPackage it publishes or uses up.                                 *)
LEMMA RunElsewhere ==
    ASSUME NEW o \in Operation, NEW rows, NEW k
    PROVE  /\ k.group # o.group /\ k \notin Published(o) => SameAt(rows, Run(o, rows), k)
           /\ k \in DOMAIN Run(o, rows) /\ k \notin DOMAIN rows =>
                  k.group = o.group /\ (IsGlobalKey(k) <=> o.op = "CreateKeyPackage")
<1> DEFINE g == o.group
<1> HIDE DEF g
<1>1. o.op \in {"CreateKeyPackage", "CreateGroup", "Join", "ReceiveProposal", "MergeCommit",
                "MergeOwnRemoval", "DeleteGroup"}
    BY DEF Operation, CreatesKeyPackage, CreatesGroup, Joins, QueuesProposal, Merges, Deletes
<1>2. SUFFICES ASSUME o.op # "CreateKeyPackage", o.op # "Join"
               PROVE  Within(rows, Run(o, rows), g)
  <2>1. CASE o.op = "CreateKeyPackage"
    <3>1. o.group = Global
        BY <2>1 DEF Operation, CreatesKeyPackage, CreatesGroup, Joins, QueuesProposal, Merges,
                    Deletes
    <3>2. Run(o, rows) = Write(rows, {KeyPackageKey(o.key)}, o.key)
        BY <2>1 DEF Run
    <3> QED BY <2>1, <3>1, <3>2, WriteAt
            DEF Published, UsesInstallation, SameAt, KeyPackageKey, Key, IsGlobalKey, GlobalLabels
  <2>2. CASE o.op = "Join"
    <3> DEFINE erased == Erase(rows, {KeyPackageKey(o.key)})
    <3>1. Run(o, rows) = StoreNew(erased, o.group, o.at[1], o.at[2])
        BY <2>2 DEF Run
    <3>2. Within(erased, Run(o, rows), o.group)
        BY <3>1, WithinStores
    <3>3. /\ k \notin Published(o) => SameAt(rows, erased, k)
          /\ k \in DOMAIN erased => k \in DOMAIN rows
        BY <2>2, EraseAt DEF Published, UsesInstallation, SameAt
    <3>4. KeyPackageKey(o.key).group = Global /\ IsGlobalKey(KeyPackageKey(o.key))
        BY DEF KeyPackageKey, Key, IsGlobalKey, GlobalLabels
    <3>5. k \in DOMAIN Run(o, rows) /\ k \notin DOMAIN erased => OwnKey(k, o.group)
        BY <3>2 DEF Within
    <3>6. k.group # o.group => SameAt(erased, Run(o, rows), k)
        BY <3>2 DEF Within
    <3> HIDE DEF erased
    <3>7. k \notin Published(o) /\ k.group # o.group => SameAt(rows, Run(o, rows), k)
        BY <3>3, <3>6 DEF SameAt
    <3>8. k \in DOMAIN Run(o, rows) /\ k \notin DOMAIN rows => OwnKey(k, o.group)
        BY <3>3, <3>5
    <3> QED BY <2>2, <3>7, <3>8 DEF OwnKey
  <2>3. CASE o.op # "CreateKeyPackage" /\ o.op # "Join"
    <3>1. Within(rows, Run(o, rows), g)
        BY <1>2, <2>3
    <3> QED BY <2>3, <3>1 DEF Within, OwnKey, g
  <2> QED BY <2>1, <2>2, <2>3
<1>3. CASE o.op = "CreateGroup"
    BY <1>3, WithinStores DEF Run, g
<1>4. CASE o.op = "ReceiveProposal"
  <2>1. Within(rows, StoreOpened(rows, g), g)
    <3>1. \A value : Within(rows, Write(rows, {RowKey("MessageSecrets", g)}, value), g)
        BY OwnKeys, WithinWrite DEF GlobalLabels
    <3> QED BY <3>1 DEF StoreOpened
  <2>2. \A r : Within(r, QueueProposal(r, g, o.ref), g)
    <3> TAKE r
    <3>1. Within(r, Write(r, {ProposalKey(g, o.ref)}, o.ref), g)
        BY OwnKeys, WithinWrite
    <3>2. Within(Write(r, {ProposalKey(g, o.ref)}, o.ref), QueueProposal(r, g, o.ref), g)
        BY OwnKeys, WithinWrite DEF QueueProposal
    <3> QED BY <3>1, <3>2, WithinTwice
  <2>3. Within(rows, QueueProposal(StoreOpened(rows, g), g, o.ref), g)
      BY <2>1, <2>2, WithinTwice
  <2> QED BY <1>4, <2>3 DEF Run, g
<1>5. CASE o.op = "MergeCommit"
  <2> DEFINE epoch   == LiveEpoch(rows, g) + 1
             leaf    == LiveLeaf(rows, g)
             stored  == StoreMember(StorePublic(rows, g, epoch), g, epoch)
             written == Write(stored, {EpochKey(g, epoch, leaf)}, <<epoch, leaf>>)
             erased  == Erase(written, {EpochKey(g, epoch - 1, leaf)})
  <2>1. Within(rows, stored, g)
    <3>1. \A e : Within(rows, StoreMember(StorePublic(rows, g, e), g, e), g)
        BY WithinStores, WithinTwice
    <3> QED BY <3>1
  <2>2. Within(stored, written, g)
    <3>1. \A r, e, l, value : Within(r, Write(r, {EpochKey(g, e, l)}, value), g)
        BY OwnKeys, WithinWrite
    <3> QED BY <3>1
  <2>3. Within(written, erased, g)
      BY OwnKeys, WithinErase DEF OwnKey
  <2>4. MergeCommit(rows, g) = ClearProposalQueue(erased, g)
      BY DEF MergeCommit
  <2> HIDE DEF epoch, leaf, stored, written, erased
  <2>5. Within(rows, erased, g)
      BY <2>1, <2>2, <2>3, WithinTwice
  <2>6. Within(rows, MergeCommit(rows, g), g)
      BY <2>4, <2>5, WithinClears, WithinTwice
  <2> QED BY <1>5, <2>6 DEF Run, g
<1>6. CASE o.op = "MergeOwnRemoval"
  <2> DEFINE epoch  == LiveEpoch(rows, g) + 1
             public == StorePublic(rows, g, epoch)
             moved  == Write(public, {RowKey("Local", g), RowKey("ResumptionPsk", g)}, epoch)
  <2>1. Within(rows, public, g)
      BY WithinStores
  <2>2. Within(public, moved, g)
      BY OwnKeys, WithinWrite DEF GlobalLabels
  <2>3. Within(moved, MergeOwnRemoval(rows, g), g)
      BY OwnKeys, WithinWrite DEF GlobalLabels, MergeOwnRemoval
  <2> HIDE DEF epoch, public, moved
  <2>4. Within(rows, MergeOwnRemoval(rows, g), g)
      BY <2>1, <2>2, <2>3, WithinTwice
  <2> QED BY <1>6, <2>4 DEF Run, g
<1>7. CASE o.op = "DeleteGroup"
  <2>1. \A r, keys : (\A k1 \in keys : k1.group = g) => Within(r, Erase(r, keys), g)
      BY WithinErase
  <2>2. Within(rows, DeleteGroup(rows, g), g)
    <3> DEFINE keys == {RowKey(label, g) : label \in SingleLabels \ {"Local"}}
                          \cup {EpochKey(g, LiveEpoch(rows, g), LiveLeaf(rows, g))}
    <3>1. \A k1 \in keys : k1.group = g
        BY OwnKeys DEF OwnKey
    <3>2. Within(ClearProposalQueue(rows, g), DeleteGroup(rows, g), g)
        BY <3>1, <2>1 DEF DeleteGroup
    <3> QED BY <3>2, WithinClears, WithinTwice
  <2> QED BY <1>7, <2>2 DEF Run, g
<1> QED BY <1>1, <1>2, <1>3, <1>4, <1>5, <1>6, <1>7

(* Deleting a group writes no row: the batch only removes.                 *)
LEMMA DeleteWritesNothing ==
    ASSUME NEW rows, NEW g, NEW k \in DOMAIN DeleteGroup(rows, g)
    PROVE  k \in DOMAIN rows /\ DeleteGroup(rows, g)[k] = rows[k]
BY EraseAt DEF DeleteGroup, ClearProposalQueue

-----------------------------------------------------------------------------
(* RowStore reads the definitions of StorageRows through its instance.     *)
LEMMA SameKeys ==
    /\ RS!PublicLabels = PublicLabels
    /\ RS!SingleLabels = SingleLabels
    /\ \A label, g : RS!RowKey(label, g) = RowKey(label, g)
    /\ \A g, epoch, leaf : RS!EpochKey(g, epoch, leaf) = EpochKey(g, epoch, leaf)
    /\ \A g : RS!RefsKey(g) = RefsKey(g)
    /\ \A g, ref : RS!ProposalKey(g, ref) = ProposalKey(g, ref)
    /\ \A k : RS!KeyPackageKey(k) = KeyPackageKey(k)
    /\ RS!Operation = Operation
BY DEF RS!PublicLabels, RS!SingleLabels, RS!RowKey, RS!EpochKey, RS!Digits, RS!RefsKey,
       RS!ProposalKey, RS!KeyPackageKey, RS!Key, RS!Operation, RS!CreatesKeyPackage,
       RS!CreatesGroup, RS!Joins, RS!QueuesProposal, RS!Merges, RS!Deletes,
       PublicLabels, SingleLabels, RowKey, EpochKey, Digits, RefsKey, ProposalKey, KeyPackageKey,
       Key, Operation, CreatesKeyPackage, CreatesGroup, Joins, QueuesProposal, Merges, Deletes

LEMMA SameRun ==
    ASSUME NEW o \in Operation, NEW rows
    PROVE  RS!Run(o, rows) = Run(o, rows) /\ (RS!Succeeds(o, rows) <=> Succeeds(o, rows))
<1>1. /\ \A r, keys, value : RS!Write(r, keys, value) = Write(r, keys, value)
      /\ \A r, keys : RS!Erase(r, keys) = Erase(r, keys)
      /\ \A f : RS!Range(f) = Range(f)
    BY DEF RS!Write, Write, RS!Erase, RS!Restrict, Erase, Restrict, RS!Range, Range
<1>2. \A r, g : /\ RS!QueuedRefs(r, g) = QueuedRefs(r, g)
                /\ RS!LiveEpoch(r, g) = LiveEpoch(r, g)
                /\ RS!LiveLeaf(r, g) = LiveLeaf(r, g)
                /\ RS!IsMember(r, g) = IsMember(r, g)
    BY SameKeys DEF RS!QueuedRefs, QueuedRefs, RS!LiveEpoch, LiveEpoch, RS!LiveLeaf, LiveLeaf,
                    RS!IsMember, IsMember
<1>3. \A r, g : RS!IsActive(r, g) = IsActive(r, g)
    BY <1>2, SameKeys DEF RS!IsActive, IsActive
<1>4. \A r, g : RS!ClearProposalQueue(r, g) = ClearProposalQueue(r, g)
    BY <1>1, <1>2, SameKeys DEF RS!ClearProposalQueue, ClearProposalQueue
<1>5. \A r, g, ref : RS!QueueProposal(r, g, ref) = QueueProposal(r, g, ref)
    BY <1>1, <1>2, SameKeys DEF RS!QueueProposal, QueueProposal
<1>6. \A r, g, epoch : /\ RS!StorePublic(r, g, epoch) = StorePublic(r, g, epoch)
                       /\ RS!StoreMember(r, g, epoch) = StoreMember(r, g, epoch)
    BY <1>1, SameKeys DEF RS!StorePublic, StorePublic, RS!StoreMember, StoreMember
<1>7. \A r, g : RS!StoreOpened(r, g) = StoreOpened(r, g)
    BY <1>1, SameKeys DEF RS!StoreOpened, StoreOpened
<1>8. \A r, g, epoch, leaf : RS!StoreNew(r, g, epoch, leaf) = StoreNew(r, g, epoch, leaf)
    BY <1>1, <1>6, SameKeys DEF RS!StoreNew, StoreNew
<1>9. /\ \A r, g : RS!MergeCommit(r, g) = MergeCommit(r, g)
      /\ \A r, g : RS!MergeOwnRemoval(r, g) = MergeOwnRemoval(r, g)
      /\ \A r, g : RS!DeleteGroup(r, g) = DeleteGroup(r, g)
  <2>1. ASSUME NEW r, NEW g
        PROVE  RS!MergeCommit(r, g) = MergeCommit(r, g)
    BY <1>1, <1>2, <1>4, <1>6, SameKeys DEF RS!MergeCommit, MergeCommit
  <2>2. ASSUME NEW r, NEW g
        PROVE  RS!MergeOwnRemoval(r, g) = MergeOwnRemoval(r, g)
    BY <1>1, <1>2, <1>6, SameKeys DEF RS!MergeOwnRemoval, MergeOwnRemoval
  <2>3. ASSUME NEW r, NEW g
        PROVE  RS!DeleteGroup(r, g) = DeleteGroup(r, g)
    <3>1. {RS!RowKey(label, g) : label \in RS!SingleLabels \ {"Local"}}
              = {RowKey(label, g) : label \in SingleLabels \ {"Local"}}
        BY SameKeys
    <3>2. RS!EpochKey(g, RS!LiveEpoch(r, g), RS!LiveLeaf(r, g))
              = EpochKey(g, LiveEpoch(r, g), LiveLeaf(r, g))
        BY <1>2, SameKeys
    <3> QED BY <1>1, <1>4, <3>1, <3>2 DEF RS!DeleteGroup, DeleteGroup
  <2> QED BY <2>1, <2>2, <2>3
<1>10. RS!Run(o, rows) = Run(o, rows)
    BY <1>1, <1>5, <1>7, <1>8, <1>9, SameKeys DEF RS!Run, Run
<1>11. RS!Succeeds(o, rows) <=> Succeeds(o, rows)
  <2>1. /\ \A r, g : RS!IsActive(r, g) <=> IsActive(r, g)
        /\ \A r, g : RS!IsMember(r, g) <=> IsMember(r, g)
      BY <1>2, <1>3
  <2>2. /\ RS!KeyPackageKey(o.key) = KeyPackageKey(o.key)
        /\ RS!QueuedRefs(rows, o.group) = QueuedRefs(rows, o.group)
        /\ RS!Range(QueuedRefs(rows, o.group)) = Range(QueuedRefs(rows, o.group))
        /\ RS!LiveEpoch(rows, o.group) = LiveEpoch(rows, o.group)
      BY <1>1, <1>2, SameKeys
  <2>3. o.op \in {"CreateKeyPackage", "CreateGroup", "Join", "ReceiveProposal", "MergeCommit",
                  "MergeOwnRemoval", "DeleteGroup"}
      BY DEF Operation, CreatesKeyPackage, CreatesGroup, Joins, QueuesProposal, Merges, Deletes
  <2> QED BY <2>1, <2>2, <2>3 DEF RS!Succeeds, Succeeds
<1> QED BY <1>10, <1>11

-----------------------------------------------------------------------------
(* The rows of a group *)

\* The rows of queued proposals are those the list names.
QueueOK(rows, g) ==
    /\ QueuedRefs(rows, g) \in Seq(ProposalRef)
    /\ \A ref \in ProposalRef :
           ProposalKey(g, ref) \in DOMAIN rows <=> ref \in Range(QueuedRefs(rows, g))

\* The epoch key pairs: those of the live epoch and leaf, and no others.
KeysOK(rows, g) ==
    /\ \A k1, k2 \in DOMAIN rows :
           /\ k1.label = "EpochKeyPairs" /\ k1.group = g
           /\ k2.label = "EpochKeyPairs" /\ k2.group = g
           => k1 = k2
    /\ IsActive(rows, g) =>
           LET key == EpochKey(g, LiveEpoch(rows, g), LiveLeaf(rows, g))
           IN  key \in DOMAIN rows /\ rows[key] = <<LiveEpoch(rows, g), LiveLeaf(rows, g)>>

\* A group is there with all that operations on it read, or not at all.
PresentOK(rows, g) ==
    /\ \A k \in DOMAIN rows : k.group = g => IsMember(rows, g)
    /\ Complete(rows, g)
    /\ IsMember(rows, g) => LiveEpoch(rows, g) \in Nat /\ LiveLeaf(rows, g) \in Nat

GroupOK(rows, g) == QueueOK(rows, g) /\ KeysOK(rows, g) /\ PresentOK(rows, g)

LEMMA LikeOK ==
    ASSUME NEW rows1, NEW rows2, NEW g, LikeOn(rows1, rows2, g), GroupOK(rows1, g)
    PROVE  GroupOK(rows2, g)
<1>1. \A k : k.group = g => (k \in DOMAIN rows2 <=> k \in DOMAIN rows1)
                            /\ (k \in DOMAIN rows1 => rows1[k] = rows2[k])
    BY DEF LikeOn, SameAt
<1>2. PresentOK(rows2, g)
  <2>1. Complete(rows2, g) /\ \A k \in DOMAIN rows2 : k.group = g => IsMember(rows2, g)
      BY <1>1, LikeReads DEF GroupOK, PresentOK, Complete
  <2>2. IsMember(rows2, g) => LiveEpoch(rows2, g) = LiveEpoch(rows1, g)
                              /\ LiveLeaf(rows2, g) = LiveLeaf(rows1, g)
      BY LikeReads DEF GroupOK, PresentOK, Complete, LiveEpoch, LiveLeaf
  <2> QED BY <2>1, <2>2, LikeReads DEF GroupOK, PresentOK
<1>3. QueueOK(rows2, g)
    BY <1>1, LikeReads, OwnKeys DEF GroupOK, QueueOK, OwnKey
<1>4. KeysOK(rows2, g)
  <2>1. IsActive(rows2, g) => /\ IsActive(rows1, g)
                              /\ LiveEpoch(rows2, g) = LiveEpoch(rows1, g)
                              /\ LiveLeaf(rows2, g) = LiveLeaf(rows1, g)
      BY LikeReads DEF GroupOK, PresentOK, Complete, LiveEpoch, LiveLeaf, IsActive
  <2>2. \A epoch, leaf : EpochKey(g, epoch, leaf).group = g
      BY OwnKeys DEF OwnKey
  <2>3. \A k \in DOMAIN rows2 : k.group = g => k \in DOMAIN rows1
      BY <1>1
  <2> QED BY <1>1, <2>1, <2>2, <2>3 DEF GroupOK, KeysOK
<1> QED BY <1>2, <1>3, <1>4 DEF GroupOK

LEMMA LeastNumber ==
    ASSUME NEW T \in SUBSET Nat, T # {}
    PROVE  \E x \in T : \A y \in T : x <= y
<1>1. PICK x \in T : \A y \in T : ~(<<y, x>> \in OpToRel(<, Nat))
    BY NatLessThanWellFounded, WFMin
<1>2. \A y \in T : ~(y < x)
    BY <1>1 DEF OpToRel
<1> QED
    BY <1>2

\* Induction over a set of numbers.
LEMMA Induction ==
    ASSUME NEW S, 0 \in S, \A n \in Nat : n \in S => n + 1 \in S
    PROVE  Nat \subseteq S
<1> DEFINE T == Nat \ S
<1> SUFFICES ASSUME T # {} PROVE FALSE
    OBVIOUS
<1>1. PICK x \in T : \A y \in T : x <= y
    BY LeastNumber
<1>2. x # 0 /\ x \in Nat
    OBVIOUS
<1>3. x - 1 \in Nat /\ x - 1 \notin T
    BY <1>1, <1>2
<1>4. x - 1 + 1 \in S
    BY <1>3
<1> QED
    BY <1>2, <1>4

(* Numbers as JSON writes them.  One step of the recursion of Digits: *)
Decimal(f, n) == IF n < 10 THEN <<n>> ELSE Append(f[n \div 10], n % 10)
DecimalTo(f, m) == \A n \in 0 .. m : f[n] = Decimal(f, n)

LEMMA Tenth ==
    ASSUME NEW n \in Nat, ~(n < 10)
    PROVE  /\ n \div 10 \in Nat /\ n \div 10 < n
           /\ n % 10 \in Nat /\ n = 10 * (n \div 10) + (n % 10)
OBVIOUS

LEMMA DecimalAgrees ==
    ASSUME NEW f, NEW g, NEW m \in Nat, NEW k \in Nat, DecimalTo(f, m), DecimalTo(g, k)
    PROVE  \A n \in Nat : n <= m /\ n <= k => f[n] = g[n]
<1> DEFINE S == {j \in Nat : \A n \in 0 .. j : n <= m /\ n <= k => f[n] = g[n]}
<1>1. ASSUME NEW n \in Nat, n <= m, n <= k, ~(n < 10) => f[n \div 10] = g[n \div 10]
      PROVE  f[n] = g[n]
  <2>1. n \in 0 .. m /\ n \in 0 .. k
      BY <1>1
  <2> QED BY <1>1, <2>1 DEF DecimalTo, Decimal
<1>2. 0 \in S
    BY <1>1
<1>3. ASSUME NEW j \in Nat, j \in S PROVE j + 1 \in S
  <2> SUFFICES ASSUME NEW n \in 0 .. j + 1, n <= m, n <= k PROVE f[n] = g[n]
      OBVIOUS
  <2>1. ~(n < 10) => n \div 10 \in 0 .. j /\ n \div 10 <= m /\ n \div 10 <= k
      BY Tenth
  <2>2. ~(n < 10) => f[n \div 10] = g[n \div 10]
      BY <1>3, <2>1
  <2>3. n \in Nat
      OBVIOUS
  <2> HIDE DEF S
  <2> QED BY <1>1, <2>2, <2>3
<1>4. Nat \subseteq S
  <2> HIDE DEF S
  <2> QED BY <1>2, <1>3, Induction
<1> QED BY <1>4

LEMMA DecimalExists ==
    ASSUME NEW m \in Nat
    PROVE  \E f : DecimalTo(f, m)
<1> DEFINE S == {j \in Nat : \E f : DecimalTo(f, j)}
<1>1. 0 \in S
  <2> DEFINE f == [n \in {0} |-> <<0>>]
  <2>1. DecimalTo(f, 0)
      BY DEF DecimalTo, Decimal
  <2> HIDE DEF f
  <2> QED BY <2>1
<1>2. ASSUME NEW j \in Nat, j \in S PROVE j + 1 \in S
  <2>1. PICK f : DecimalTo(f, j)
      BY <1>2
  <2> DEFINE g == [n \in 0 .. j + 1 |-> IF n <= j THEN f[n] ELSE Decimal(f, n)]
  <2>2. ASSUME NEW n \in 0 .. j + 1 PROVE g[n] = Decimal(g, n)
    <3>1. n \in Nat /\ (n <= j => n \in 0 .. j)
        OBVIOUS
    <3>2. g[n] = Decimal(f, n)
        BY <2>1, <3>1 DEF DecimalTo
    <3>3. ~(n < 10) => n \div 10 \in 0 .. j + 1 /\ n \div 10 <= j
        BY <3>1, Tenth
    <3>4. ~(n < 10) => g[n \div 10] = f[n \div 10]
        BY <3>3
    <3> HIDE DEF g
    <3> QED BY <3>2, <3>4 DEF Decimal
  <2> HIDE DEF g
  <2>3. DecimalTo(g, j + 1)
      BY <2>2 DEF DecimalTo
  <2> QED BY <2>3
<1>3. Nat \subseteq S
  <2> HIDE DEF S
  <2> QED BY <1>1, <1>2, Induction
<1> QED BY <1>3

(* Digits is what its recursive definition says. *)
LEMMA DigitsStep ==
    ASSUME NEW n \in Nat
    PROVE  Digits[n] = Decimal(Digits, n)
<1> DEFINE to(m) == CHOOSE f : DecimalTo(f, m)
           h == [k \in Nat |-> to(k)[k]]
<1>1. \A m \in Nat : DecimalTo(to(m), m)
    BY DecimalExists
<1> HIDE DEF to
<1>2. ASSUME NEW k \in Nat PROVE h[k] = Decimal(h, k)
  <2>1. h[k] = Decimal(to(k), k)
      BY <1>1 DEF DecimalTo
  <2>2. ASSUME ~(k < 10) PROVE to(k)[k \div 10] = h[k \div 10]
    <3>1. k \div 10 \in Nat /\ k \div 10 <= k
        BY <2>2, Tenth
    <3>2. to(k)[k \div 10] = to(k \div 10)[k \div 10]
        BY <1>1, <3>1, DecimalAgrees
    <3> QED BY <3>1, <3>2
  <2> HIDE DEF h
  <2> QED BY <2>1, <2>2 DEF Decimal
<1>3. h = [k \in Nat |-> IF k < 10 THEN <<k>> ELSE Append(h[k \div 10], k % 10)]
  <2>1. h = [k \in Nat |-> h[k]]
      OBVIOUS
  <2> HIDE DEF h
  <2> QED BY <1>2, <2>1 DEF Decimal
<1> HIDE DEF h
<1>4. Digits = [k \in Nat |-> IF k < 10 THEN <<k>> ELSE Append(Digits[k \div 10], k % 10)]
    BY <1>3, Zenon DEF Digits
<1> QED BY <1>4 DEF Decimal

LEMMA DigitsType ==
    ASSUME NEW n \in Nat
    PROVE  Digits[n] \in Seq(Nat) /\ Len(Digits[n]) >= 1
<1> DEFINE S == {j \in Nat : \A k \in 0 .. j : Digits[k] \in Seq(Nat) /\ Len(Digits[k]) >= 1}
<1>1. ASSUME NEW k \in Nat,
             ~(k < 10) => Digits[k \div 10] \in Seq(Nat) /\ Len(Digits[k \div 10]) >= 1
      PROVE  Digits[k] \in Seq(Nat) /\ Len(Digits[k]) >= 1
  <2>1. CASE k < 10
    <3>1. Digits[k] = <<k>>
        BY <2>1, DigitsStep DEF Decimal
    <3>2. <<k>> \in Seq(Nat) /\ Len(<<k>>) = 1
        OBVIOUS
    <3> QED BY <3>1, <3>2
  <2>2. CASE ~(k < 10)
    <3>1. k % 10 \in Nat
        BY <2>2, Tenth
    <3>2. Digits[k] = Append(Digits[k \div 10], k % 10)
        BY <2>2, DigitsStep DEF Decimal
    <3> QED BY <1>1, <2>2, <3>1, <3>2
  <2> QED BY <2>1, <2>2
<1>2. 0 \in S
    BY <1>1
<1>3. ASSUME NEW j \in Nat, j \in S PROVE j + 1 \in S
  <2> SUFFICES ASSUME NEW k \in 0 .. j + 1 PROVE Digits[k] \in Seq(Nat) /\ Len(Digits[k]) >= 1
      OBVIOUS
  <2>1. ~(k < 10) => k \div 10 \in 0 .. j
      BY Tenth
  <2>2. k \in Nat
      OBVIOUS
  <2> QED BY <1>1, <1>3, <2>1, <2>2
<1>4. Nat \subseteq S
  <2> HIDE DEF S
  <2> QED BY <1>2, <1>3, Induction
<1>5. n \in S /\ n \in 0 .. n
  <2> HIDE DEF S
  <2> QED BY <1>4
<1> QED BY <1>5

(* Different numbers have different digits. *)
LEMMA DigitsInjective ==
    ASSUME NEW m \in Nat, NEW n \in Nat, Digits[m] = Digits[n]
    PROVE  m = n
<1> DEFINE S == {j \in Nat : \A a \in 0 .. j : \A b \in Nat : Digits[a] = Digits[b] => a = b}
<1>1. ASSUME NEW a \in Nat, NEW b \in Nat, Digits[a] = Digits[b],
             ~(a < 10) => \A c \in Nat : Digits[a \div 10] = Digits[c] => a \div 10 = c
      PROVE  a = b
  <2>1. \A k \in Nat : k < 10 => Digits[k] = <<k>>
      BY DigitsStep DEF Decimal
  <2>2. ASSUME NEW k \in Nat, ~(k < 10)
        PROVE  /\ Digits[k] = Append(Digits[k \div 10], k % 10)
               /\ Digits[k \div 10] \in Seq(Nat) /\ Len(Digits[k \div 10]) >= 1
               /\ k \div 10 \in Nat /\ k % 10 \in Nat /\ k = 10 * (k \div 10) + (k % 10)
    <3>1. k \div 10 \in Nat /\ k % 10 \in Nat /\ k = 10 * (k \div 10) + (k % 10)
        BY <2>2, Tenth
    <3> QED BY <2>2, <3>1, DigitsStep, DigitsType DEF Decimal
  <2>3. \A k \in Nat : ~(k < 10) => Len(Digits[k]) >= 2
      BY <2>2
  <2>4. CASE a < 10 /\ b < 10
      BY <1>1, <2>1, <2>4
  <2>5. ASSUME NEW k \in Nat, NEW l \in Nat, k < 10, ~(l < 10), Digits[k] = Digits[l]
        PROVE  FALSE
    <3>1. Digits[k] = <<k>> /\ Len(<<k>>) = 1
        BY <2>1, <2>5
    <3>2. Len(Digits[l]) >= 2
        BY <2>3, <2>5
    <3>3. Len(Digits[l]) = 1
        BY <2>5, <3>1
    <3> QED BY <3>2, <3>3
  <2>6. CASE ~(a < 10) /\ ~(b < 10)
    <3> DEFINE s == Digits[a \div 10]
               t == Digits[b \div 10]
    <3>1. /\ s \in Seq(Nat) /\ t \in Seq(Nat) /\ a % 10 \in Nat /\ b % 10 \in Nat
          /\ Append(s, a % 10) = Append(t, b % 10)
        BY <1>1, <2>2, <2>6
    <3>2. s = t /\ a % 10 = b % 10
      <4> HIDE DEF s, t
      <4>1. /\ Len(s) \in Nat /\ Len(t) \in Nat
            /\ Len(Append(s, a % 10)) = Len(s) + 1 /\ Append(s, a % 10)[Len(s) + 1] = a % 10
            /\ Len(Append(t, b % 10)) = Len(t) + 1 /\ Append(t, b % 10)[Len(t) + 1] = b % 10
            /\ \A i \in 1 .. Len(s) : Append(s, a % 10)[i] = s[i]
            /\ \A i \in 1 .. Len(t) : Append(t, b % 10)[i] = t[i]
          BY <3>1, AppendProperties
      <4>2. Len(s) = Len(t) /\ a % 10 = b % 10
          BY <3>1, <4>1
      <4>3. \A i \in 1 .. Len(s) : s[i] = t[i]
          BY <3>1, <4>1, <4>2
      <4> QED BY <3>1, <4>2, <4>3, SeqEqual
    <3>3. a \div 10 = b \div 10
        BY <1>1, <2>2, <2>6, <3>2
    <3>4. a = 10 * (a \div 10) + (a % 10) /\ b = 10 * (b \div 10) + (b % 10)
        BY <2>2, <2>6
    <3> QED BY <3>2, <3>3, <3>4
  <2> QED BY <1>1, <2>4, <2>5, <2>6
<1>2. 0 \in S
    BY <1>1
<1>3. ASSUME NEW j \in Nat, j \in S PROVE j + 1 \in S
  <2> SUFFICES ASSUME NEW a \in 0 .. j + 1, NEW b \in Nat, Digits[a] = Digits[b] PROVE a = b
      OBVIOUS
  <2>1. ~(a < 10) => a \div 10 \in 0 .. j
      BY Tenth
  <2>2. a \in Nat
      OBVIOUS
  <2>3. ~(a < 10) => \A c \in Nat : Digits[a \div 10] = Digits[c] => a \div 10 = c
      BY <1>3, <2>1
  <2> HIDE DEF S
  <2> QED BY <1>1, <2>2, <2>3
<1>4. Nat \subseteq S
  <2> HIDE DEF S
  <2> QED BY <1>2, <1>3, Induction
<1> QED BY <1>4

(* Epochs one apart are never encoded alike at one leaf, though the epoch  *)
(* and the leaf are written without a separator.                           *)
LEMMA NextKeyDiffers ==
    ASSUME NEW g, NEW epoch \in Nat, NEW leaf \in Nat
    PROVE  EpochKey(g, epoch + 1, leaf) # EpochKey(g, epoch, leaf)
<1>1. SUFFICES ASSUME Digits[epoch] \o Digits[leaf] = Digits[epoch + 1] \o Digits[leaf]
               PROVE  FALSE
    BY DEF EpochKey, Key
<1>2. /\ Digits[epoch] \in Seq(Nat) /\ Digits[epoch + 1] \in Seq(Nat) /\ Digits[leaf] \in Seq(Nat)
    BY DigitsType
<1>3. Digits[epoch] = Digits[epoch + 1]
    BY <1>1, <1>2, ConcatSimplifications
<1> QED BY <1>3, DigitsInjective

-----------------------------------------------------------------------------
(* Operations keep the rows of their group *)

\* Only rows under the labels differ.
Touches(rows1, rows2, labels) == \A k : k.label \notin labels => SameAt(rows1, rows2, k)

MemberLabels == {"EpochSecrets", "ResumptionPsk", "Local", "MessageSecrets"}
QueueLabels  == {"ProposalQueueRefs", "QueuedProposal"}

LEMMA TouchWrite ==
    ASSUME NEW rows, NEW keys, NEW value, NEW labels, \A k \in keys : k.label \in labels
    PROVE  Touches(rows, Write(rows, keys, value), labels)
BY WriteAt DEF Touches, SameAt

LEMMA TouchErase ==
    ASSUME NEW rows, NEW keys, NEW labels, \A k \in keys : k.label \in labels
    PROVE  Touches(rows, Erase(rows, keys), labels)
BY EraseAt DEF Touches, SameAt

LEMMA TouchTwice ==
    ASSUME NEW rows1, NEW rows2, NEW rows3, NEW labels1, NEW labels2,
           Touches(rows1, rows2, labels1), Touches(rows2, rows3, labels2)
    PROVE  Touches(rows1, rows3, labels1 \cup labels2)
BY DEF Touches, SameAt

LEMMA LabelOf ==
    ASSUME NEW g
    PROVE  /\ \A label : RowKey(label, g).label = label
           /\ RefsKey(g).label = "ProposalQueueRefs"
           /\ \A ref : ProposalKey(g, ref).label = "QueuedProposal"
           /\ \A epoch, leaf : EpochKey(g, epoch, leaf).label = "EpochKeyPairs"
           /\ \A ref1, ref2 : ProposalKey(g, ref1) = ProposalKey(g, ref2) => ref1 = ref2
BY DEF RowKey, RefsKey, ProposalKey, EpochKey, Key

LEMMA PublicStored ==
    ASSUME NEW rows, NEW g, NEW epoch
    PROVE  /\ Touches(rows, StorePublic(rows, g, epoch), PublicLabels)
           /\ DOMAIN rows \subseteq DOMAIN StorePublic(rows, g, epoch)
           /\ RowKey("GroupContext", g) \in DOMAIN StorePublic(rows, g, epoch)
           /\ LiveEpoch(StorePublic(rows, g, epoch), g) = epoch
<1> DEFINE keys == {RowKey(label, g) : label \in PublicLabels}
<1>1. RowKey("GroupContext", g) \in keys
    BY DEF PublicLabels
<1>2. \A k \in keys : k.label \in PublicLabels
    BY LabelOf
<1> HIDE DEF keys
<1>3. /\ Touches(rows, Write(rows, keys, epoch), PublicLabels)
      /\ DOMAIN rows \subseteq DOMAIN Write(rows, keys, epoch)
      /\ RowKey("GroupContext", g) \in DOMAIN Write(rows, keys, epoch)
      /\ Write(rows, keys, epoch)[RowKey("GroupContext", g)] = epoch
    BY <1>1, <1>2, TouchWrite, WriteAt
<1> QED BY <1>3 DEF StorePublic, LiveEpoch, keys

LEMMA MemberStored ==
    ASSUME NEW rows, NEW g, NEW epoch
    PROVE  /\ Touches(rows, StoreMember(rows, g, epoch), MemberLabels)
           /\ DOMAIN rows \subseteq DOMAIN StoreMember(rows, g, epoch)
           /\ RowKey("MessageSecrets", g) \in DOMAIN StoreMember(rows, g, epoch)
<1> DEFINE keys  == {RowKey(label, g) : label \in {"EpochSecrets", "ResumptionPsk", "Local"}}
           first == Write(rows, keys, epoch)
<1>1. \A k \in keys : k.label \in MemberLabels
  <2>1. \A k \in keys : k.label \in {"EpochSecrets", "ResumptionPsk", "Local"}
      BY DEF RowKey, Key
  <2> QED BY <2>1 DEF MemberLabels
<1>2. StoreMember(rows, g, epoch) = Write(first, {RowKey("MessageSecrets", g)}, <<epoch, 0>>)
    BY DEF StoreMember
<1> HIDE DEF keys
<1>3. Touches(rows, first, MemberLabels) /\ DOMAIN rows \subseteq DOMAIN first
    BY <1>1, TouchWrite, WriteAt
<1> HIDE DEF first
<1>4. /\ Touches(first, StoreMember(rows, g, epoch), MemberLabels)
      /\ DOMAIN first \subseteq DOMAIN StoreMember(rows, g, epoch)
      /\ RowKey("MessageSecrets", g) \in DOMAIN StoreMember(rows, g, epoch)
  <2>1. \A k \in {RowKey("MessageSecrets", g)} : k.label \in MemberLabels
      BY DEF RowKey, Key, MemberLabels
  <2> QED BY <1>2, <2>1, TouchWrite, WriteAt
<1> QED BY <1>3, <1>4, TouchTwice

\* Public state and the member's rows of a new epoch.
LEMMA EpochStored ==
    ASSUME NEW rows, NEW g, NEW epoch, NEW stored,
           stored = StoreMember(StorePublic(rows, g, epoch), g, epoch)
    PROVE  /\ Touches(rows, stored, PublicLabels \cup MemberLabels)
           /\ DOMAIN rows \subseteq DOMAIN stored
           /\ {RowKey("GroupContext", g), RowKey("MessageSecrets", g)} \subseteq DOMAIN stored
           /\ LiveEpoch(stored, g) = epoch
<1> DEFINE public == StorePublic(rows, g, epoch)
<1>1. /\ Touches(rows, public, PublicLabels)
      /\ DOMAIN rows \subseteq DOMAIN public
      /\ RowKey("GroupContext", g) \in DOMAIN public
      /\ LiveEpoch(public, g) = epoch
    BY PublicStored
<1> HIDE DEF public
<1>2. /\ Touches(public, stored, MemberLabels)
      /\ DOMAIN public \subseteq DOMAIN stored
      /\ RowKey("MessageSecrets", g) \in DOMAIN stored
    BY MemberStored DEF public
<1>3. SameAt(public, stored, RowKey("GroupContext", g))
    BY <1>2, LabelOf DEF Touches, MemberLabels
<1>4. LiveEpoch(stored, g) = epoch
    BY <1>1, <1>3 DEF SameAt, LiveEpoch
<1>5. Touches(rows, stored, PublicLabels \cup MemberLabels)
    BY <1>1, <1>2, TouchTwice
<1> QED BY <1>1, <1>2, <1>4, <1>5

(* A queue no operation touched, and one that was emptied.                 *)
LEMMA QueueUntouched ==
    ASSUME NEW rows1, NEW rows2, NEW g, NEW labels, Touches(rows1, rows2, labels),
           labels \cap QueueLabels = {}
    PROVE  /\ QueuedRefs(rows2, g) = QueuedRefs(rows1, g)
           /\ \A ref : ProposalKey(g, ref) \in DOMAIN rows2 <=> ProposalKey(g, ref) \in DOMAIN rows1
           /\ QueueOK(rows1, g) => QueueOK(rows2, g)
<1>1. SameAt(rows1, rows2, RefsKey(g)) /\ \A ref : SameAt(rows1, rows2, ProposalKey(g, ref))
    BY DEF Touches, QueueLabels, RefsKey, RowKey, ProposalKey, Key
<1>2. QueuedRefs(rows2, g) = QueuedRefs(rows1, g)
    BY <1>1 DEF QueuedRefs, SameAt
<1>3. \A ref : ProposalKey(g, ref) \in DOMAIN rows2 <=> ProposalKey(g, ref) \in DOMAIN rows1
    BY <1>1 DEF SameAt
<1> QED BY <1>2, <1>3 DEF QueueOK

LEMMA NoQueue ==
    ASSUME NEW rows, NEW g, RefsKey(g) \notin DOMAIN rows,
           \A ref \in ProposalRef : ProposalKey(g, ref) \notin DOMAIN rows
    PROVE  QueueOK(rows, g)
<1>1. QueuedRefs(rows, g) = <<>> /\ Range(<<>>) = {} /\ <<>> \in Seq(ProposalRef)
    BY DEF QueuedRefs, Range
<1> QED BY <1>1 DEF QueueOK

LEMMA QueueCleared ==
    ASSUME NEW rows, NEW g, QueueOK(rows, g)
    PROVE  /\ QueueOK(ClearProposalQueue(rows, g), g)
           /\ Touches(rows, ClearProposalQueue(rows, g), QueueLabels)
           /\ DOMAIN ClearProposalQueue(rows, g) \subseteq DOMAIN rows
<1> DEFINE keys == {RefsKey(g)} \cup {ProposalKey(g, ref) : ref \in Range(QueuedRefs(rows, g))}
<1>1. \A k \in keys : k.label \in QueueLabels
    BY DEF QueueLabels, RefsKey, RowKey, ProposalKey, Key
<1>2. RefsKey(g) \in keys
    OBVIOUS
<1>3. \A ref \in ProposalRef : ProposalKey(g, ref) \in DOMAIN rows => ProposalKey(g, ref) \in keys
    BY DEF QueueOK
<1>4. ClearProposalQueue(rows, g) = Erase(rows, keys)
    BY DEF ClearProposalQueue
<1> HIDE DEF keys
<1>5. /\ RefsKey(g) \notin DOMAIN Erase(rows, keys)
      /\ \A ref \in ProposalRef : ProposalKey(g, ref) \notin DOMAIN Erase(rows, keys)
      /\ DOMAIN Erase(rows, keys) \subseteq DOMAIN rows
    BY <1>2, <1>3, EraseAt
<1> QED BY <1>1, <1>4, <1>5, NoQueue, TouchErase

(* What is read of a group is the same when the rows read are.             *)
LEMMA ReadUntouched ==
    ASSUME NEW rows1, NEW rows2, NEW g, NEW label, NEW labels, Touches(rows1, rows2, labels),
           label \notin labels
    PROVE  SameAt(rows1, rows2, RowKey(label, g))
BY DEF Touches, RowKey, Key

(* A new group.                                                            *)
LEMMA NewGroupOK ==
    ASSUME NEW rows, NEW g, NEW epoch \in Nat, NEW leaf \in Nat,
           \A k \in DOMAIN rows : k.group # g
    PROVE  GroupOK(StoreNew(rows, g, epoch, leaf), g)
<1> DEFINE stored == StoreMember(StorePublic(rows, g, epoch), g, epoch)
           state  == Write(stored, {RowKey("GroupState", g), RowKey("MlsGroupJoinConfig", g)},
                           "Operational")
           placed == Write(state, {RowKey("OwnLeafNodeIndex", g)}, leaf)
           key    == EpochKey(g, epoch, leaf)
           new    == Write(placed, {key}, <<epoch, leaf>>)
<1>1. /\ Touches(rows, stored, PublicLabels \cup MemberLabels)
      /\ {RowKey("GroupContext", g), RowKey("MessageSecrets", g)} \subseteq DOMAIN stored
      /\ LiveEpoch(stored, g) = epoch
    BY EpochStored
<1> HIDE DEF stored
<1>2. /\ Touches(stored, state, {"GroupState", "MlsGroupJoinConfig"})
      /\ DOMAIN stored \subseteq DOMAIN state
      /\ RowKey("GroupState", g) \in DOMAIN state
      /\ state[RowKey("GroupState", g)] = "Operational"
  <2>1. \A k \in {RowKey("GroupState", g), RowKey("MlsGroupJoinConfig", g)} :
            k.label \in {"GroupState", "MlsGroupJoinConfig"}
      BY DEF RowKey, Key
  <2> QED BY <2>1, TouchWrite, WriteAt
<1> HIDE DEF state
<1>3. /\ Touches(state, placed, {"OwnLeafNodeIndex"})
      /\ DOMAIN state \subseteq DOMAIN placed
      /\ RowKey("OwnLeafNodeIndex", g) \in DOMAIN placed
      /\ placed[RowKey("OwnLeafNodeIndex", g)] = leaf
  <2>1. \A k \in {RowKey("OwnLeafNodeIndex", g)} : k.label \in {"OwnLeafNodeIndex"}
      BY DEF RowKey, Key
  <2> QED BY <2>1, TouchWrite, WriteAt
<1> HIDE DEF placed
<1>4. /\ Touches(placed, new, {"EpochKeyPairs"})
      /\ DOMAIN placed \subseteq DOMAIN new
      /\ key \in DOMAIN new /\ new[key] = <<epoch, leaf>>
      /\ \A k \in DOMAIN new : k \in DOMAIN placed \/ k = key
  <2>1. \A k \in {key} : k.label \in {"EpochKeyPairs"}
      BY DEF EpochKey, Key
  <2> QED BY <2>1, TouchWrite, WriteAt
<1>5. StoreNew(rows, g, epoch, leaf) = new
    BY DEF StoreNew, stored, state, placed
<1> DEFINE touched == PublicLabels \cup MemberLabels \cup {"GroupState", "MlsGroupJoinConfig"}
                          \cup {"OwnLeafNodeIndex"}
<1>6. Touches(rows, placed, touched)
    BY <1>1, <1>2, <1>3, TouchTwice
<1> HIDE DEF new
<1>7. Touches(rows, new, touched \cup {"EpochKeyPairs"})
    BY <1>4, <1>6, TouchTwice
<1>8. QueueOK(new, g)
  <2>1. RefsKey(g) \notin DOMAIN rows /\ \A ref : ProposalKey(g, ref) \notin DOMAIN rows
      BY DEF RefsKey, RowKey, ProposalKey, Key
  <2>2. (touched \cup {"EpochKeyPairs"}) \cap QueueLabels = {}
      BY DEF PublicLabels, MemberLabels, QueueLabels
  <2>3. QueueOK(rows, g)
      BY <2>1, NoQueue
  <2> HIDE DEF touched
  <2> QED BY <1>7, <2>2, <2>3, QueueUntouched
<1>9. /\ new[RowKey("GroupState", g)] = "Operational" /\ IsMember(new, g)
      /\ LiveEpoch(new, g) = epoch /\ LiveLeaf(new, g) = leaf
      /\ Complete(new, g)
  <2>1. /\ SameAt(stored, state, RowKey("GroupContext", g))
        /\ SameAt(state, placed, RowKey("GroupContext", g))
        /\ SameAt(placed, new, RowKey("GroupContext", g))
        /\ SameAt(state, placed, RowKey("GroupState", g))
        /\ SameAt(placed, new, RowKey("GroupState", g))
        /\ SameAt(placed, new, RowKey("OwnLeafNodeIndex", g))
      BY <1>2, <1>3, <1>4, ReadUntouched
  <2> QED BY <1>1, <1>2, <1>3, <1>4, <2>1 DEF SameAt, IsMember, LiveEpoch, LiveLeaf, Complete
<1>10. KeysOK(new, g)
  <2>1. ASSUME NEW k \in DOMAIN new, k.label = "EpochKeyPairs", k.group = g
        PROVE  k = key
    <3>1. "EpochKeyPairs" \notin touched
        BY DEF PublicLabels, MemberLabels
    <3>2. SameAt(rows, placed, k)
        BY <1>6, <2>1, <3>1 DEF Touches
    <3>3. k \notin DOMAIN rows
        BY <2>1
    <3> QED BY <1>4, <3>2, <3>3 DEF SameAt
  <2> HIDE DEF key
  <2>2. /\ EpochKey(g, LiveEpoch(new, g), LiveLeaf(new, g)) = key
        /\ new[key] = <<LiveEpoch(new, g), LiveLeaf(new, g)>>
      BY <1>4, <1>9 DEF key
  <2> QED BY <1>4, <2>1, <2>2 DEF KeysOK
<1> QED BY <1>5, <1>8, <1>9, <1>10 DEF GroupOK, PresentOK

(* What an operation that writes no epoch key pairs and no queue must keep. *)
LEMMA KeysUntouched ==
    ASSUME NEW rows1, NEW rows2, NEW g, NEW labels, Touches(rows1, rows2, labels),
           "EpochKeyPairs" \notin labels, KeysOK(rows1, g),
           IsActive(rows2, g) => /\ IsActive(rows1, g)
                                 /\ LiveEpoch(rows2, g) = LiveEpoch(rows1, g)
                                 /\ LiveLeaf(rows2, g) = LiveLeaf(rows1, g)
    PROVE  KeysOK(rows2, g)
<1>1. \A k : k.label = "EpochKeyPairs" => SameAt(rows1, rows2, k)
    BY DEF Touches
<1>2. \A epoch, leaf : SameAt(rows1, rows2, EpochKey(g, epoch, leaf))
    BY <1>1, LabelOf
<1>3. \A k1, k2 \in DOMAIN rows2 :
          /\ k1.label = "EpochKeyPairs" /\ k1.group = g
          /\ k2.label = "EpochKeyPairs" /\ k2.group = g
          => k1 = k2
    BY <1>1 DEF SameAt, KeysOK
<1>4. ASSUME IsActive(rows2, g)
      PROVE  LET key == EpochKey(g, LiveEpoch(rows2, g), LiveLeaf(rows2, g))
             IN  key \in DOMAIN rows2 /\ rows2[key] = <<LiveEpoch(rows2, g), LiveLeaf(rows2, g)>>
    BY <1>2, <1>4 DEF SameAt, KeysOK
<1> QED BY <1>3, <1>4 DEF KeysOK

LEMMA ReceiveOK ==
    ASSUME NEW rows, NEW g, NEW ref \in ProposalRef, GroupOK(rows, g), IsActive(rows, g)
    PROVE  GroupOK(QueueProposal(StoreOpened(rows, g), g, ref), g)
<1> DEFINE opened == StoreOpened(rows, g)
           first  == Write(opened, {ProposalKey(g, ref)}, ref)
           queue  == Append(QueuedRefs(opened, g), ref)
           new    == Write(first, {RefsKey(g)}, queue)
<1>1. /\ Touches(rows, opened, {"MessageSecrets"})
      /\ DOMAIN opened = DOMAIN rows
  <2>1. RowKey("MessageSecrets", g) \in DOMAIN rows
      BY DEF GroupOK, PresentOK, Complete, IsActive
  <2>2. \A k \in {RowKey("MessageSecrets", g)} : k.label \in {"MessageSecrets"}
      BY DEF RowKey, Key
  <2>3. \A value : /\ Touches(rows, Write(rows, {RowKey("MessageSecrets", g)}, value),
                              {"MessageSecrets"})
                   /\ DOMAIN Write(rows, {RowKey("MessageSecrets", g)}, value) = DOMAIN rows
      BY <2>1, <2>2, TouchWrite, WriteAt
  <2> QED BY <2>3 DEF StoreOpened
<1>2. /\ QueuedRefs(opened, g) = QueuedRefs(rows, g)
      /\ QueueOK(opened, g)
    BY <1>1, QueueUntouched DEF QueueLabels, GroupOK
<1>3. new = QueueProposal(opened, g, ref)
    BY DEF QueueProposal
<1> HIDE DEF opened
<1>4. /\ Touches(opened, first, {"QueuedProposal"})
      /\ \A k : k \in DOMAIN first <=> k \in DOMAIN opened \/ k = ProposalKey(g, ref)
  <2>1. \A k \in {ProposalKey(g, ref)} : k.label \in {"QueuedProposal"}
      BY DEF ProposalKey, Key
  <2> QED BY <2>1, TouchWrite, WriteAt
<1> HIDE DEF first
<1>5. /\ Touches(first, new, {"ProposalQueueRefs"})
      /\ \A k : k \in DOMAIN new <=> k \in DOMAIN first \/ k = RefsKey(g)
      /\ QueuedRefs(new, g) = queue
  <2>1. \A k \in {RefsKey(g)} : k.label \in {"ProposalQueueRefs"}
      BY DEF RefsKey, RowKey, Key
  <2>2. RefsKey(g) \in DOMAIN new /\ new[RefsKey(g)] = queue
    <3> HIDE DEF queue
    <3> QED BY WriteAt
  <2> QED BY <2>1, <2>2, TouchWrite, WriteAt DEF QueuedRefs
<1> HIDE DEF new, queue
<1>6. QueueOK(new, g)
  <2>1. QueuedRefs(opened, g) \in Seq(ProposalRef)
      BY <1>2 DEF QueueOK
  <2>2. queue \in Seq(ProposalRef) /\ Range(queue) = Range(QueuedRefs(opened, g)) \cup {ref}
    <3>1. PICK s \in Seq(ProposalRef) : s = QueuedRefs(opened, g)
        BY <2>1
    <3>2. Append(s, ref) \in Seq(ProposalRef) /\ Range(Append(s, ref)) = Range(s) \cup {ref}
      <4>1. DOMAIN Append(s, ref) = 1 .. Len(s) + 1 /\ DOMAIN s = 1 .. Len(s) /\ Len(s) \in Nat
          OBVIOUS
      <4>2. \A i \in 1 .. Len(s) : Append(s, ref)[i] = s[i]
          OBVIOUS
      <4>3. Append(s, ref)[Len(s) + 1] = ref
          OBVIOUS
      <4>4. Append(s, ref) \in Seq(ProposalRef)
          OBVIOUS
      <4>5. ASSUME NEW x \in Range(Append(s, ref))
            PROVE  x \in Range(s) \cup {ref}
        <5>1. PICK i \in DOMAIN Append(s, ref) : x = Append(s, ref)[i]
            BY <4>5 DEF Range
        <5>2. CASE i \in 1 .. Len(s)
            BY <4>1, <4>2, <5>1, <5>2 DEF Range
        <5>3. CASE i = Len(s) + 1
            BY <4>3, <5>1, <5>3
        <5> QED BY <4>1, <5>1, <5>2, <5>3
      <4>6. ASSUME NEW x \in Range(s)
            PROVE  x \in Range(Append(s, ref))
        <5>1. PICK i \in DOMAIN s : x = s[i]
            BY <4>6 DEF Range
        <5>2. i \in DOMAIN Append(s, ref) /\ Append(s, ref)[i] = x
            BY <4>1, <4>2, <5>1
        <5> QED BY <5>2 DEF Range
      <4>7. ref \in Range(Append(s, ref))
        <5>1. Len(s) + 1 \in DOMAIN Append(s, ref)
            BY <4>1
        <5> QED BY <4>3, <5>1 DEF Range
      <4> QED BY <4>4, <4>5, <4>6, <4>7
    <3> QED BY <3>1, <3>2 DEF queue
  <2>3. ASSUME NEW r \in ProposalRef
        PROVE  ProposalKey(g, r) \in DOMAIN new <=> r \in Range(queue)
    <3>1. ProposalKey(g, r) # RefsKey(g) /\ (ProposalKey(g, r) = ProposalKey(g, ref) <=> r = ref)
        BY DEF ProposalKey, RefsKey, RowKey, Key
    <3>2. ProposalKey(g, r) \in DOMAIN opened <=> r \in Range(QueuedRefs(opened, g))
        BY <1>2 DEF QueueOK
    <3> QED BY <1>4, <1>5, <2>2, <3>1, <3>2
  <2> QED BY <1>5, <2>2, <2>3 DEF QueueOK
<1> DEFINE touched == {"MessageSecrets"} \cup {"QueuedProposal"} \cup {"ProposalQueueRefs"}
<1>7. Touches(rows, new, touched)
    BY <1>1, <1>4, <1>5, TouchTwice
<1>8. /\ SameAt(rows, new, RowKey("GroupState", g))
      /\ SameAt(rows, new, RowKey("GroupContext", g))
      /\ SameAt(rows, new, RowKey("OwnLeafNodeIndex", g))
    BY <1>7, ReadUntouched
<1>9. /\ IsMember(rows, g)
      /\ LiveEpoch(new, g) = LiveEpoch(rows, g) /\ LiveLeaf(new, g) = LiveLeaf(rows, g)
    BY <1>8 DEF GroupOK, PresentOK, Complete, SameAt, IsActive, LiveEpoch, LiveLeaf
<1>10. KeysOK(new, g)
  <2>1. "EpochKeyPairs" \notin touched
      OBVIOUS
  <2> QED BY <1>7, <1>9, <2>1, KeysUntouched DEF GroupOK
<1>11. PresentOK(new, g)
  <2>1. IsMember(new, g)
      BY <1>8, <1>9 DEF SameAt, IsMember
  <2>2. DOMAIN rows \subseteq DOMAIN new
      BY <1>1, <1>4, <1>5
  <2> QED BY <1>9, <2>1, <2>2 DEF PresentOK, Complete, GroupOK
<1> QED BY <1>3, <1>6, <1>10, <1>11 DEF GroupOK, opened

LEMMA RemovalOK ==
    ASSUME NEW rows, NEW g, GroupOK(rows, g), IsActive(rows, g), LiveEpoch(rows, g) + 1 \in Epoch
    PROVE  GroupOK(MergeOwnRemoval(rows, g), g)
<1> DEFINE epoch  == LiveEpoch(rows, g) + 1
           public == StorePublic(rows, g, epoch)
           moved  == Write(public, {RowKey("Local", g), RowKey("ResumptionPsk", g)}, epoch)
           new    == Write(moved, {RowKey("GroupState", g)}, "Inactive")
<1>1. new = MergeOwnRemoval(rows, g)
    BY DEF MergeOwnRemoval
<1>2. epoch \in Nat
    BY EpochAssumption
<1> HIDE DEF epoch
<1>3. /\ Touches(rows, public, PublicLabels)
      /\ DOMAIN rows \subseteq DOMAIN public
      /\ LiveEpoch(public, g) = epoch
      /\ RowKey("GroupContext", g) \in DOMAIN public
    BY PublicStored
<1> HIDE DEF public
<1>4. Touches(public, moved, {"Local", "ResumptionPsk"}) /\ DOMAIN public \subseteq DOMAIN moved
  <2>1. \A k \in {RowKey("Local", g), RowKey("ResumptionPsk", g)} :
            k.label \in {"Local", "ResumptionPsk"}
      BY DEF RowKey, Key
  <2> QED BY <2>1, TouchWrite, WriteAt
<1> HIDE DEF moved
<1>5. /\ Touches(moved, new, {"GroupState"}) /\ DOMAIN moved \subseteq DOMAIN new
      /\ RowKey("GroupState", g) \in DOMAIN new /\ new[RowKey("GroupState", g)] = "Inactive"
  <2>1. \A k \in {RowKey("GroupState", g)} : k.label \in {"GroupState"}
      BY DEF RowKey, Key
  <2> QED BY <2>1, TouchWrite, WriteAt
<1> HIDE DEF new
<1> DEFINE touched == PublicLabels \cup {"Local", "ResumptionPsk"} \cup {"GroupState"}
<1>6. Touches(rows, new, touched)
    BY <1>3, <1>4, <1>5, TouchTwice
<1>7. ~IsActive(new, g) /\ IsMember(new, g)
    BY <1>5 DEF IsActive, IsMember
<1>8. QueueOK(new, g)
  <2>1. touched \cap QueueLabels = {}
      BY DEF PublicLabels, QueueLabels
  <2> QED BY <1>6, <2>1, QueueUntouched DEF GroupOK
<1>9. KeysOK(new, g)
  <2>1. "EpochKeyPairs" \notin touched
      BY DEF PublicLabels
  <2> QED BY <1>6, <1>7, <2>1, KeysUntouched DEF GroupOK
<1>10. LiveEpoch(new, g) = epoch /\ LiveLeaf(new, g) = LiveLeaf(rows, g)
  <2>1. "OwnLeafNodeIndex" \notin touched
      BY DEF PublicLabels
  <2>2. SameAt(rows, new, RowKey("OwnLeafNodeIndex", g))
      BY <1>6, <2>1, ReadUntouched
  <2>3. /\ SameAt(public, moved, RowKey("GroupContext", g))
        /\ SameAt(moved, new, RowKey("GroupContext", g))
      BY <1>4, <1>5, ReadUntouched
  <2>4. RowKey("OwnLeafNodeIndex", g) \in DOMAIN rows
      BY DEF GroupOK, PresentOK, Complete, IsActive
  <2> QED BY <1>3, <2>2, <2>3, <2>4 DEF SameAt, LiveEpoch, LiveLeaf
<1>11. PresentOK(new, g)
  <2>1. IsMember(rows, g) /\ DOMAIN rows \subseteq DOMAIN new
      BY <1>3, <1>4, <1>5 DEF IsActive
  <2> QED BY <1>2, <1>7, <1>10, <2>1 DEF PresentOK, Complete, GroupOK
<1> QED BY <1>1, <1>8, <1>9, <1>11 DEF GroupOK

LEMMA MergeIs ==
    ASSUME NEW rows, NEW g, NEW epoch \in Nat, NEW leaf, NEW next, next = epoch + 1,
           LiveEpoch(rows, g) = epoch, LiveLeaf(rows, g) = leaf
    PROVE  MergeCommit(rows, g) =
               ClearProposalQueue(
                   Erase(Write(StoreMember(StorePublic(rows, g, next), g, next),
                               {EpochKey(g, next, leaf)}, <<next, leaf>>),
                         {EpochKey(g, epoch, leaf)}), g)
<1>1. next - 1 = epoch
    OBVIOUS
<1> QED BY <1>1 DEF MergeCommit

LEMMA MergeOK ==
    ASSUME NEW rows, NEW g, GroupOK(rows, g), IsActive(rows, g), LiveEpoch(rows, g) + 1 \in Epoch
    PROVE  GroupOK(MergeCommit(rows, g), g)
<1>1. PICK epoch \in Nat : epoch = LiveEpoch(rows, g)
    BY EpochAssumption DEF GroupOK, PresentOK, IsActive
<1>2. PICK leaf \in Nat : leaf = LiveLeaf(rows, g)
    BY DEF GroupOK, PresentOK, IsActive
<1>0. PICK next \in Nat : next = epoch + 1
    OBVIOUS
<1> DEFINE old     == EpochKey(g, epoch, leaf)
           key     == EpochKey(g, next, leaf)
           stored  == StoreMember(StorePublic(rows, g, next), g, next)
           written == Write(stored, {key}, <<next, leaf>>)
           erased  == Erase(written, {old})
           new     == ClearProposalQueue(erased, g)
<1>3. new = MergeCommit(rows, g)
    BY <1>1, <1>2, <1>0, MergeIs
<1>4. key # old
    BY <1>0, NextKeyDiffers
<1>5. /\ key.label = "EpochKeyPairs" /\ key.group = g
      /\ old.label = "EpochKeyPairs" /\ old.group = g
    BY DEF EpochKey, Key
<1>6. old \in DOMAIN rows
    BY <1>1, <1>2 DEF GroupOK, KeysOK
<1> HIDE DEF key, old
<1>7. /\ Touches(rows, stored, PublicLabels \cup MemberLabels)
      /\ DOMAIN rows \subseteq DOMAIN stored
      /\ {RowKey("GroupContext", g), RowKey("MessageSecrets", g)} \subseteq DOMAIN stored
      /\ LiveEpoch(stored, g) = next
    BY EpochStored
<1> HIDE DEF stored
<1>8. /\ Touches(stored, written, {"EpochKeyPairs"})
      /\ \A k : k \in DOMAIN written <=> k \in DOMAIN stored \/ k = key
      /\ written[key] = <<next, leaf>>
    BY <1>5, TouchWrite, WriteAt
<1> HIDE DEF written
<1>9. /\ Touches(written, erased, {"EpochKeyPairs"})
      /\ \A k : k \in DOMAIN erased <=> k \in DOMAIN written /\ k # old
      /\ erased[key] = <<next, leaf>>
    BY <1>4, <1>5, <1>8, TouchErase, EraseAt
<1> HIDE DEF erased
<1> DEFINE touched == PublicLabels \cup MemberLabels \cup {"EpochKeyPairs"} \cup {"EpochKeyPairs"}
<1>10. Touches(rows, erased, touched)
    BY <1>7, <1>8, <1>9, TouchTwice
<1>11. /\ QueueOK(new, g)
       /\ Touches(erased, new, QueueLabels)
       /\ DOMAIN new \subseteq DOMAIN erased
  <2>1. touched \cap QueueLabels = {}
      BY DEF PublicLabels, MemberLabels, QueueLabels
  <2> HIDE DEF touched
  <2>2. QueueOK(erased, g)
      BY <1>10, <2>1, QueueUntouched DEF GroupOK
  <2> QED BY <2>2, QueueCleared
<1> HIDE DEF new
<1>12. /\ LiveEpoch(new, g) = next /\ RowKey("GroupContext", g) \in DOMAIN new
       /\ LiveLeaf(new, g) = leaf /\ RowKey("OwnLeafNodeIndex", g) \in DOMAIN new
       /\ RowKey("MessageSecrets", g) \in DOMAIN new
       /\ IsMember(new, g)
  <2>1. /\ "OwnLeafNodeIndex" \notin touched /\ "GroupState" \notin touched
        /\ {"OwnLeafNodeIndex", "GroupContext", "GroupState", "MessageSecrets"} \cap QueueLabels = {}
      BY DEF PublicLabels, MemberLabels, QueueLabels
  <2>2. /\ SameAt(rows, erased, RowKey("OwnLeafNodeIndex", g))
        /\ SameAt(rows, erased, RowKey("GroupState", g))
        /\ SameAt(stored, written, RowKey("GroupContext", g))
        /\ SameAt(written, erased, RowKey("GroupContext", g))
        /\ SameAt(stored, written, RowKey("MessageSecrets", g))
        /\ SameAt(written, erased, RowKey("MessageSecrets", g))
      BY <1>8, <1>9, <1>10, <2>1, ReadUntouched
  <2>3. \A label \in {"OwnLeafNodeIndex", "GroupContext", "GroupState", "MessageSecrets"} :
            SameAt(erased, new, RowKey(label, g))
      BY <1>11, <2>1, ReadUntouched
  <2>4. /\ {RowKey("OwnLeafNodeIndex", g), RowKey("GroupState", g), RowKey("MessageSecrets", g)}
               \subseteq DOMAIN rows
      BY DEF GroupOK, PresentOK, Complete, IsActive, IsMember
  <2> QED BY <1>2, <1>7, <2>2, <2>3, <2>4 DEF SameAt, LiveEpoch, LiveLeaf, IsMember
<1>13. KeysOK(new, g)
  <2>1. ASSUME NEW k \in DOMAIN new, k.label = "EpochKeyPairs", k.group = g
        PROVE  k = key
    <3>1. k \in DOMAIN written /\ k # old
        BY <1>9, <1>11, <2>1
    <3>2. "EpochKeyPairs" \notin PublicLabels \cup MemberLabels
        BY DEF PublicLabels, MemberLabels
    <3>3. k \in DOMAIN stored => k \in DOMAIN rows
        BY <1>7, <2>1, <3>2 DEF Touches, SameAt
    <3>4. k \in DOMAIN rows => k = old
        BY <1>5, <1>6, <2>1 DEF GroupOK, KeysOK
    <3> QED BY <1>8, <3>1, <3>3, <3>4
  <2>2. key \in DOMAIN new /\ new[key] = <<next, leaf>>
    <3>1. key \in DOMAIN erased
        BY <1>4, <1>8, <1>9
    <3>2. SameAt(erased, new, key)
        BY <1>5, <1>11 DEF Touches, QueueLabels
    <3> QED BY <1>9, <3>1, <3>2 DEF SameAt
  <2>3. EpochKey(g, LiveEpoch(new, g), LiveLeaf(new, g)) = key
      BY <1>12 DEF key
  <2> QED BY <1>12, <2>1, <2>2, <2>3 DEF KeysOK
<1>14. PresentOK(new, g)
    BY <1>12 DEF PresentOK, Complete
<1> QED BY <1>3, <1>11, <1>13, <1>14 DEF GroupOK

(* Every operation that succeeds leaves its group's rows in order.         *)
LEMMA RunKeeps ==
    ASSUME NEW o \in Operation, o.group \in Group, o.op # "DeleteGroup",
           NEW rows, Succeeds(o, rows),
           GroupOK(rows, o.group),
           o.op \in {"CreateGroup", "Join"} => \A k \in DOMAIN rows : k.group # o.group
    PROVE  GroupOK(Run(o, rows), o.group)
<1> DEFINE g == o.group
<1>1. CASE o \in CreatesKeyPackage
    BY <1>1, GroupAssumption DEF CreatesKeyPackage
<1>2. CASE o \in CreatesGroup
  <2>1. o.op = "CreateGroup"
      BY <1>2 DEF CreatesGroup
  <2>2. Run(o, rows) = StoreNew(rows, g, 0, 0)
      BY <2>1 DEF Run
  <2>3. 0 \in Nat
      OBVIOUS
  <2> HIDE DEF g
  <2>4. \A k \in DOMAIN rows : k.group # g
      BY <2>1 DEF g
  <2>5. GroupOK(StoreNew(rows, g, 0, 0), g)
      BY <2>3, <2>4, NewGroupOK
  <2> QED BY <2>2, <2>5 DEF g
<1>3. CASE o \in Joins
  <2>1. o.op = "Join" /\ o.at \in Entry
      BY <1>3 DEF Joins
  <2>2. o.at[1] \in Nat /\ o.at[2] \in Nat
      BY <2>1, EntryAssumption, EpochAssumption
  <2>3. \A k \in DOMAIN Erase(rows, {KeyPackageKey(o.key)}) : k.group # o.group
      BY <2>1, EraseAt
  <2> QED BY <2>1, <2>2, <2>3, NewGroupOK DEF Run
<1>4. CASE o \in QueuesProposal
  <2>1. o.op = "ReceiveProposal" /\ o.ref \in ProposalRef
      BY <1>4 DEF QueuesProposal
  <2> QED BY <2>1, ReceiveOK DEF Run, Succeeds
<1>5. CASE o \in Merges
  <2>1. CASE o.op = "MergeCommit"
      BY <2>1, MergeOK DEF Run, Succeeds
  <2>2. CASE o.op = "MergeOwnRemoval"
      BY <2>2, RemovalOK DEF Run, Succeeds
  <2> QED BY <1>5, <2>1, <2>2 DEF Merges
<1>6. CASE o \in Deletes
    BY <1>6 DEF Deletes
<1> QED BY <1>1, <1>2, <1>3, <1>4, <1>5, <1>6 DEF Operation

-----------------------------------------------------------------------------
(* The durable rows *)

\* A row is stored under the group its key names.
ScopesOK(rows) ==
    \A k \in DOMAIN rows : /\ k.group \in Group \cup {Global}
                           /\ Scoped(k)
                           /\ rows[k] = [value |-> rows[k].value, group |-> k.group]

RowsOK(rows) == ScopesOK(rows) /\ \A g \in Group : GroupOK(Snapshot(rows, g), g)

LEMMA SnapshotAt ==
    ASSUME NEW rows, ScopesOK(rows), NEW g
    PROVE  /\ \A k : k \in EntriesFor(rows, g) <=> k \in DOMAIN rows /\ k.group \in {g, Global}
           /\ DOMAIN Snapshot(rows, g) = EntriesFor(rows, g)
           /\ \A k \in EntriesFor(rows, g) : Snapshot(rows, g)[k] = rows[k].value
<1>1. \A k \in DOMAIN rows : rows[k].group = k.group
    BY DEF ScopesOK
<1>2. \A k : k \in EntriesFor(rows, g) <=> k \in DOMAIN rows /\ k.group \in {g, Global}
    BY <1>1 DEF EntriesFor
<1> QED BY <1>2 DEF Snapshot

LEMMA OpGroup ==
    ASSUME NEW o \in Operation
    PROVE  /\ o.group \in Group \cup {Global}
           /\ o.group = Global <=> o.op = "CreateKeyPackage"
           /\ o.op \in {"Join", "CreateGroup", "DeleteGroup"} => o.group \in Group
BY GroupAssumption
DEF Operation, CreatesKeyPackage, CreatesGroup, Joins, QueuesProposal, Merges, Deletes

(* The rows RowStore's operation leaves, key by key.                       *)
LEMMA AfterAt ==
    ASSUME NEW o \in Operation, ScopesOK(db), NEW rows, rows = Run(o, Snapshot(db, o.group))
    PROVE  /\ \A k : k \in DOMAIN RS!After(o) <=>
                       \/ k \in DOMAIN db /\ k.group \notin {o.group, Global}
                       \/ k \in DOMAIN rows /\ ~(o.op = "DeleteGroup" /\ k.group = o.group)
           /\ \A k \in DOMAIN RS!After(o) :
                  RS!After(o)[k] =
                      IF k \in DOMAIN rows /\ ~(o.op = "DeleteGroup" /\ k.group = o.group)
                      THEN [value |-> rows[k], group |-> k.group] ELSE db[k]
           /\ RS!After(o) = [k \in DOMAIN RS!After(o) |-> RS!After(o)[k]]
<1>1. \A g : RS!EntriesFor(db, g) = EntriesFor(db, g) /\ RS!Snapshot(db, g) = Snapshot(db, g)
    BY DEF RS!EntriesFor, EntriesFor, RS!Snapshot, Snapshot
<1>2. RS!Run(o, RS!Snapshot(db, o.group)) = rows
    BY <1>1, SameRun
<1> DEFINE kept  == {k \in DOMAIN rows : ~(o.op = "DeleteGroup" /\ k.group = o.group)}
           other == DOMAIN db \ EntriesFor(db, o.group)
<1>3. RS!After(o) = [k \in other \cup kept |->
                        IF k \in kept THEN [value |-> rows[k], group |-> k.group] ELSE db[k]]
    BY <1>1, <1>2 DEF RS!After
<1>4. \A k : k \in other <=> k \in DOMAIN db /\ k.group \notin {o.group, Global}
    BY SnapshotAt
<1> QED BY <1>3, <1>4

(* An operation changes its group's rows and its KeyPackage's, and what it *)
(* leaves is stored under the groups the keys name.                        *)
LEMMA AfterChanges ==
    ASSUME NEW o \in Operation, ScopesOK(db), NEW rows, rows = Run(o, Snapshot(db, o.group)),
           NEW new, new = RS!After(o)
    PROVE  /\ ScopesOK(new)
           /\ \A k : k.group # o.group /\ k \notin Published(o) => SameAt(db, new, k)
           /\ \A k : k.group = o.group =>
                      (k \in DOMAIN new <=> k \in DOMAIN rows /\ o.op # "DeleteGroup")
           /\ \A k \in DOMAIN new : k.group = o.group => new[k].value = rows[k]
<1> DEFINE snap == Snapshot(db, o.group)
<1>1. /\ \A k : k \in DOMAIN snap <=> k \in DOMAIN db /\ k.group \in {o.group, Global}
      /\ \A k \in DOMAIN snap : snap[k] = db[k].value
    BY SnapshotAt
<1>2. \A k : /\ k.group # o.group /\ k \notin Published(o) => SameAt(snap, rows, k)
             /\ k \in DOMAIN rows /\ k \notin DOMAIN snap =>
                  k.group = o.group /\ (IsGlobalKey(k) <=> o.op = "CreateKeyPackage")
    BY RunElsewhere
<1> HIDE DEF snap
<1>3. /\ \A k : k \in DOMAIN new <=>
                  \/ k \in DOMAIN db /\ k.group \notin {o.group, Global}
                  \/ k \in DOMAIN rows /\ ~(o.op = "DeleteGroup" /\ k.group = o.group)
      /\ \A k \in DOMAIN new :
             new[k] = IF k \in DOMAIN rows /\ ~(o.op = "DeleteGroup" /\ k.group = o.group)
                      THEN [value |-> rows[k], group |-> k.group] ELSE db[k]
    BY AfterAt
<1>4. \A k \in DOMAIN rows : k.group \in {o.group, Global} /\ Scoped(k)
    BY <1>1, <1>2, OpGroup DEF ScopesOK, Scoped
<1>5. ScopesOK(new)
  <2> SUFFICES ASSUME NEW k \in DOMAIN new
               PROVE  /\ k.group \in Group \cup {Global}
                      /\ Scoped(k)
                      /\ new[k] = [value |-> new[k].value, group |-> k.group]
      BY DEF ScopesOK
  <2>1. CASE k \in DOMAIN rows /\ ~(o.op = "DeleteGroup" /\ k.group = o.group)
    <3>1. new[k] = [value |-> rows[k], group |-> k.group]
        BY <1>3, <2>1
    <3> QED BY <1>4, <2>1, <3>1, OpGroup
  <2>2. CASE ~(k \in DOMAIN rows /\ ~(o.op = "DeleteGroup" /\ k.group = o.group))
    <3>1. k \in DOMAIN db /\ new[k] = db[k]
        BY <1>3, <2>2
    <3> QED BY <3>1 DEF ScopesOK
  <2> QED BY <2>1, <2>2
<1>6. ASSUME NEW k, k.group # o.group, k \notin Published(o)
      PROVE  SameAt(db, new, k)
  <2>1. SameAt(snap, rows, k)
      BY <1>2, <1>6
  <2>2. CASE k.group = Global
    <3>1. k \in DOMAIN new <=> k \in DOMAIN rows
        BY <1>3, <1>6, <2>2
    <3>2. k \in DOMAIN rows <=> k \in DOMAIN db
        BY <1>1, <2>1, <2>2 DEF SameAt
    <3>3. ASSUME k \in DOMAIN db
          PROVE  db[k] = new[k]
      <4>1. new[k] = [value |-> rows[k], group |-> k.group]
          BY <1>3, <1>6, <3>1, <3>2, <3>3
      <4>2. rows[k] = db[k].value
          BY <1>1, <2>1, <2>2, <3>3 DEF SameAt
      <4> QED BY <3>3, <4>1, <4>2 DEF ScopesOK
    <3> QED BY <3>1, <3>2, <3>3 DEF SameAt
  <2>3. CASE k.group # Global
    <3>1. k \notin DOMAIN rows
        BY <1>4, <1>6, <2>3
    <3> QED BY <1>3, <1>6, <2>3, <3>1 DEF SameAt
  <2> QED BY <2>2, <2>3
<1>7. ASSUME NEW k, k.group = o.group
      PROVE  k \in DOMAIN new <=> k \in DOMAIN rows /\ o.op # "DeleteGroup"
    BY <1>3, <1>7
<1>8. ASSUME NEW k \in DOMAIN new, k.group = o.group
      PROVE  new[k].value = rows[k]
    BY <1>3, <1>7, <1>8
<1> QED BY <1>5, <1>6, <1>7, <1>8

(* The rows stay in order when operations run one after another.           *)
LEMMA AfterKeeps ==
    ASSUME NEW o \in Operation, RowsOK(db), RS!MayRun(o), Succeeds(o, Snapshot(db, o.group)),
           NEW new, new = RS!After(o)
    PROVE  RowsOK(new)
<1> DEFINE snap == Snapshot(db, o.group)
           rows == Run(o, snap)
<1>1. ScopesOK(db)
    BY DEF RowsOK
<1>2. /\ ScopesOK(new)
      /\ \A k : k.group # o.group /\ k \notin Published(o) => SameAt(db, new, k)
      /\ \A k : k.group = o.group =>
                 (k \in DOMAIN new <=> k \in DOMAIN rows /\ o.op # "DeleteGroup")
      /\ \A k \in DOMAIN new : k.group = o.group => new[k].value = rows[k]
    BY <1>1, AfterChanges
<1>3. ASSUME NEW g \in Group
      PROVE  GroupOK(Snapshot(new, g), g)
  <2>1. /\ \A k : k \in DOMAIN Snapshot(new, g) <=> k \in DOMAIN new /\ k.group \in {g, Global}
        /\ \A k \in DOMAIN Snapshot(new, g) : Snapshot(new, g)[k] = new[k].value
      BY <1>2, SnapshotAt
  <2>2. /\ \A k : k \in DOMAIN Snapshot(db, g) <=> k \in DOMAIN db /\ k.group \in {g, Global}
        /\ \A k \in DOMAIN Snapshot(db, g) : Snapshot(db, g)[k] = db[k].value
      BY <1>1, SnapshotAt
  <2>3. CASE g # o.group
    <3>1. \A k : k.group = g => k \notin Published(o)
        BY GroupAssumption DEF Published, KeyPackageKey, Key
    <3>2. LikeOn(Snapshot(db, g), Snapshot(new, g), g)
        BY <1>2, <2>1, <2>2, <2>3, <3>1 DEF LikeOn, SameAt
    <3> QED BY <3>2, LikeOK DEF RowsOK
  <2>4. CASE g = o.group /\ o.op # "DeleteGroup"
    <3>1. o.op \in {"CreateGroup", "Join"} => \A k \in DOMAIN snap : k.group # o.group
      <4>1. o.op \in {"CreateGroup", "Join"} => \A k \in DOMAIN db : db[k].group # o.group
          BY DEF RS!MayRun
      <4>2. \A k \in DOMAIN db : db[k].group = k.group
          BY <1>1 DEF ScopesOK
      <4> QED BY <2>2, <2>4, <4>1, <4>2
    <3>2. GroupOK(rows, o.group)
        BY <2>4, <3>1, RunKeeps DEF RowsOK
    <3> HIDE DEF rows
    <3>3. LikeOn(rows, Snapshot(new, g), g)
        BY <1>2, <2>1, <2>4 DEF LikeOn, SameAt
    <3> QED BY <2>4, <3>2, <3>3, LikeOK
  <2>5. CASE g = o.group /\ o.op = "DeleteGroup"
    <3>1. \A k \in DOMAIN Snapshot(new, g) : k.group # g
        BY <1>2, <2>1, <2>5
    <3>2. QueueOK(Snapshot(new, g), g)
      <4>1. RefsKey(g).group = g /\ \A ref : ProposalKey(g, ref).group = g
          BY DEF RefsKey, RowKey, ProposalKey, Key
      <4>2. /\ RefsKey(g) \notin DOMAIN Snapshot(new, g)
            /\ \A ref : ProposalKey(g, ref) \notin DOMAIN Snapshot(new, g)
          BY <3>1, <4>1
      <4> QED BY <4>2, NoQueue
    <3>3. ~IsMember(Snapshot(new, g), g)
        BY <3>1 DEF IsMember, RowKey, Key
    <3> QED BY <3>1, <3>2, <3>3 DEF GroupOK, KeysOK, PresentOK, Complete, IsActive
  <2> QED BY <2>3, <2>4, <2>5
<1> QED BY <1>2, <1>3 DEF RowsOK

(* The batch of a call, computed on rows that were read when it began and  *)
(* that nobody changed since in its group (nor, if it uses them, in the    *)
(* installation), does what the operation does on the rows as they are.    *)
LEMMA BatchIsAfter ==
    ASSUME NEW o \in Operation, RowsOK(db), NEW initial, Succeeds(o, initial),
           \A k \in DOMAIN initial : k.group \in {o.group, Global} /\ Scoped(k),
           o.group \in Group => LikeOn(initial, Snapshot(db, o.group), o.group),
           UsesInstallation(o) => LikeOn(initial, Snapshot(db, o.group), Global)
    PROVE  ApplyBatch(db, Batch(o, initial, Run(o, initial))) = RS!After(o)
<1> DEFINE snap == Snapshot(db, o.group)
           cur  == Run(o, initial)
           rows == Run(o, snap)
           new  == RS!After(o)
<1>1. ScopesOK(db)
    BY DEF RowsOK
<1>2. /\ \A k : k \in DOMAIN snap <=> k \in DOMAIN db /\ k.group \in {o.group, Global}
      /\ \A k \in DOMAIN snap : snap[k] = db[k].value
    BY <1>1, SnapshotAt
<1>3. /\ \A k : k \in DOMAIN new <=>
                  \/ k \in DOMAIN db /\ k.group \notin {o.group, Global}
                  \/ k \in DOMAIN rows /\ ~(o.op = "DeleteGroup" /\ k.group = o.group)
      /\ \A k \in DOMAIN new :
             new[k] = IF k \in DOMAIN rows /\ ~(o.op = "DeleteGroup" /\ k.group = o.group)
                      THEN [value |-> rows[k], group |-> k.group] ELSE db[k]
      /\ new = [k \in DOMAIN new |-> new[k]]
    BY <1>1, AfterAt
<1>4. /\ \A k : k.group # o.group /\ k \notin Published(o) => SameAt(initial, cur, k)
      /\ \A k : k.group # o.group /\ k \notin Published(o) => SameAt(snap, rows, k)
      /\ \A k \in DOMAIN cur : k.group \in {o.group, Global} /\ Scoped(k)
      /\ \A k \in DOMAIN rows : k.group \in {o.group, Global}
    BY <1>2, RunElsewhere, OpGroup DEF Scoped
<1>5. ASSUME NEW k, k.group = o.group, o.group \in Group
      PROVE  SameAt(initial, snap, k) /\ SameAt(cur, rows, k)
  <2>1. Complete(initial, o.group)
    <3>1. Complete(snap, o.group) /\ LikeOn(initial, snap, o.group)
        BY <1>5 DEF RowsOK, GroupOK, PresentOK
    <3> HIDE DEF snap
    <3> QED BY <3>1, LikeReads DEF Complete
  <2>2. LikeOn(cur, rows, o.group)
      BY <1>5, <2>1, RunDependsOnGroup
  <2> QED BY <1>5, <2>2 DEF LikeOn
<1>6. ASSUME NEW k, k.group = Global, UsesInstallation(o)
      PROVE  SameAt(initial, snap, k) /\ SameAt(cur, rows, k)
  <2>1. LikeOn(initial, snap, Global)
      BY <1>6
  <2>2. CASE o.op = "CreateKeyPackage"
    <3>1. LikeOn(cur, rows, Global)
        BY <2>1, <2>2, LikeWrite DEF Run
    <3> QED BY <1>6, <2>1, <3>1 DEF LikeOn
  <2>3. CASE o.op = "Join"
    <3> DEFINE keys == {KeyPackageKey(o.key)}
    <3>1. /\ cur = StoreNew(Erase(initial, keys), o.group, o.at[1], o.at[2])
          /\ rows = StoreNew(Erase(snap, keys), o.group, o.at[1], o.at[2])
        BY <2>3 DEF Run
    <3>2. k.group # o.group
        BY <1>6, <2>3, OpGroup, GroupAssumption
    <3>3. SameAt(Erase(initial, keys), cur, k) /\ SameAt(Erase(snap, keys), rows, k)
        BY <3>1, <3>2, WithinStores DEF Within
    <3> HIDE DEF cur, rows, snap
    <3>4. LikeOn(Erase(initial, keys), Erase(snap, keys), Global)
        BY <2>1, LikeErase
    <3> HIDE DEF keys
    <3>5. SameAt(Erase(initial, keys), Erase(snap, keys), k)
        BY <1>6, <3>4 DEF LikeOn
    <3>6. SameAt(cur, rows, k)
        BY <3>3, <3>5 DEF SameAt
    <3> QED BY <1>6, <2>1, <3>6 DEF LikeOn
  <2> QED BY <1>6, <2>2, <2>3 DEF UsesInstallation
<1>7. ASSUME NEW k \in DOMAIN cur, o.op = "DeleteGroup"
      PROVE  k \in DOMAIN initial /\ cur[k] = initial[k]
    BY <1>7, DeleteWritesNothing DEF Run
<1> HIDE DEF snap, cur, rows
<1> DEFINE batch == Batch(o, initial, cur)
           ups   == Upserts(initial, cur)
           kept  == {k \in DOMAIN db \ RemovedKeys(initial, cur) :
                        db[k].group \notin DeletedGroups(o)}
           app   == [k \in kept \cup ups |->
                        IF k \in ups THEN [value |-> cur[k], group |-> ScopeOf(k, o.group)]
                        ELSE db[k]]
<1>8. ApplyBatch(db, batch) = app
  <2>1. /\ batch.upserts = [k \in ups |-> [value |-> cur[k], group |-> ScopeOf(k, o.group)]]
        /\ batch.deletes = RemovedKeys(initial, cur)
        /\ batch.groups = DeletedGroups(o)
      BY DEF Batch
  <2> HIDE DEF batch, ups
  <2>2. DOMAIN batch.upserts = ups
      BY <2>1
  <2>3. ApplyBatch(db, batch) = [k \in kept \cup DOMAIN batch.upserts |->
                                    IF k \in DOMAIN batch.upserts THEN batch.upserts[k] ELSE db[k]]
      BY <2>1 DEF ApplyBatch
  <2> QED BY <2>1, <2>2, <2>3
<1>9. /\ \A k : k \in ups <=> k \in DOMAIN cur /\ (k \notin DOMAIN initial \/ cur[k] # initial[k])
      /\ \A k : k \in kept <=> /\ k \in DOMAIN db /\ ~(k \in DOMAIN initial /\ k \notin DOMAIN cur)
                               /\ ~(o.op = "DeleteGroup" /\ k.group = o.group)
  <2>1. \A k \in DOMAIN db : db[k].group = k.group
      BY <1>1 DEF ScopesOK
  <2> QED BY <2>1 DEF Upserts, RemovedKeys, DeletedGroups
<1>10. ASSUME NEW k
       PROVE  /\ k \in kept \cup ups <=> k \in DOMAIN new
              /\ k \in kept \cup ups => app[k] = new[k]
  <2> HIDE DEF kept, ups, new
  <2>1. k \in kept \cup ups =>
            app[k] = IF k \in ups THEN [value |-> cur[k], group |-> ScopeOf(k, o.group)] ELSE db[k]
      OBVIOUS
  <2> HIDE DEF app
  <2>2. CASE k.group \notin {o.group, Global}
    <3>1. k \notin DOMAIN cur /\ k \notin DOMAIN initial /\ k \notin DOMAIN rows
        BY <1>4, <2>2
    <3> QED BY <1>3, <1>9, <2>1, <2>2, <3>1
  <2>3. CASE k.group = Global /\ k \notin Published(o) /\ k.group # o.group
    <3>1. SameAt(initial, cur, k) /\ SameAt(snap, rows, k)
        BY <1>4, <2>3
    <3>2. k \notin ups
        BY <1>9, <3>1 DEF SameAt
    <3>3. k \in kept <=> k \in DOMAIN db
        BY <1>9, <2>3, <3>1 DEF SameAt
    <3>4. k \in DOMAIN new <=> k \in DOMAIN db
        BY <1>2, <1>3, <2>3, <3>1 DEF SameAt
    <3>5. ASSUME k \in DOMAIN db
          PROVE  new[k] = db[k]
      <4>1. new[k] = [value |-> rows[k], group |-> k.group]
          BY <1>2, <1>3, <2>3, <3>1, <3>5 DEF SameAt
      <4>2. rows[k] = db[k].value
          BY <1>2, <2>3, <3>1, <3>5 DEF SameAt
      <4> QED BY <1>1, <3>5, <4>1, <4>2 DEF ScopesOK
    <3> QED BY <2>1, <3>2, <3>3, <3>4, <3>5
  <2>4. CASE k.group = o.group \/ (k.group = Global /\ k \in Published(o))
    <3>1. SameAt(initial, snap, k) /\ SameAt(cur, rows, k)
      <4>1. \/ k.group = o.group /\ o.group \in Group
            \/ k.group = Global /\ UsesInstallation(o)
          BY <2>4, OpGroup DEF Published, UsesInstallation
      <4> QED BY <1>5, <1>6, <4>1
    <3>2. k.group \in {o.group, Global}
        BY <2>4
    <3>3. CASE o.op = "DeleteGroup" /\ k.group = o.group
        BY <1>3, <1>7, <1>9, <3>2, <3>3
    <3>4. CASE ~(o.op = "DeleteGroup" /\ k.group = o.group)
      <4>1. k \in DOMAIN db <=> k \in DOMAIN initial
          BY <1>2, <3>1, <3>2 DEF SameAt
      <4>2. k \in kept \cup ups <=> k \in DOMAIN cur
          BY <1>9, <3>4, <4>1
      <4>3. k \in DOMAIN new <=> k \in DOMAIN cur
          BY <1>3, <3>1, <3>2, <3>4 DEF SameAt
      <4>4. ASSUME k \in DOMAIN cur
            PROVE  app[k] = [value |-> cur[k], group |-> k.group]
        <5>1. CASE k \in ups
          <6>1. ScopeOf(k, o.group) = k.group
              BY <1>4, <4>4 DEF ScopeOf, Scoped
          <6> QED BY <2>1, <5>1, <6>1
        <5>2. CASE k \notin ups
          <6>1. k \in DOMAIN initial /\ cur[k] = initial[k]
              BY <1>9, <4>4, <5>2
          <6>2. cur[k] = db[k].value /\ k \in DOMAIN db
              BY <1>2, <3>1, <6>1 DEF SameAt
          <6>3. app[k] = db[k]
              BY <2>1, <4>2, <4>4, <5>2
          <6> QED BY <1>1, <6>2, <6>3 DEF ScopesOK
        <5> QED BY <5>1, <5>2
      <4>5. ASSUME k \in DOMAIN cur
            PROVE  new[k] = [value |-> cur[k], group |-> k.group]
          BY <1>3, <3>1, <3>4, <4>3, <4>5 DEF SameAt
      <4> QED BY <4>2, <4>3, <4>4, <4>5
    <3> QED BY <3>3, <3>4
  <2> QED BY <2>2, <2>3, <2>4
<1>11. kept \cup ups = DOMAIN new
    BY <1>10
<1>12. app = [k \in DOMAIN new |-> app[k]]
    BY <1>11
<1>13. \A k \in DOMAIN new : app[k] = new[k]
    BY <1>10, <1>11
<1> HIDE DEF new, app, kept, ups
<1>14. app = new
    BY <1>3, <1>12, <1>13
<1> QED BY <1>8, <1>14 DEF new, cur

-----------------------------------------------------------------------------
(* Calls that overlap *)

\* What is still true of a call when its batch is stored: the rows of its group
\* are those it read, and so are the installation's if it uses them.
CallOK(c) ==
    /\ c.o \in Operation
    /\ Succeeds(c.o, c.initial)
    /\ RS!MayRun(c.o)
    /\ \A k \in DOMAIN c.initial : k.group \in {c.o.group, Global} /\ Scoped(k)
    /\ c.o.group \in Group => LikeOn(c.initial, Snapshot(db, c.o.group), c.o.group)
    /\ UsesInstallation(c.o) => LikeOn(c.initial, Snapshot(db, c.o.group), Global)

\* The fences keep the operations apart.
Apart(o1, o2) ==
    /\ o1.group = o2.group => o1.group = Global
    /\ ~(UsesInstallation(o1) /\ UsesInstallation(o2))

StorageInv ==
    /\ RowsOK(db)
    /\ calls = [w \in Worker |-> calls[w]]
    /\ \A w \in Worker : \A c \in calls[w] : CallOK(c)
    /\ \A w1, w2 \in Worker : w1 # w2 =>
           \A c1 \in calls[w1], c2 \in calls[w2] : Apart(c1.o, c2.o)

LEMMA InitStorage ==
    ASSUME Init
    PROVE  StorageInv
<1>1. db = <<>> /\ calls = [w \in Worker |-> {}] /\ DOMAIN <<>> = {}
    BY DEF Init, RS!Init
<1>2. ScopesOK(db)
    BY <1>1 DEF ScopesOK
<1>3. ASSUME NEW g \in Group
      PROVE  GroupOK(Snapshot(db, g), g)
  <2>1. DOMAIN Snapshot(db, g) = {}
      BY <1>1 DEF Snapshot, EntriesFor
  <2>2. QueueOK(Snapshot(db, g), g)
      BY <2>1, NoQueue
  <2> QED BY <2>1, <2>2 DEF GroupOK, KeysOK, PresentOK, Complete, IsActive, IsMember
<1> QED BY <1>1, <1>2, <1>3 DEF StorageInv, RowsOK

(* Whether an operation that uses only its group succeeds depends on the   *)
(* rows of the group.                                                      *)
LEMMA SucceedsAgain ==
    ASSUME NEW c, CallOK(c), RowsOK(db)
    PROVE  Succeeds(c.o, Snapshot(db, c.o.group))
<1> DEFINE o == c.o
           g == c.o.group
           snap == Snapshot(db, g)
<1>1. o \in Operation /\ Succeeds(o, c.initial)
    BY DEF CallOK
<1>2. CASE o.op \in {"CreateKeyPackage", "Join"}
  <2>1. LikeOn(c.initial, snap, Global)
      BY <1>2 DEF CallOK, UsesInstallation
  <2>2. KeyPackageKey(o.key) \in DOMAIN c.initial <=> KeyPackageKey(o.key) \in DOMAIN snap
      BY <2>1 DEF LikeOn, SameAt, KeyPackageKey, Key
  <2> QED BY <1>1, <1>2, <2>2 DEF Succeeds
<1>3. CASE o.op = "CreateGroup"
    BY <1>3 DEF Succeeds
<1>4. CASE o.op \in {"ReceiveProposal", "MergeCommit", "MergeOwnRemoval", "DeleteGroup"}
  <2>1. g \in Group
      BY <1>1, <1>4, OpGroup
  <2>2. LikeOn(c.initial, snap, g) /\ Complete(snap, g)
      BY <2>1 DEF CallOK, RowsOK, GroupOK, PresentOK
  <2> HIDE DEF snap
  <2>3. /\ QueuedRefs(c.initial, g) = QueuedRefs(snap, g)
        /\ IsMember(c.initial, g) <=> IsMember(snap, g)
        /\ IsActive(c.initial, g) <=> IsActive(snap, g)
      BY <2>2, LikeReads
  <2>4. IsMember(snap, g) => LiveEpoch(c.initial, g) = LiveEpoch(snap, g)
      BY <2>2, LikeReads DEF Complete, LiveEpoch
  <2>5. IsActive(snap, g) => IsMember(snap, g)
      BY DEF IsActive
  <2>6. Succeeds(o, snap)
      BY <1>1, <1>4, <2>3, <2>4, <2>5 DEF Succeeds
  <2> QED BY <2>6 DEF snap
<1>5. o.op \in {"CreateKeyPackage", "CreateGroup", "Join", "ReceiveProposal", "MergeCommit",
                "MergeOwnRemoval", "DeleteGroup"}
    BY <1>1 DEF Operation, CreatesKeyPackage, CreatesGroup, Joins, QueuesProposal, Merges, Deletes
<1> QED BY <1>2, <1>3, <1>4, <1>5

(* A call goes on while the batch of another, kept apart by the fences, is *)
(* stored.                                                                 *)
LEMMA OthersKept ==
    ASSUME NEW c, CallOK(c), NEW o \in Operation, Apart(c.o, o), RowsOK(db),
           db' = RS!After(o),
           published' = IF o.op = "CreateKeyPackage" THEN published \cup {o.key} ELSE published
    PROVE  CallOK(c)'
<1> DEFINE rows == Run(o, Snapshot(db, o.group))
           g    == c.o.group
<1>1. ScopesOK(db) /\ c.o \in Operation
    BY DEF RowsOK, CallOK
<1>2. /\ ScopesOK(db')
      /\ \A k : k.group # o.group /\ k \notin Published(o) => SameAt(db, db', k)
      /\ \A k : k.group = o.group =>
                 (k \in DOMAIN db' <=> k \in DOMAIN rows /\ o.op # "DeleteGroup")
    BY <1>1, AfterChanges
<1>3. \A k \in Published(o) : k.group = Global
    BY DEF Published, KeyPackageKey, Key
<1>4. /\ \A k : k \in DOMAIN Snapshot(db, g) <=> k \in DOMAIN db /\ k.group \in {g, Global}
      /\ \A k \in DOMAIN Snapshot(db, g) : Snapshot(db, g)[k] = db[k].value
      /\ \A k : k \in DOMAIN Snapshot(db, g)' <=> k \in DOMAIN db' /\ k.group \in {g, Global}
      /\ \A k \in DOMAIN Snapshot(db, g)' : Snapshot(db, g)'[k] = db'[k].value
  <2>1. Snapshot(db, g)' = Snapshot(db', g)
      BY DEF Snapshot, EntriesFor
  <2> QED BY <1>1, <1>2, <2>1, SnapshotAt
<1>5. ASSUME g \in Group
      PROVE  LikeOn(c.initial, Snapshot(db, g)', g)
  <2>1. LikeOn(c.initial, Snapshot(db, g), g)
      BY <1>5 DEF CallOK
  <2>2. ASSUME NEW k, k.group = g
        PROVE  SameAt(db, db', k)
      BY <1>2, <1>3, <1>5, <2>2, GroupAssumption DEF Apart
  <2>3. LikeOn(Snapshot(db, g), Snapshot(db, g)', g)
      BY <1>4, <2>2 DEF LikeOn, SameAt
  <2> QED BY <2>1, <2>3 DEF LikeOn, SameAt
<1>6. ASSUME UsesInstallation(c.o)
      PROVE  LikeOn(c.initial, Snapshot(db, g)', Global)
  <2>1. LikeOn(c.initial, Snapshot(db, g), Global)
      BY <1>6 DEF CallOK
  <2>2. Published(o) = {} /\ o.group # Global
      BY <1>6, OpGroup DEF Apart, Published, UsesInstallation
  <2>3. LikeOn(Snapshot(db, g), Snapshot(db, g)', Global)
      BY <1>2, <1>4, <2>2 DEF LikeOn, SameAt
  <2> QED BY <2>1, <2>3 DEF LikeOn, SameAt
<1>7. RS!MayRun(c.o)'
  <2>1. ASSUME c.o.op \in {"CreateGroup", "Join"}, NEW k \in DOMAIN db'
        PROVE  db'[k].group # g
    <3>1. g \in Group /\ db'[k].group = k.group
        BY <1>1, <1>2, <2>1, OpGroup DEF ScopesOK
    <3>2. ASSUME k.group = g
          PROVE  FALSE
      <4>1. SameAt(db, db', k)
          BY <1>2, <1>3, <3>1, <3>2, GroupAssumption DEF Apart
      <4>2. k \in DOMAIN db /\ db[k].group = g
          BY <1>1, <3>2, <4>1, <2>1 DEF SameAt, ScopesOK
      <4> QED BY <2>1, <4>2 DEF CallOK, RS!MayRun
    <3> QED BY <3>1, <3>2
  <2>2. c.o.op = "CreateKeyPackage" => o.op # "CreateKeyPackage"
      BY DEF Apart, UsesInstallation
  <2> QED BY <2>1, <2>2 DEF CallOK, RS!MayRun
<1> QED BY <1>1, <1>5, <1>6, <1>7 DEF CallOK

LEMMA StoreIsPerform ==
    ASSUME StorageInv, NEW w \in Worker, Store(w)
    PROVE  /\ StorageInv'
           /\ \E o \in Operation : RS!Perform(o)
<1>1. PICK c \in calls[w] :
          /\ db' = ApplyBatch(db, Batch(c.o, c.initial, Run(c.o, c.initial)))
          /\ published' = IF c.o.op = "CreateKeyPackage" THEN published \cup {c.o.key}
                          ELSE published
          /\ calls' = [calls EXCEPT ![w] = {}]
    BY DEF Store
<1>2. RowsOK(db) /\ CallOK(c)
    BY DEF StorageInv
<1>3. c.o \in Operation /\ RS!MayRun(c.o)
    BY <1>2 DEF CallOK
<1>4. db' = RS!After(c.o)
    BY <1>1, <1>2, BatchIsAfter DEF CallOK
<1>5. Succeeds(c.o, Snapshot(db, c.o.group))
    BY <1>2, SucceedsAgain
<1>6. RowsOK(db')
    BY <1>2, <1>3, <1>4, <1>5, AfterKeeps
<1>7. calls' = [v \in Worker |-> IF v = w THEN {} ELSE calls[v]]
    BY <1>1 DEF StorageInv
<1>8. ASSUME NEW v \in Worker, NEW c2 \in calls'[v]
      PROVE  CallOK(c2)'
  <2>1. v # w /\ c2 \in calls[v]
      BY <1>7, <1>8
  <2>2. CallOK(c2) /\ Apart(c2.o, c.o)
      BY <2>1 DEF StorageInv
  <2> QED BY <1>1, <1>2, <1>3, <1>4, <2>2, OthersKept
<1>9. \A w1, w2 \in Worker : w1 # w2 =>
          \A c1 \in calls'[w1], c2 \in calls'[w2] : Apart(c1.o, c2.o)
    BY <1>7 DEF StorageInv
<1>10. calls' = [v \in Worker |-> calls'[v]]
    BY <1>7
<1>11. StorageInv'
    BY <1>6, <1>8, <1>9, <1>10 DEF StorageInv, RowsOK, ScopesOK
<1>12. RS!Perform(c.o)
  <2>1. RS!Snapshot(db, c.o.group) = Snapshot(db, c.o.group)
      BY DEF RS!EntriesFor, EntriesFor, RS!Snapshot, Snapshot
  <2>2. RS!Succeeds(c.o, RS!Snapshot(db, c.o.group))
      BY <1>3, <1>5, <2>1, SameRun
  <2> QED BY <1>1, <1>3, <1>4, <2>2 DEF RS!Perform
<1> QED BY <1>3, <1>11, <1>12

LEMMA OpenKeeps ==
    ASSUME StorageInv, NEW w \in Worker, NEW o \in Operation, Open(w, o)
    PROVE  StorageInv'
<1> DEFINE c == [o |-> o, initial |-> Snapshot(db, o.group)]
<1>1. calls' = [v \in Worker |-> IF v = w THEN {c} ELSE calls[v]] /\ calls[w] = {}
    BY DEF StorageInv, Open
<1>2. db' = db /\ published' = published
    BY DEF Open
<1>3. c.o = o /\ c.initial = Snapshot(db, o.group)
    OBVIOUS
<1>4. CallOK(c)
  <2>1. \A k \in DOMAIN c.initial : k.group \in {o.group, Global} /\ Scoped(k)
      BY <1>3, SnapshotAt DEF StorageInv, RowsOK, ScopesOK
  <2> HIDE DEF c
  <2> QED BY <1>3, <2>1 DEF CallOK, Open, LikeOn, SameAt
<1>5. \A c2 : CallOK(c2) => CallOK(c2)'
    BY <1>2 DEF CallOK, RS!MayRun, Snapshot, EntriesFor
<1>6. ASSUME NEW v \in Worker, NEW c2 \in calls[v]
      PROVE  Apart(c2.o, o) /\ Apart(o, c2.o)
  <2>1. c2 \in InProgress
      BY DEF InProgress
  <2> QED BY <2>1 DEF Open, Fenced, Apart
<1> HIDE DEF c
<1>7. \A v \in Worker : \A c2 \in calls'[v] : CallOK(c2)'
    BY <1>1, <1>4, <1>5 DEF StorageInv
<1>8. \A w1, w2 \in Worker : w1 # w2 =>
          \A c1 \in calls'[w1], c2 \in calls'[w2] : Apart(c1.o, c2.o)
    BY <1>1, <1>3, <1>6 DEF StorageInv
<1>9. calls' = [v \in Worker |-> calls'[v]]
    BY <1>1
<1>10. RowsOK(db')
    BY <1>2 DEF StorageInv
<1> QED BY <1>7, <1>8, <1>9, <1>10 DEF StorageInv, RowsOK, ScopesOK

LEMMA DiscardKeeps ==
    ASSUME StorageInv, NEW w \in Worker, Discard(w)
    PROVE  StorageInv'
<1>1. calls' = [v \in Worker |-> IF v = w THEN {} ELSE calls[v]]
    BY DEF StorageInv, Discard
<1>2. db' = db /\ published' = published
    BY DEF Discard
<1>3. \A c2 : CallOK(c2) => CallOK(c2)'
    BY <1>2 DEF CallOK, RS!MayRun, Snapshot, EntriesFor
<1>4. \A v \in Worker : \A c2 \in calls'[v] : c2 \in calls[v]
    BY <1>1
<1>5. calls' = [v \in Worker |-> calls'[v]] /\ RowsOK(db')
    BY <1>1, <1>2 DEF StorageInv
<1> QED BY <1>3, <1>4, <1>5 DEF StorageInv, RowsOK, ScopesOK

(* The invariant of calls that overlap.                                    *)
THEOREM StorageInvariance == Spec => []StorageInv
<1>1. StorageInv /\ [Next]_vars => StorageInv'
  <2> SUFFICES ASSUME StorageInv, [Next]_vars
               PROVE  StorageInv'
      OBVIOUS
  <2>1. CASE UNCHANGED vars
    <3>1. db' = db /\ published' = published /\ calls' = calls
        BY <2>1 DEF vars
    <3>2. \A c2 : CallOK(c2) => CallOK(c2)'
        BY <3>1 DEF CallOK, RS!MayRun, Snapshot, EntriesFor
    <3> QED BY <3>1, <3>2 DEF StorageInv, RowsOK, ScopesOK
  <2>2. CASE Next
    BY <2>2, OpenKeeps, StoreIsPerform, DiscardKeeps DEF Next
  <2> QED BY <2>1, <2>2
<1> QED BY <1>1, InitStorage, PTL DEF Spec

(* Every batch computed from a snapshot and stored after others does what  *)
(* its operation does at once on the rows as they are                      *)
(* (batch_from_provider, storage.rs), for any groups and any number of     *)
(* workers: no row is lost, brought back, or changed in another group.     *)
THEOREM BatchesActAtOnce == Spec => ImplementsRowStore
<1>1. Init => RS!Init
    BY DEF Init
<1>2. StorageInv /\ [Next]_vars => [RS!Next]_<<db, published>>
  <2> SUFFICES ASSUME StorageInv, [Next]_vars
               PROVE  [RS!Next]_<<db, published>>
      OBVIOUS
  <2>1. CASE UNCHANGED vars
      BY <2>1 DEF vars
  <2>2. CASE Next
    <3>1. PICK w \in Worker : (\E o \in Operation : Open(w, o)) \/ Store(w) \/ Discard(w)
        BY <2>2 DEF Next
    <3>2. CASE Store(w)
      <4>1. PICK o \in Operation : RS!Perform(o)
          BY <3>2, StoreIsPerform
      <4> QED BY <4>1, SameKeys DEF RS!Next
    <3>3. CASE (\E o \in Operation : Open(w, o)) \/ Discard(w)
        BY <3>3 DEF Open, Discard
    <3> QED BY <3>1, <3>2, <3>3
  <2> QED BY <2>1, <2>2
<1> QED BY <1>1, <1>2, StorageInvariance, PTL DEF Spec, ImplementsRowStore, RS!Spec

(* validate_storage_entries (storage.rs) accepts what the package's own    *)
(* batches stored.                                                         *)
THEOREM SnapshotsAlwaysAccepted == Spec => []SnapshotsAccepted
<1>1. StorageInv => SnapshotsAccepted
  <2> SUFFICES ASSUME ScopesOK(db), NEW g \in Group, NEW k \in EntriesFor(db, g)
               PROVE  ValidEntry(k, db[k].group, g)
      BY DEF StorageInv, RowsOK, SnapshotsAccepted
  <2>1. k \in DOMAIN db /\ k.group \in {g, Global} /\ db[k].group = k.group
      BY SnapshotAt DEF ScopesOK
  <2>2. IsGlobalKey(k) <=> k.group = Global
      BY <2>1 DEF ScopesOK, Scoped
  <2> QED BY <2>1, <2>2, GroupAssumption DEF ValidEntry
<1> QED BY <1>1, StorageInvariance, PTL

(* clear_proposal_queue and queue_proposal (snapshot_storage.rs): the list *)
(* and the rows of queued proposals agree after any operations.            *)
THEOREM QueueAlwaysAgrees == Spec => []QueueAgrees
<1>1. StorageInv => QueueAgrees
  <2> SUFFICES ASSUME NEW g \in Group, GroupOK(Snapshot(db, g), g)
               PROVE  {ref \in ProposalRef : ProposalKey(g, ref) \in DOMAIN Snapshot(db, g)}
                          = Range(QueuedRefs(Snapshot(db, g), g))
      BY DEF StorageInv, RowsOK, QueueAgrees
  <2>1. QueueOK(Snapshot(db, g), g)
      BY DEF GroupOK
  <2>2. PICK s \in Seq(ProposalRef) : s = QueuedRefs(Snapshot(db, g), g)
      BY <2>1 DEF QueueOK
  <2>3. Range(s) \subseteq ProposalRef
      BY DEF Range
  <2> QED BY <2>1, <2>2, <2>3 DEF QueueOK
<1> QED BY <1>1, StorageInvariance, PTL

(* merge_commit stores the key pairs of the new epoch and deletes those of *)
(* the epoch before; build_epoch_key writes epoch and leaf side by side,   *)
(* so the row kept must not be the row deleted, whatever the epoch and the *)
(* leaf are.                                                               *)
THEOREM EpochKeysAlwaysCurrent == Spec => []EpochKeysCurrent
<1>1. StorageInv => EpochKeysCurrent
  <2> SUFFICES ASSUME NEW g \in Group, KeysOK(Snapshot(db, g), g)
               PROVE  Cardinality({k \in DOMAIN Snapshot(db, g) :
                                      k.label = "EpochKeyPairs" /\ k.group = g}) <= 1
      BY DEF StorageInv, RowsOK, GroupOK, KeysOK, EpochKeysCurrent
  <2> DEFINE keys == {k \in DOMAIN Snapshot(db, g) : k.label = "EpochKeyPairs" /\ k.group = g}
  <2>1. \A k1, k2 \in keys : k1 = k2
      BY DEF KeysOK
  <2> HIDE DEF keys
  <2>2. CASE keys = {}
    <3>1. Cardinality(keys) = 0
        BY <2>2, FS_EmptySet
    <3> QED BY <3>1 DEF keys
  <2>3. CASE keys # {}
    <3>1. PICK key \in keys : keys = {key}
        BY <2>1, <2>3
    <3>2. Cardinality(keys) = 1
        BY <3>1, FS_Singleton
    <3> QED BY <3>2 DEF keys
  <2> QED BY <2>2, <2>3
<1> QED BY <1>1, StorageInvariance, PTL

(* delete_group_with_storage names the group to the caller, which deletes  *)
(* what OpenMLS's own deletion leaves.                                     *)
THEOREM NoRowOrphaned == Spec => []NoOrphans
<1>1. StorageInv => NoOrphans
  <2> SUFFICES ASSUME RowsOK(db), NEW k \in DOMAIN db, db[k].group \in Group
               PROVE  RowKey("GroupState", db[k].group) \in DOMAIN db
      BY DEF StorageInv, NoOrphans
  <2> DEFINE g == db[k].group
  <2>1. ScopesOK(db) /\ k.group = g
      BY DEF RowsOK, ScopesOK
  <2>2. k \in DOMAIN Snapshot(db, g)
      BY <2>1, SnapshotAt
  <2>3. PresentOK(Snapshot(db, g), g)
      BY DEF RowsOK, GroupOK
  <2>4. IsMember(Snapshot(db, g), g)
      BY <2>1, <2>2, <2>3 DEF PresentOK
  <2> QED BY <2>1, <2>4, SnapshotAt DEF IsMember
<1> QED BY <1>1, StorageInvariance, PTL

-----------------------------------------------------------------------------
(* The frames of the native receive calls *)

LEMMA Sizes ==
  /\ LeafSize = 90 /\ StateSize = 64 /\ HashSize = 35 /\ IdSize = 131 /\ RowHeads = 13
  /\ PendingSize = 612 /\ AcceptanceSize = 750 /\ HeaderSize = 12
  /\ RequestBytes = 12582912 /\ ResultBytes = 8388608 /\ BatchBytes = 6291456
  /\ WireBytes = 1048576 /\ TreeBytes = 2097152 /\ AadBytes = 16384
  /\ SignerBytes = 4096 /\ PlaintextBytes = 262144 /\ RosterLeaves = 256 /\ BatchRows = 4096
  BY SMT DEF LeafSize, StateSize, HashSize, IdSize, RowHeads, PendingSize,
             HeaderSize, AcceptanceSize, RequestBytes, ResultBytes, BatchBytes,
             WireBytes, TreeBytes, AadBytes, SignerBytes, PlaintextBytes,
             RosterLeaves, BatchRows

(* No request whose fields are within their own bounds is refused for its  *)
(* length by the header check of either version (native_receive_v2.rs:804, *)
(* native_receive_v3.rs:67).                                               *)
THEOREM RequestsFit ==
  ASSUME NEW w \in Nat, NEW a \in Nat, NEW t \in Nat, NEW s \in Nat,
         NEW rows \in Nat, NEW bytes \in Nat,
         w <= WireBytes, a <= AadBytes, t <= TreeBytes, s <= SignerBytes,
         rows <= BatchRows, bytes <= BatchBytes
  PROVE  /\ ProcessSize(w, a, rows, bytes) <= RequestBytes
         /\ WelcomeSize(w, t, s, rows, bytes) <= RequestBytes
         /\ ExternalSize(w, a, rows, bytes) <= RequestBytes
         /\ InspectSize(rows, bytes) <= RequestBytes
<1>1. /\ w <= 1048576 /\ a <= 16384 /\ t <= 2097152 /\ s <= 4096
      /\ rows <= 4096 /\ bytes <= 6291456
  BY SMT, Sizes
<1>2. SnapshotSize(rows, bytes) = 7 + 13 * rows + bytes
  BY SMT, <1>1, Sizes DEF SnapshotSize
<1> QED
  BY SMT, <1>1, <1>2, Sizes DEF Outer, ProcessSize, WelcomeSize, ExternalSize, InspectSize

(* Preflight's item count (native_receive_v2.rs:1575) never refuses a      *)
(* request that carries at most 4096 rows.                                 *)
THEOREM ItemsFit ==
  ASSUME NEW rows \in Nat, rows <= BatchRows
  PROVE  /\ ProcessItems(rows) <= PreflightItems
         /\ WelcomeItems(rows) <= PreflightItems
         /\ ExternalItems(rows) <= PreflightItems
         /\ InspectItems(rows) <= PreflightItems
<1>1. rows \in Nat /\ rows <= 4096
  BY SMT DEF BatchRows
<1> QED
  BY SMT, <1>1 DEF ProcessItems, WelcomeItems, ExternalItems, InspectItems, SnapshotItems,
                   LeafItems, StateItems, PreflightItems

(* A result the runtime's own bounds allow is always encoded: no receive   *)
(* is lost between a success of the runtime and the frame that reports it. *)
THEOREM ResultsFit ==
  ASSUME NEW plaintext \in Nat, NEW previous \in Nat, NEW resulting \in Nat,
         NEW upserts \in Nat, NEW deletes \in Nat, NEW bytes \in Nat,
         plaintext <= PlaintextBytes, previous <= RosterLeaves, resulting <= RosterLeaves,
         upserts <= BatchRows, deletes <= BatchRows, bytes <= BatchBytes
  PROVE  ResultSize(plaintext, previous, resulting, upserts, deletes, bytes) <= ResultBytes
<1>1. /\ plaintext <= 262144 /\ previous <= 256 /\ resulting <= 256
      /\ upserts <= 4096 /\ deletes <= 4096 /\ bytes <= 6291456
  BY SMT, Sizes
<1>2. /\ RosterSize(previous) = 68 + 90 * previous
      /\ RosterSize(resulting) = 68 + 90 * resulting
      /\ BatchSize(upserts, deletes, bytes) = 13 + 13 * upserts + 3 * deletes + bytes
  BY SMT, <1>1, Sizes DEF RosterSize, BatchSize
<1>3. ResultSize(plaintext, previous, resulting, upserts, deletes, bytes)
        = 12 + 10 + 92 + (1 + RosterSize(previous)) + (1 + RosterSize(resulting)) + 70
          + (6 + plaintext) + (1 + BatchSize(upserts, deletes, bytes)) + 16 + 613
  BY SMT, <1>1, <1>2, Sizes DEF ResultSize
<1> QED BY SMT, <1>1, <1>2, <1>3, Sizes

-----------------------------------------------------------------------------
(* The records that are written to be read again later *)

LEMMA FieldSizes ==
    /\ C!LeafRecord = 87 /\ C!StateRecord = 61 /\ C!Hash = 34 /\ C!Id = 130
    /\ C!GroupId = 17 /\ C!Epoch = 9
    /\ C!Identity = 47 /\ C!Key = 34 /\ C!Header = 12
    /\ \A leaves \in Nat : C!RosterRecord(leaves) = 64 + 87 * leaves
BY SMT DEF C!LeafRecord, C!StateRecord, C!Hash, C!Id, C!GroupId, C!Epoch, C!Identity,
           C!Key, C!Header, C!RosterRecord

LEMMA CustodyBounds ==
    /\ C!ValueBytes = 2097152 /\ C!ArtefactBytes = 1048576 /\ C!AadBytes = 16384
    /\ C!Leaves = 256
    /\ C!Retained = 4 /\ C!ValidatorRequest = 4194304 /\ C!ValidatorResult = 262144
    /\ C!EnvelopeBytes = 12582912 /\ C!RowBytes = 6291456 /\ C!Rows = 4096
BY SMT DEF C!ValueBytes, C!ArtefactBytes, C!AadBytes, C!Leaves, C!Retained,
           C!ValidatorRequest,
           C!ValidatorResult, C!EnvelopeBytes, C!RowBytes, C!Rows

LEMMA RosterFits ==
    ASSUME NEW leaves \in Nat, leaves <= C!Leaves
    PROVE  C!RosterRecord(leaves) \in Nat /\ C!RosterRecord(leaves) <= 22336
<1>1. leaves <= 256
    BY SMT, CustodyBounds
<1>2. C!RosterRecord(leaves) = 64 + 87 * leaves
    BY SMT, FieldSizes
<1> QED BY SMT, <1>1, <1>2

(* The metadata of a group that may exist is never refused by encode or    *)
(* decode (local_group_state.rs:420, 426): no call of a full group with a  *)
(* full history and a pending Commit fails there.                          *)
THEOREM MetadataFits ==
    ASSUME NEW leaves \in Nat, leaves <= C!Leaves, NEW history \in Nat,
    history <= C!Retained
    PROVE  C!MetadataRecord(leaves, history) <= C!ValueBytes
<1>1. history \in {0, 1, 2, 3, 4}
    BY SMT, CustodyBounds
<1>2. C!RosterRecord(leaves) \in Nat /\ C!RosterRecord(leaves) <= 22336
    BY RosterFits
<1>3. history * C!RosterRecord(leaves) <= 89344
    BY SMT, <1>1, <1>2
<1>4. C!MetadataRecord(leaves, history)
        = 169 + 2 * C!RosterRecord(leaves) + history * C!RosterRecord(leaves) + 664
    BY SMT, <1>1, <1>2, FieldSizes DEF C!MetadataRecord, C!PendingRecord
<1>5. history * C!RosterRecord(leaves) \in Int
    BY SMT, <1>1, <1>2
<1> QED BY SMT, <1>2, <1>3, <1>4, <1>5, CustodyBounds

(* A successor request whose parts are within their own bounds is encoded  *)
(* and decoded (codec.rs:126, 139), and the validator's answer is never    *)
(* refused for its length once it has verified (codec.rs:238).             *)
THEOREM ValidatorFramesFit ==
    ASSUME NEW g \in Nat, NEW w \in Nat, NEW a \in Nat, NEW n \in Nat,
           NEW previous \in Nat, NEW resulting \in Nat,
           g <= C!ArtefactBytes, w <= C!ArtefactBytes, a <= C!AadBytes,
           n <= C!ArtefactBytes,
           previous <= C!Leaves, resulting <= C!Leaves
    PROVE  /\ C!SuccessorRequest(g, w, a, n) <= C!ValidatorRequest
           /\ C!SuccessorResult(previous, resulting) <= C!ValidatorResult
<1>1. g <= 1048576 /\ w <= 1048576 /\ a <= 16384 /\ n <= 1048576
    BY SMT, CustodyBounds
<1>2. C!SuccessorRequest(g, w, a, n) = g + w + a + n + 12 + 1 + 191 + 5 + 34 + 3 + 87
+ 47 + 34 + 39
    BY SMT, FieldSizes DEF C!SuccessorRequest, C!SnapshotRequest
<1>3. C!SuccessorRequest(g, w, a, n) <= C!ValidatorRequest
    BY SMT, <1>1, <1>2, CustodyBounds
<1>4. /\ C!RosterRecord(previous) \in Nat /\ C!RosterRecord(previous) <= 22336
      /\ C!RosterRecord(resulting) \in Nat /\ C!RosterRecord(resulting) <= 22336
    BY RosterFits
<1>5. C!SuccessorResult(previous, resulting)
        = 12 + 37 + 68 + 250 + C!RosterRecord(previous) + C!RosterRecord(resulting)
    BY SMT, <1>4, FieldSizes DEF C!SuccessorResult, C!VerifiedRecord
<1>6. C!SuccessorResult(previous, resulting) <= C!ValidatorResult
    BY SMT, <1>4, <1>5, CustodyBounds
<1> QED BY <1>3, <1>6

(* A candidate that was built is always put into its envelope              *)
(* (candidate.rs:121): preparation never fails there, and what it answers  *)
(* is within the bound that reading it applies (candidate.rs:181).         *)
THEOREM CandidatesFit ==
    ASSUME NEW g \in Nat, NEW w \in Nat, NEW a \in Nat, NEW n \in Nat,
           NEW previous \in Nat, NEW resulting \in Nat, NEW rows \in Nat, NEW bytes \in Nat,
           g <= C!ArtefactBytes, w <= C!ArtefactBytes, a <= C!AadBytes,
           n <= C!ArtefactBytes,
           previous <= C!Leaves, resulting <= C!Leaves, rows <= C!Rows, bytes <= C!RowBytes
    PROVE  C!Envelope(C!SuccessorRequest(g, w, a, n), previous, resulting, rows, bytes)
               <= C!EnvelopeBytes
<1> DEFINE p == C!SuccessorRequest(g, w, a, n)
<1>1. p <= C!ValidatorRequest
    BY ValidatorFramesFit
<1>2. p \in Int
  <2>1. p = g + w + a + n + 12 + 1 + 191 + 5 + 34 + 3 + 87 + 47 + 34 + 39
    BY SMT, FieldSizes DEF C!SuccessorRequest, C!SnapshotRequest
  <2> QED BY SMT, <2>1
<1> HIDE DEF p
<1>3. p <= 4194304 /\ rows <= 4096 /\ bytes <= 6291456
    BY SMT, <1>1, CustodyBounds
<1>4. /\ C!RosterRecord(previous) \in Nat /\ C!RosterRecord(previous) <= 22336
      /\ C!RosterRecord(resulting) \in Nat /\ C!RosterRecord(resulting) <= 22336
    BY RosterFits
<1>5. C!Envelope(p, previous, resulting, rows, bytes)
        = 2 + 390 + 68 + 10 + p + C!RosterRecord(previous) + C!RosterRecord(resulting)
          + 37 + rows * 9 + bytes
    BY SMT, <1>2, <1>4, FieldSizes DEF C!Envelope
<1>6. C!Envelope(p, previous, resulting, rows, bytes) <= C!EnvelopeBytes
    BY SMT, <1>2, <1>3, <1>4, <1>5, CustodyBounds
<1> QED BY <1>6 DEF p

-----------------------------------------------------------------------------
(* Native receive calls: results that are delivered *)

LEMMA RepliesDiffer ==
  ASSUME NEW op, NEW e, NEW r
  PROVE  /\ Failure(op, e) # NoReply /\ Success(op, r) # NoReply /\ NullArray # NoReply
         /\ "result" \in DOMAIN Success(op, r) /\ Success(op, r).result = r
BY DEF Failure, Success, NoReply, NullArray

(* encode_success refuses no result within the bounds of the runtime. *)
LEMMA BoundedEncodes ==
  ASSUME NEW r \in Results, RuntimeBounded(r) PROVE EncodesResult(r)
<1>1. /\ r.plaintext \in Nat /\ r.previous \in Nat /\ r.resulting \in Nat
      /\ r.upserts \in Nat /\ r.deletes \in Nat /\ r.bytes \in Nat
  BY ResultsAssumption
<1>2. /\ r.plaintext <= PlaintextBytes /\ r.previous \in 1 .. RosterLeaves
      /\ r.resulting \in 1 .. RosterLeaves
      /\ r.upserts <= BatchRows /\ r.deletes <= BatchRows /\ r.bytes <= BatchBytes
      /\ r.key <= KeyMax /\ r.value <= ValueMax
  BY DEF RuntimeBounded, PlaintextBytes, RosterLeaves, BatchRows, BatchBytes, KeyMax, ValueMax, KiB
<1>3. r.previous <= RosterLeaves /\ r.resulting <= RosterLeaves
  BY <1>1, <1>2 DEF RosterLeaves
<1>4. SizeOf(r) <= ResultBytes
  BY <1>1, <1>2, <1>3, ResultsFit DEF SizeOf
<1> QED BY <1>2, <1>4 DEF EncodesResult

LEMMA AnswerDelivered ==
  ASSUME NEW op, NEW a \in Answers
  PROVE  /\ Answer(op, a) # NoReply
         /\ a.kind = "success" => /\ "result" \in DOMAIN Answer(op, a)
                                  /\ Answer(op, a).result = a.result
<1>1. CASE a = Panic
  BY <1>1, RepliesDiffer DEF Panic, Answer
<1>2. CASE \E e \in RuntimeErrors : a = [kind |-> "error", error |-> e]
  BY <1>2, RepliesDiffer DEF Answer
<1>3. CASE \E r \in {r \in Results : RuntimeBounded(r)} : a = [kind |-> "success", result |-> r]
  <2>1. a.kind = "success" /\ EncodesResult(a.result)
    BY <1>3, BoundedEncodes
  <2>2. Answer(op, a) = Success(op, a.result)
    BY <2>1 DEF Answer
  <2> QED BY <2>2, RepliesDiffer
<1> QED BY <1>1, <1>2, <1>3 DEF Answers

(* Nothing is decoded or answered before the reply. *)
Waiting == reply = NoReply => decoded = Undecoded /\ runtime = Idle

LEMMA CallInitDelivers == CallInit => Waiting /\ SuccessDelivered
BY DEF CallInit, Waiting, SuccessDelivered, Idle

LEMMA CallStepDelivers ==
  Waiting /\ SuccessDelivered /\ [CallNext]_callVars => Waiting' /\ SuccessDelivered'
<1> SUFFICES ASSUME Waiting, SuccessDelivered, [CallNext]_callVars
             PROVE  Waiting' /\ SuccessDelivered'
  OBVIOUS
<1> USE DEF Waiting
<1>1. CASE UNCHANGED <<decoded, runtime, reply>>
  BY <1>1 DEF SuccessDelivered
<1>2. ASSUME NEW q, Present(q) PROVE UNCHANGED <<decoded, runtime, reply>>
  BY <1>2 DEF Present
<1>3. ASSUME NEW n, PresentNull(n) PROVE UNCHANGED <<decoded, runtime, reply>>
  BY <1>3 DEF PresentNull
<1>4. ASSUME Slip PROVE UNCHANGED <<decoded, runtime, reply>>
  BY <1>4 DEF Slip
<1>5. CASE AppleRefuses
  BY <1>5, RepliesDiffer DEF AppleRefuses, SuccessDelivered, Idle
<1>6. CASE AndroidRefuses
  <2>1. reply' # NoReply /\ runtime' = Idle
    BY <1>6, RepliesDiffer DEF AndroidRefuses, Returned
  <2> QED BY <2>1 DEF SuccessDelivered, Idle
<1>7. CASE Refuse
  <2>1. reply' # NoReply /\ runtime' = Idle
    BY <1>7, RepliesDiffer DEF Refuse, Returned
  <2> QED BY <2>1 DEF SuccessDelivered, Idle
<1>8. CASE Execute
  <2>1. PICK a \in Answers : runtime' = a /\ reply' \in Returned(Answer(frame.op, a))
    BY <1>8 DEF Execute
  <2>2. reply' = NullArray \/ reply' = Answer(frame.op, a)
    BY <2>1 DEF Returned
  <2> QED BY <2>1, <2>2, AnswerDelivered, RepliesDiffer DEF SuccessDelivered
<1>9. CASE Return
  BY <1>9 DEF Return, SuccessDelivered, Idle
<1> QED BY <1>1, <1>2, <1>3, <1>4, <1>5, <1>6, <1>7, <1>8, <1>9 DEF CallNext, callVars

(* A receive that succeeded is never answered as a failure: every result   *)
(* within the bounds of the runtime is encoded, so both execute functions  *)
(* return it, or the JNI returns no frame at all.                          *)
THEOREM ResultsAlwaysDelivered == CallSpec => []SuccessDelivered
<1> QED BY CallInitDelivers, CallStepDelivers, PTL DEF CallSpec

-----------------------------------------------------------------------------
(* Sums *)

IsSum(f, w) == f = [i \in 0 .. Len(w) |-> IF i = 0 THEN 0 ELSE f[i - 1] + w[i]]

LEMMA SumExists ==
  ASSUME NEW w, Len(w) \in Nat PROVE \E f : IsSum(f, w)
<1> DEFINE n == Len(w)
           Up(f, j) == \A k \in 0 .. j : f[k] = IF k = 0 THEN 0 ELSE f[k - 1] + w[k]
           S == {j \in Nat : \E f : Up(f, j)}
<1> HIDE DEF n
<1>1. 0 \in S
  <2> DEFINE f == [k \in {0} |-> 0]
  <2>1. Up(f, 0)
    OBVIOUS
  <2> HIDE DEF Up, f
  <2> QED BY <2>1
<1>2. ASSUME NEW j \in Nat, j \in S PROVE j + 1 \in S
  <2>1. PICK f : Up(f, j)
    BY <1>2
  <2> DEFINE g == [k \in 0 .. j + 1 |-> IF k <= j THEN f[k] ELSE f[j] + w[k]]
  <2>2. ASSUME NEW k \in 0 .. j + 1 PROVE g[k] = IF k = 0 THEN 0 ELSE g[k - 1] + w[k]
    <3>1. CASE k = 0
      BY <2>1, <3>1
    <3>2. CASE k \in 1 .. j
      <4>1. k - 1 \in 0 .. j + 1 /\ k - 1 <= j /\ k \in 0 .. j + 1 /\ k \in 0 .. j
        BY <3>2
      <4>2. g[k] = f[k] /\ g[k - 1] = f[k - 1]
        BY <3>2, <4>1
      <4> QED BY <2>1, <3>2, <4>1, <4>2
    <3>3. CASE k = j + 1
      <4>1. k - 1 = j /\ j \in 0 .. j + 1 /\ ~(k <= j)
        BY <3>3
      <4>2. g[k] = f[j] + w[k] /\ g[j] = f[j]
        BY <3>3, <4>1
      <4> QED BY <3>3, <4>1, <4>2
    <3> QED BY <3>1, <3>2, <3>3
  <2>3. Up(g, j + 1)
    <3> HIDE DEF g
    <3> QED BY <2>2
  <2>4. \E h : Up(h, j + 1)
    <3> HIDE DEF Up, g
    <3> QED BY <2>3
  <2> QED BY <2>4
<1>3. Nat \subseteq S
  <2> HIDE DEF S
  <2> QED BY <1>1, <1>2, Induction
<1>4. PICK f : Up(f, n)
  BY <1>3 DEF n
<1> DEFINE h == [k \in 0 .. n |-> f[k]]
<1>5. ASSUME NEW k \in 0 .. n PROVE h[k] = IF k = 0 THEN 0 ELSE h[k - 1] + w[k]
  <2>1. k # 0 => k - 1 \in 0 .. n
    BY DEF n
  <2> QED BY <1>4, <2>1
<1>6. h = [k \in 0 .. n |-> IF k = 0 THEN 0 ELSE h[k - 1] + w[k]]
  <2>1. h = [k \in 0 .. n |-> h[k]]
    OBVIOUS
  <2> HIDE DEF h
  <2> QED BY <1>5, <2>1
<1> QED
  <2> HIDE DEF h
  <2> QED BY <1>6 DEF IsSum, n

LEMMA SumUnique ==
  ASSUME NEW w, Len(w) \in Nat, NEW f, IsSum(f, w), NEW g, IsSum(g, w) PROVE f = g
<1> DEFINE n == Len(w)
           S == {j \in Nat : j <= n => f[j] = g[j]}
<1>1. \A k \in 0 .. n : /\ f[k] = IF k = 0 THEN 0 ELSE f[k - 1] + w[k]
                        /\ g[k] = IF k = 0 THEN 0 ELSE g[k - 1] + w[k]
  BY DEF IsSum
<1> HIDE DEF n
<1>2. 0 \in S
  BY <1>1 DEF n
<1>3. ASSUME NEW j \in Nat, j \in S PROVE j + 1 \in S
  <2> SUFFICES ASSUME j + 1 <= n PROVE f[j + 1] = g[j + 1]
    OBVIOUS
  <2>1. j + 1 \in 0 .. n /\ j + 1 # 0 /\ j + 1 - 1 = j /\ j <= n
    BY DEF n
  <2> QED BY <1>1, <1>3, <2>1
<1>4. Nat \subseteq S
  <2> HIDE DEF S
  <2> QED BY <1>2, <1>3, Induction
<1>5. \A k \in 0 .. n : f[k] = g[k]
  BY <1>4 DEF n
<1>6. f = [k \in 0 .. n |-> f[k]] /\ g = [k \in 0 .. n |-> g[k]]
  BY DEF IsSum, n
<1> QED BY <1>5, <1>6

LEMMA TotalIs ==
  ASSUME NEW w, Len(w) \in Nat, NEW f, IsSum(f, w) PROVE Total(w) = f[Len(w)]
<1> DEFINE t == CHOOSE g : IsSum(g, w)
<1>1. IsSum(t, w)
  BY SumExists
<1>2. t = f
  <2> HIDE DEF t
  <2> QED BY <1>1, SumUnique
<1>3. Total(w) = t[Len(w)]
  BY DEF Total, IsSum
<1> QED BY <1>2, <1>3

LEMMA SumType ==
  ASSUME NEW w \in Seq(Int), NEW f, IsSum(f, w)
  PROVE  /\ f[0] = 0 /\ \A k \in 0 .. Len(w) : f[k] \in Int
         /\ \A k \in 1 .. Len(w) : f[k] = f[k - 1] + w[k]
<1> DEFINE n == Len(w)
           S == {j \in Nat : j <= n => f[j] \in Int}
<1>1. n \in Nat /\ \A k \in 1 .. n : w[k] \in Int
  OBVIOUS
<1>2. \A k \in 0 .. n : f[k] = IF k = 0 THEN 0 ELSE f[k - 1] + w[k]
  BY DEF IsSum
<1> HIDE DEF n
<1>3. 0 \in S
  BY <1>1, <1>2
<1>4. ASSUME NEW j \in Nat, j \in S PROVE j + 1 \in S
  <2> SUFFICES ASSUME j + 1 <= n PROVE f[j + 1] \in Int
    OBVIOUS
  <2>1. j + 1 \in 0 .. n /\ j + 1 # 0 /\ j + 1 - 1 = j /\ j <= n /\ j + 1 \in 1 .. n
    BY <1>1
  <2>2. f[j] \in Int /\ w[j + 1] \in Int
    BY <1>1, <1>4, <2>1
  <2> QED BY <1>2, <2>1, <2>2
<1>5. Nat \subseteq S
  <2> HIDE DEF S
  <2> QED BY <1>3, <1>4, Induction
<1> QED BY <1>1, <1>2, <1>5 DEF n

(* The total of two sequences one after the other. *)
LEMMA TotalConcat ==
  ASSUME NEW a \in Seq(Int), NEW b \in Seq(Int)
  PROVE  Total(a) \in Int /\ Total(a \o b) = Total(a) + Total(b)
<1> DEFINE m == Len(a)
           n == Len(b)
           w == a \o b
<1>1. m \in Nat /\ n \in Nat /\ w \in Seq(Int) /\ Len(w) = m + n /\ Len(w) \in Nat
  OBVIOUS
<1>2. /\ \A k \in 1 .. m : w[k] = a[k]
      /\ \A k \in 1 .. n : w[m + k] = b[k] /\ b[k] \in Int
  OBVIOUS
<1> HIDE DEF m, n, w
<1>3. PICK f : IsSum(f, w)
  <2>1. Len(w) \in Nat
    BY <1>1
  <2> QED BY Zenon, <2>1, SumExists
<1>4. /\ f[0] = 0 /\ \A k \in 0 .. m + n : f[k] \in Int
      /\ \A k \in 1 .. m + n : f[k] = f[k - 1] + w[k]
  BY <1>1, <1>3, SumType
<1> DEFINE g == [k \in 0 .. m |-> f[k]]
           h == [k \in 0 .. n |-> f[m + k] - f[m]]
<1>5. IsSum(g, a)
  <2>1. ASSUME NEW k \in 0 .. m PROVE g[k] = IF k = 0 THEN 0 ELSE g[k - 1] + a[k]
    <3>1. k # 0 => k - 1 \in 0 .. m /\ k \in 1 .. m /\ k \in 1 .. m + n
      BY <1>1
    <3> QED BY <1>2, <1>4, <3>1
  <2>2. g = [k \in 0 .. m |-> g[k]]
    OBVIOUS
  <2> HIDE DEF g
  <2> QED BY <2>1, <2>2 DEF IsSum, m
<1>6. IsSum(h, b)
  <2>1. ASSUME NEW k \in 0 .. n PROVE h[k] = IF k = 0 THEN 0 ELSE h[k - 1] + b[k]
    <3>1. CASE k = 0
      <4>1. m + k = m /\ m \in 0 .. m + n
        BY <1>1, <3>1
      <4> QED BY <1>4, <3>1, <4>1
    <3>2. CASE k # 0
      <4>1. /\ k - 1 \in 0 .. n /\ k \in 1 .. n /\ m + k \in 1 .. m + n
            /\ m + k - 1 = m + (k - 1) /\ m + (k - 1) \in 0 .. m + n /\ m \in 0 .. m + n
        BY <1>1, <3>2
      <4>2. f[m + k] = f[m + (k - 1)] + b[k]
        <5>1. f[m + k] = f[m + k - 1] + w[m + k]
          BY <1>4, <4>1
        <5> QED BY <1>2, <4>1, <5>1
      <4>3. f[m + (k - 1)] \in Int /\ f[m] \in Int /\ b[k] \in Int
        BY <1>2, <1>4, <4>1
      <4>4. h[k] = f[m + k] - f[m] /\ h[k - 1] = f[m + (k - 1)] - f[m]
        BY <4>1
      <4> HIDE DEF h
      <4> QED BY <3>2, <4>2, <4>3, <4>4
    <3> QED BY <3>1, <3>2
  <2>2. h = [k \in 0 .. n |-> h[k]]
    OBVIOUS
  <2> HIDE DEF h
  <2> QED BY <2>1, <2>2 DEF IsSum, n
<1>7. Total(a) = g[m] /\ Total(b) = h[n]
  <2> HIDE DEF g, h
  <2> QED BY <1>1, <1>5, <1>6, TotalIs DEF m, n
<1>8. Total(w) = f[m + n]
  <2>1. Len(w) \in Nat
    BY <1>1
  <2>2. Total(w) = f[Len(w)]
    BY Zenon, <1>3, <2>1, TotalIs
  <2> QED BY <1>1, <2>2
<1>9. g[m] = f[m] /\ h[n] = f[m + n] - f[m] /\ f[m] \in Int /\ f[m + n] \in Int
  BY <1>1, <1>4
<1> QED BY <1>7, <1>8, <1>9 DEF w

-----------------------------------------------------------------------------
(* The sizes of rows *)

\* Rows whose sizes are numbers.
Sized(rows) == \E S : rows \in Seq(S) /\ \A row \in S : RowSize(row) \in Int

SizesOf(rows) == [i \in DOMAIN rows |-> RowSize(rows[i])]

LEMMA SizesType ==
  ASSUME NEW S, \A row \in S : RowSize(row) \in Int, NEW rows \in Seq(S)
  PROVE  /\ SizesOf(rows) \in Seq(Int) /\ Len(SizesOf(rows)) = Len(rows)
         /\ \A i \in 1 .. Len(rows) : SizesOf(rows)[i] = RowSize(rows[i])
<1>1. DOMAIN rows = 1 .. Len(rows) /\ Len(rows) \in Nat /\ \A i \in 1 .. Len(rows) : rows[i] \in S
  OBVIOUS
<1>2. SizesOf(rows) \in [1 .. Len(rows) -> Int]
  BY <1>1 DEF SizesOf
<1> QED BY <1>1, <1>2 DEF SizesOf

LEMMA SizeConcat ==
  ASSUME NEW S, \A row \in S : RowSize(row) \in Int, NEW p \in Seq(S), NEW q \in Seq(S)
  PROVE  TotalSize(p) \in Int /\ TotalSize(p \o q) = TotalSize(p) + TotalSize(q)
<1> DEFINE v == SizesOf(p)
           w == SizesOf(q)
<1>1. /\ v \in Seq(Int) /\ Len(v) = Len(p) /\ w \in Seq(Int) /\ Len(w) = Len(q)
      /\ \A i \in 1 .. Len(p) : v[i] = RowSize(p[i])
      /\ \A i \in 1 .. Len(q) : w[i] = RowSize(q[i])
  BY SizesType
<1> HIDE DEF v, w
<1>2. /\ p \o q \in Seq(S) /\ Len(p \o q) = Len(p) + Len(q)
      /\ \A i \in 1 .. Len(p) + Len(q) : (p \o q)[i] = IF i <= Len(p) THEN p[i] ELSE q[i - Len(p)]
  BY ConcatProperties
<1>3. /\ v \o w \in Seq(Int) /\ Len(v \o w) = Len(v) + Len(w)
      /\ \A i \in 1 .. Len(v) + Len(w) : (v \o w)[i] = IF i <= Len(v) THEN v[i] ELSE w[i - Len(v)]
  <2>1. v \in Seq(Int) /\ w \in Seq(Int)
    BY <1>1
  <2> QED BY <2>1
<1>4. /\ SizesOf(p \o q) \in Seq(Int) /\ Len(SizesOf(p \o q)) = Len(p \o q)
      /\ \A i \in 1 .. Len(p \o q) : SizesOf(p \o q)[i] = RowSize((p \o q)[i])
  BY <1>2, SizesType
<1>5. ASSUME NEW i \in 1 .. Len(p) + Len(q) PROVE SizesOf(p \o q)[i] = (v \o w)[i]
  <2>1. Len(p) \in Nat /\ Len(q) \in Nat
    OBVIOUS
  <2>2. CASE i <= Len(p)
    <3>1. i \in 1 .. Len(p)
      BY <2>1, <2>2
    <3> QED BY <1>1, <1>2, <1>3, <1>4, <2>2, <3>1
  <2>3. CASE ~(i <= Len(p))
    <3>1. i - Len(p) \in 1 .. Len(q)
      BY <2>1, <2>3
    <3> QED BY <1>1, <1>2, <1>3, <1>4, <2>3, <3>1
  <2> QED BY <2>2, <2>3
<1>6. SizesOf(p \o q) = v \o w
  <2>1. Len(SizesOf(p \o q)) = Len(v \o w)
    BY <1>1, <1>2, <1>3, <1>4
  <2>2. \A i \in 1 .. Len(v \o w) : SizesOf(p \o q)[i] = (v \o w)[i]
    BY <1>1, <1>3, <1>5
  <2> HIDE DEF SizesOf
  <2> QED BY <1>3, <1>4, <2>1, <2>2, SeqEqual
<1>7. Total(v) \in Int /\ Total(v \o w) = Total(v) + Total(w)
  BY <1>1, TotalConcat
<1> QED BY <1>6, <1>7 DEF TotalSize, SizesOf, v, w

LEMMA SizeOne == ASSUME NEW row, RowSize(row) \in Int PROVE TotalSize(<<row>>) = RowSize(row)
<1> DEFINE w == SizesOf(<<row>>)
           f == [k \in 0 .. 1 |-> IF k = 0 THEN 0 ELSE RowSize(row)]
<1>1. <<row>> \in Seq({row}) /\ Len(<<row>>) = 1 /\ <<row>>[1] = row
  OBVIOUS
<1>2. w \in Seq(Int) /\ Len(w) = 1 /\ w[1] = RowSize(row)
  <2>1. \A x \in {row} : RowSize(x) \in Int
    OBVIOUS
  <2>2. /\ w \in Seq(Int) /\ Len(w) = Len(<<row>>)
        /\ \A i \in 1 .. Len(<<row>>) : w[i] = RowSize(<<row>>[i])
    BY <1>1, <2>1, SizesType
  <2> HIDE DEF w
  <2> QED BY <1>1, <2>2
<1> HIDE DEF w
<1>3. IsSum(f, w)
  <2>1. ASSUME NEW k \in 0 .. 1 PROVE f[k] = IF k = 0 THEN 0 ELSE f[k - 1] + w[k]
    <3>1. k = 0 \/ k = 1
      OBVIOUS
    <3>2. f[0] = 0 /\ f[1] = RowSize(row) /\ 1 - 1 = 0
      OBVIOUS
    <3> HIDE DEF f
    <3>3. f[1] = f[1 - 1] + w[1]
      BY <1>2, <3>2
    <3> QED BY <3>1, <3>2, <3>3
  <2>2. f = [k \in 0 .. 1 |-> f[k]]
    OBVIOUS
  <2> HIDE DEF f
  <2> QED BY <1>2, <2>1, <2>2 DEF IsSum
<1>4. f[1] = RowSize(row)
  OBVIOUS
<1>5. Total(w) = f[1]
  <2> HIDE DEF f
  <2>1. Len(w) \in Nat
    BY <1>2
  <2>2. Total(w) = f[Len(w)]
    BY Zenon, <1>3, <2>1, TotalIs
  <2> QED BY <1>2, <2>2
<1> QED BY <1>4, <1>5 DEF TotalSize, SizesOf, w

LEMMA SizeEmpty == Sized(<<>>) /\ TotalSize(<<>>) = 0
<1> DEFINE f == [k \in 0 .. 0 |-> 0]
           w == SizesOf(<<>>)
<1>1. w \in Seq(Int) /\ Len(w) = 0
  <2>1. <<>> \in Seq({}) /\ Len(<<>>) = 0
    OBVIOUS
  <2> QED BY <2>1, SizesType
<1> HIDE DEF w
<1>2. IsSum(f, w)
  BY <1>1 DEF IsSum
<1>3. Total(w) = f[0]
  <2> HIDE DEF f
  <2> QED BY <1>1, <1>2, TotalIs
<1>4. TotalSize(<<>>) = 0
  BY <1>3 DEF TotalSize, SizesOf, w
<1>5. <<>> \in Seq({}) /\ \A row \in {} : RowSize(row) \in Int
  OBVIOUS
<1> QED BY <1>4, <1>5 DEF Sized

LEMMA SizeAppend ==
  ASSUME NEW rows, Sized(rows), NEW row, RowSize(row) \in Int
  PROVE  /\ Sized(Append(rows, row)) /\ TotalSize(rows) \in Int
         /\ TotalSize(Append(rows, row)) = TotalSize(rows) + RowSize(row)
<1>1. PICK S : rows \in Seq(S) /\ \A x \in S : RowSize(x) \in Int
  BY DEF Sized
<1> DEFINE T == S \cup {row}
<1>2. rows \in Seq(T) /\ <<row>> \in Seq(T) /\ \A x \in T : RowSize(x) \in Int
  BY <1>1
<1> HIDE DEF T
<1>3. Append(rows, row) = rows \o <<row>> /\ Append(rows, row) \in Seq(T)
  BY <1>2
<1>4. TotalSize(rows) \in Int /\ TotalSize(rows \o <<row>>) = TotalSize(rows) + TotalSize(<<row>>)
  BY <1>2, SizeConcat
<1> QED BY <1>2, <1>3, <1>4, SizeOne DEF Sized

(* Where a row is inserted makes no difference to the total. *)
LEMMA SizePlaced ==
  ASSUME NEW sorted, Sized(sorted), NEW row, RowSize(row) \in Int
  PROVE  /\ Sized(Placed(sorted, row))
         /\ TotalSize(Placed(sorted, row)) = TotalSize(sorted) + RowSize(row)
<1>1. PICK S : sorted \in Seq(S) /\ \A x \in S : RowSize(x) \in Int
  BY DEF Sized
<1> DEFINE T == S \cup {row}
           below == {i \in DOMAIN sorted : sorted[i]["key"].v[1] < row["key"].v[1]}
           k == Cardinality(below)
           n == Len(sorted)
           p == SubSeq(sorted, 1, k)
           q == SubSeq(sorted, k + 1, n)
<1>2. sorted \in Seq(T) /\ <<row>> \in Seq(T) /\ \A x \in T : RowSize(x) \in Int
  BY <1>1
<1> HIDE DEF T
<1>3. n \in Nat /\ DOMAIN sorted = 1 .. n
  BY <1>2
<1>4. k \in 0 .. n
  <2>1. IsFiniteSet(1 .. n) /\ Cardinality(1 .. n) = n
    BY <1>3, FS_Interval
  <2>2. below \subseteq 1 .. n
    BY <1>3
  <2> HIDE DEF below
  <2>3. IsFiniteSet(below) /\ Cardinality(below) <= n
    BY <2>1, <2>2, FS_Subset
  <2> QED BY <1>3, <2>3, FS_CardinalityType
<1> HIDE DEF k
<1>5. p \in Seq(T) /\ q \in Seq(T)
  <2>1. \A i \in 1 .. k : sorted[i] \in T
    BY <1>2, <1>3, <1>4
  <2>2. \A i \in k + 1 .. n : sorted[i] \in T
    BY <1>2, <1>3, <1>4
  <2> HIDE DEF n
  <2> QED BY <1>3, <1>4, <2>1, <2>2, SubSeqProperties
<1>6. sorted = p \o q
  <2>1. 1 \in 1 .. n + 1 /\ k \in 1 - 1 .. n /\ n \in k .. n
    BY <1>3, <1>4
  <2>2. SubSeq(sorted, 1, k) \o SubSeq(sorted, k + 1, n) = SubSeq(sorted, 1, n)
    BY <1>2, <2>1, ConcatAdjacentSubSeq
  <2>3. SubSeq(sorted, 1, n) = sorted
    BY <1>2, SubSeqFull
  <2> QED BY <2>2, <2>3
<1>7. Placed(sorted, row) = p \o <<row>> \o q
  <2>1. (1 + k) - 1 = k /\ 1 + k = k + 1
    BY <1>4
  <2>2. Placed(sorted, row) = SubSeq(sorted, 1, (1 + k) - 1) \o <<row>> \o SubSeq(sorted, 1 + k, n)
    <3>1. Placed(sorted, row) = InsertAt(sorted, 1 + k, row)
      BY Zenon DEF Placed, k
    <3> QED BY <3>1 DEF InsertAt
  <2> QED BY <2>1, <2>2
<1> HIDE DEF p, q
<1>8. p \o <<row>> \in Seq(T) /\ p \o <<row>> \o q \in Seq(T)
  BY <1>2, <1>5
<1>9. /\ TotalSize(p \o <<row>>) = TotalSize(p) + TotalSize(<<row>>)
      /\ TotalSize(p \o <<row>> \o q) = TotalSize(p \o <<row>>) + TotalSize(q)
      /\ TotalSize(p \o q) = TotalSize(p) + TotalSize(q)
      /\ TotalSize(p) \in Int /\ TotalSize(q) \in Int
  BY <1>2, <1>5, <1>8, SizeConcat
<1>10. TotalSize(<<row>>) = RowSize(row)
  BY SizeOne
<1>11. TotalSize(p \o <<row>> \o q) = TotalSize(sorted) + RowSize(row)
  BY <1>6, <1>9, <1>10
<1> QED BY <1>2, <1>7, <1>8, <1>11 DEF Sized

IsSort(f, rows) ==
  f = [i \in 0 .. Len(rows) |-> IF i = 0 THEN <<>> ELSE Placed(f[i - 1], rows[i])]

LEMMA SortExists ==
  ASSUME NEW rows, Len(rows) \in Nat PROVE \E f : IsSort(f, rows)
<1> DEFINE n == Len(rows)
           Up(f, j) == \A k \in 0 .. j : f[k] = IF k = 0 THEN <<>> ELSE Placed(f[k - 1], rows[k])
           S == {j \in Nat : \E f : Up(f, j)}
<1> HIDE DEF n
<1>1. 0 \in S
  <2> DEFINE f == [k \in {0} |-> <<>>]
  <2>1. Up(f, 0)
    OBVIOUS
  <2> HIDE DEF Up, f
  <2> QED BY <2>1
<1>2. ASSUME NEW j \in Nat, j \in S PROVE j + 1 \in S
  <2>1. PICK f : Up(f, j)
    BY <1>2
  <2> DEFINE g == [k \in 0 .. j + 1 |-> IF k <= j THEN f[k] ELSE Placed(f[j], rows[k])]
  <2>2. ASSUME NEW k \in 0 .. j + 1 PROVE g[k] = IF k = 0 THEN <<>> ELSE Placed(g[k - 1], rows[k])
    <3>1. CASE k = 0
      BY <2>1, <3>1
    <3>2. CASE k \in 1 .. j
      <4>1. k - 1 \in 0 .. j + 1 /\ k - 1 <= j /\ k \in 0 .. j + 1 /\ k \in 0 .. j
        BY <3>2
      <4>2. g[k] = f[k] /\ g[k - 1] = f[k - 1]
        BY <3>2, <4>1
      <4> QED BY <2>1, <3>2, <4>1, <4>2
    <3>3. CASE k = j + 1
      <4>1. k - 1 = j /\ j \in 0 .. j + 1 /\ ~(k <= j)
        BY <3>3
      <4>2. g[k] = Placed(f[j], rows[k]) /\ g[j] = f[j]
        BY <3>3, <4>1
      <4> QED BY <3>3, <4>1, <4>2
    <3> QED BY <3>1, <3>2, <3>3
  <2>3. Up(g, j + 1)
    <3> HIDE DEF g
    <3> QED BY <2>2
  <2>4. \E h : Up(h, j + 1)
    <3> HIDE DEF Up, g
    <3> QED BY <2>3
  <2> QED BY <2>4
<1>3. Nat \subseteq S
  <2> HIDE DEF S
  <2> QED BY <1>1, <1>2, Induction
<1>4. PICK f : Up(f, n)
  BY <1>3 DEF n
<1> DEFINE h == [k \in 0 .. n |-> f[k]]
<1>5. ASSUME NEW k \in 0 .. n PROVE h[k] = IF k = 0 THEN <<>> ELSE Placed(h[k - 1], rows[k])
  <2>1. k # 0 => k - 1 \in 0 .. n
    BY DEF n
  <2> QED BY <1>4, <2>1
<1>6. h = [k \in 0 .. n |-> IF k = 0 THEN <<>> ELSE Placed(h[k - 1], rows[k])]
  <2>1. h = [k \in 0 .. n |-> h[k]]
    OBVIOUS
  <2> HIDE DEF h
  <2> QED BY <1>5, <2>1
<1> QED
  <2> HIDE DEF h
  <2> QED BY <1>6 DEF IsSort, n

(* Sorting the rows leaves their total as it is. *)
LEMMA SortedSize ==
  ASSUME NEW rows, Sized(rows) PROVE TotalSize(ByKey(rows)) = TotalSize(rows)
<1>1. PICK T : rows \in Seq(T) /\ \A row \in T : RowSize(row) \in Int
  BY DEF Sized
<1> DEFINE n == Len(rows)
           w == SizesOf(rows)
           f == CHOOSE g : IsSort(g, rows)
<1>2. n \in Nat /\ \A i \in 1 .. n : RowSize(rows[i]) \in Int
  BY <1>1
<1>3. w \in Seq(Int) /\ Len(w) = n /\ \A i \in 1 .. n : w[i] = RowSize(rows[i])
  BY <1>1, SizesType
<1>4. IsSort(f, rows)
  BY <1>2, SortExists
<1>5. ByKey(rows) = f[n]
  BY DEF ByKey, IsSort
<1>6. \A k \in 0 .. n : f[k] = IF k = 0 THEN <<>> ELSE Placed(f[k - 1], rows[k])
  <2> HIDE DEF f
  <2> QED BY <1>4 DEF IsSort
<1> HIDE DEF n, w, f
<1>7. PICK g : IsSum(g, w)
  <2>1. Len(w) \in Nat
    BY <1>2, <1>3
  <2> QED BY Zenon, <2>1, SumExists
<1>8. /\ g[0] = 0 /\ \A k \in 0 .. n : g[k] \in Int
      /\ \A k \in 1 .. n : g[k] = g[k - 1] + w[k]
  BY <1>3, <1>7, SumType
<1> DEFINE S == {j \in Nat : j <= n => Sized(f[j]) /\ TotalSize(f[j]) = g[j]}
<1>9. 0 \in S
  <2>1. f[0] = <<>>
    BY <1>2, <1>6
  <2> QED BY <1>8, <2>1, SizeEmpty
<1>10. ASSUME NEW j \in Nat, j \in S PROVE j + 1 \in S
  <2> SUFFICES ASSUME j + 1 <= n PROVE Sized(f[j + 1]) /\ TotalSize(f[j + 1]) = g[j + 1]
    OBVIOUS
  <2>1. j + 1 \in 0 .. n /\ j + 1 # 0 /\ (j + 1) - 1 = j /\ j <= n /\ j + 1 \in 1 .. n
    BY <1>2
  <2>2. Sized(f[j]) /\ TotalSize(f[j]) = g[j]
    BY <1>10, <2>1
  <2>3. f[j + 1] = Placed(f[j], rows[j + 1])
    BY <1>6, <2>1
  <2>4. RowSize(rows[j + 1]) \in Int
    BY <1>2, <2>1
  <2>5. /\ Sized(Placed(f[j], rows[j + 1]))
        /\ TotalSize(Placed(f[j], rows[j + 1])) = TotalSize(f[j]) + RowSize(rows[j + 1])
    BY <2>2, <2>4, SizePlaced
  <2>6. g[j + 1] = g[j] + w[j + 1] /\ w[j + 1] = RowSize(rows[j + 1])
    BY <1>3, <1>8, <2>1
  <2> QED BY <2>2, <2>3, <2>5, <2>6
<1>11. Nat \subseteq S
  <2> HIDE DEF S
  <2> QED BY <1>9, <1>10, Induction
<1>12. TotalSize(f[n]) = g[n]
  BY <1>2, <1>11
<1>13. TotalSize(rows) = g[n]
  <2>1. Len(w) \in Nat
    BY <1>2, <1>3
  <2>2. Total(w) = g[Len(w)]
    BY Zenon, <1>7, <2>1, TotalIs
  <2> QED BY <1>3, <2>2 DEF TotalSize, SizesOf, w
<1> QED BY <1>5, <1>12, <1>13

-----------------------------------------------------------------------------
(* Reading fields *)

Kinds == {"map", "uint", "bytes", "option", "check"}
StepSeq(steps) == \E S : steps \in Seq(S) /\ \A f \in S : f.kind \in Kinds

Shape(s) == DOMAIN s = {"err", "at", "got", "rows", "copied"}
\* The storage rows are the same.
KeepsRows(s, t) == Shape(t) /\ t.rows = s.rows /\ t.copied = s.copied
\* The fields are the same, too.
KeepsAll(s, t) == KeepsRows(s, t) /\ t.got = s.got

LEMMA FailKeeps == ASSUME NEW s, Shape(s), NEW e PROVE KeepsAll(s, Fail(s, e)) /\ Fail(s, e).err = e
BY DEF Fail, Shape, KeepsAll, KeepsRows

LEMMA ExpectKeeps ==
  ASSUME NEW in, NEW s, Shape(s), NEW t, NEW n
  PROVE  KeepsAll(s, Expect(in, s, t, n)) /\ (Expect(in, s, t, n).err = OK => s.err = OK)
<1>1. KeepsAll(s, s)
  BY DEF KeepsAll, KeepsRows
<1>2. KeepsAll(s, [s EXCEPT !.at = @ + 1])
  BY DEF Shape, KeepsAll, KeepsRows
<1> DEFINE e == Fail(s, "NoncanonicalEncoding")
<1>3. KeepsAll(s, e) /\ e.err # OK
  BY FailKeeps DEF OK
<1>4. [s EXCEPT !.at = @ + 1].err = s.err
  BY DEF Shape
<1>5. CASE s.err # OK
  BY <1>1, <1>5 DEF Expect
<1>6. CASE s.err = OK
  <2>1. Expect(in, s, t, n) = e \/ Expect(in, s, t, n) = [s EXCEPT !.at = @ + 1]
    BY <1>6 DEF Expect
  <2> HIDE DEF e
  <2> QED BY <1>2, <1>3, <1>4, <1>6, <2>1
<1> QED BY <1>5, <1>6

LEMMA PutKeeps ==
  ASSUME NEW s, Shape(s), NEW name, NEW value
  PROVE  /\ KeepsRows(s, Put(s, name, value)) /\ Put(s, name, value).err = s.err
         /\ Put(s, name, value).got = With(s.got, name, value)
BY DEF Put, Shape, KeepsRows

LEMMA FieldKeeps ==
  ASSUME NEW in, NEW s, Shape(s), NEW f, f.kind \in Kinds
  PROVE  KeepsRows(s, ReadField(in, s, f))
<1> DEFINE k == AfterKey(in, s, f)
<1>1. KeepsRows(s, k)
  BY ExpectKeeps DEF AfterKey, KeepsAll, KeepsRows
<1>2. KeepsRows(s, s)
  BY DEF KeepsRows
<1>3. \A t : KeepsRows(k, t) => KeepsRows(s, t)
  BY <1>1 DEF KeepsRows
<1>4. Shape(k)
  BY <1>1 DEF KeepsRows
<1> HIDE DEF k
<1>5. KeepsRows(k, Expect(in, k, "map", f.max))
  BY <1>4, ExpectKeeps DEF KeepsAll
<1>6. KeepsRows(k, ReadUint(in, k, f))
  BY <1>4, PutKeeps, FailKeeps DEF ReadUint, KeepsAll
<1>7. KeepsRows(k, ReadBytes(in, k, f))
  BY <1>4, PutKeeps, FailKeeps DEF ReadBytes, KeepsAll
<1>8. KeepsRows(k, ReadOption(in, k, f))
  <2>1. KeepsRows(k, [k EXCEPT !.got = With(@, f.name, TRUE)])
    BY <1>4 DEF Shape, KeepsRows
  <2> QED BY <1>4, <2>1, PutKeeps DEF ReadOption
<1>9. KeepsRows(s, [s EXCEPT !.err = Verdict(f.name, s.got)])
  BY DEF Shape, KeepsRows
<1>10. \/ ReadField(in, s, f) \in {s, k, [s EXCEPT !.err = Verdict(f.name, s.got)]}
       \/ ReadField(in, s, f) \in {Expect(in, k, "map", f.max), ReadUint(in, k, f),
                                   ReadBytes(in, k, f), ReadOption(in, k, f)}
  BY DEF ReadField, Kinds, k
<1> QED BY <1>1, <1>2, <1>3, <1>5, <1>6, <1>7, <1>8, <1>9, <1>10

IsReading(f, in, s, steps) ==
  f = [i \in 0 .. Len(steps) |-> IF i = 0 THEN s ELSE ReadField(in, f[i - 1], steps[i])]

LEMMA ReadingExists ==
  ASSUME NEW in, NEW s, NEW steps, Len(steps) \in Nat PROVE \E f : IsReading(f, in, s, steps)
<1> DEFINE n == Len(steps)
           Up(f, j) == \A k \in 0 .. j : f[k] = IF k = 0 THEN s ELSE ReadField(in, f[k - 1], steps[k])
           S == {j \in Nat : \E f : Up(f, j)}
<1> HIDE DEF n
<1>1. 0 \in S
  <2> DEFINE f == [k \in {0} |-> s]
  <2>1. Up(f, 0)
    OBVIOUS
  <2> HIDE DEF Up, f
  <2> QED BY <2>1
<1>2. ASSUME NEW j \in Nat, j \in S PROVE j + 1 \in S
  <2>1. PICK f : Up(f, j)
    BY <1>2
  <2> DEFINE g == [k \in 0 .. j + 1 |-> IF k <= j THEN f[k] ELSE ReadField(in, f[j], steps[k])]
  <2>2. ASSUME NEW k \in 0 .. j + 1 PROVE g[k] = IF k = 0 THEN s ELSE ReadField(in, g[k - 1], steps[k])
    <3>1. CASE k = 0
      BY <2>1, <3>1
    <3>2. CASE k \in 1 .. j
      <4>1. k - 1 \in 0 .. j + 1 /\ k - 1 <= j /\ k \in 0 .. j + 1 /\ k \in 0 .. j
        BY <3>2
      <4>2. g[k] = f[k] /\ g[k - 1] = f[k - 1]
        BY <3>2, <4>1
      <4> QED BY <2>1, <3>2, <4>1, <4>2
    <3>3. CASE k = j + 1
      <4>1. k - 1 = j /\ j \in 0 .. j + 1 /\ ~(k <= j)
        BY <3>3
      <4>2. g[k] = ReadField(in, f[j], steps[k]) /\ g[j] = f[j]
        BY <3>3, <4>1
      <4> QED BY <3>3, <4>1, <4>2
    <3> QED BY <3>1, <3>2, <3>3
  <2>3. Up(g, j + 1)
    <3> HIDE DEF g
    <3> QED BY <2>2
  <2>4. \E h : Up(h, j + 1)
    <3> HIDE DEF Up, g
    <3> QED BY <2>3
  <2> QED BY <2>4
<1>3. Nat \subseteq S
  <2> HIDE DEF S
  <2> QED BY <1>1, <1>2, Induction
<1>4. PICK f : Up(f, n)
  BY <1>3 DEF n
<1> DEFINE h == [k \in 0 .. n |-> f[k]]
<1>5. ASSUME NEW k \in 0 .. n PROVE h[k] = IF k = 0 THEN s ELSE ReadField(in, h[k - 1], steps[k])
  <2>1. k # 0 => k - 1 \in 0 .. n
    BY DEF n
  <2> QED BY <1>4, <2>1
<1>6. h = [k \in 0 .. n |-> IF k = 0 THEN s ELSE ReadField(in, h[k - 1], steps[k])]
  <2>1. h = [k \in 0 .. n |-> h[k]]
    OBVIOUS
  <2> HIDE DEF h
  <2> QED BY <1>5, <2>1
<1> QED
  <2> HIDE DEF h
  <2> QED BY <1>6 DEF IsReading, n

LEMMA ReadingIs ==
  ASSUME NEW in, NEW s, NEW steps, Len(steps) \in Nat
  PROVE  \E f : /\ f[0] = s /\ ReadFields(in, s, steps) = f[Len(steps)]
                /\ \A i \in 1 .. Len(steps) : f[i] = ReadField(in, f[i - 1], steps[i])
<1> DEFINE f == CHOOSE g : IsReading(g, in, s, steps)
<1>1. IsReading(f, in, s, steps)
  BY ReadingExists
<1>2. ReadFields(in, s, steps) = f[Len(steps)]
  BY DEF ReadFields, IsReading
<1> HIDE DEF f
<1>3. f[0] = s /\ \A i \in 1 .. Len(steps) : f[i] = ReadField(in, f[i - 1], steps[i])
  <2>1. \A i \in 0 .. Len(steps) : f[i] = IF i = 0 THEN s ELSE ReadField(in, f[i - 1], steps[i])
    BY <1>1 DEF IsReading
  <2> QED BY <2>1
<1> QED BY <1>2, <1>3

LEMMA FieldsKeep ==
  ASSUME NEW in, NEW s, Shape(s), NEW steps, StepSeq(steps),
         NEW f, f[0] = s, \A i \in 1 .. Len(steps) : f[i] = ReadField(in, f[i - 1], steps[i])
  PROVE  \A i \in 0 .. Len(steps) : KeepsRows(s, f[i])
<1> DEFINE n == Len(steps)
           S == {j \in Nat : j <= n => KeepsRows(s, f[j])}
<1>1. n \in Nat /\ \A i \in 1 .. n : steps[i].kind \in Kinds
  BY DEF StepSeq
<1> HIDE DEF n
<1>2. 0 \in S
  BY DEF KeepsRows
<1>3. ASSUME NEW j \in Nat, j \in S PROVE j + 1 \in S
  <2> SUFFICES ASSUME j + 1 <= n PROVE KeepsRows(s, f[j + 1])
    OBVIOUS
  <2>1. j + 1 \in 1 .. n /\ (j + 1) - 1 = j /\ j <= n
    BY <1>1
  <2>2. KeepsRows(s, f[j]) /\ Shape(f[j])
    BY <1>3, <2>1 DEF KeepsRows
  <2>3. f[j + 1] = ReadField(in, f[j], steps[j + 1]) /\ steps[j + 1].kind \in Kinds
    BY <1>1, <2>1 DEF n
  <2>4. KeepsRows(f[j], f[j + 1])
    BY <2>2, <2>3, FieldKeeps
  <2> QED BY <2>2, <2>4 DEF KeepsRows
<1>4. Nat \subseteq S
  <2> HIDE DEF S
  <2> QED BY <1>2, <1>3, Induction
<1> QED BY <1>1, <1>4 DEF n

(* Reading fields leaves the storage rows alone. *)
LEMMA ReadFieldsKeep ==
  ASSUME NEW in, NEW s, Shape(s), NEW steps, StepSeq(steps)
  PROVE  KeepsRows(s, ReadFields(in, s, steps))
<1>1. Len(steps) \in Nat
  BY DEF StepSeq
<1>2. PICK f : /\ f[0] = s /\ ReadFields(in, s, steps) = f[Len(steps)]
               /\ \A i \in 1 .. Len(steps) : f[i] = ReadField(in, f[i - 1], steps[i])
  BY <1>1, ReadingIs
<1>3. \A i \in 0 .. Len(steps) : KeepsRows(s, f[i])
  BY <1>2, FieldsKeep
<1> QED BY <1>1, <1>2, <1>3


LEMMA ConcatSteps ==
  ASSUME NEW a, NEW b, StepSeq(a), StepSeq(b) PROVE StepSeq(a \o b)
<1>1. PICK S : a \in Seq(S) /\ \A f \in S : f.kind \in Kinds
  BY DEF StepSeq
<1>2. PICK T : b \in Seq(T) /\ \A f \in T : f.kind \in Kinds
  BY DEF StepSeq
<1>3. a \in Seq(S \cup T) /\ b \in Seq(S \cup T)
  BY <1>1, <1>2
<1>4. a \o b \in Seq(S \cup T)
  BY <1>3
<1> QED BY <1>1, <1>2, <1>4 DEF StepSeq

LEMMA OneStep ==
  ASSUME NEW kind \in Kinds, NEW key, NEW name, NEW min, NEW max
  PROVE  /\ Step(kind, key, name, min, max).kind \in Kinds
         /\ StepSeq(<<Step(kind, key, name, min, max)>>)
<1> DEFINE f == Step(kind, key, name, min, max)
<1>1. f.kind = kind
  BY DEF Step
<1> HIDE DEF f
<1> DEFINE S == {f}
<1>2. <<f>> \in Seq(S) /\ \A g \in S : g.kind \in Kinds
  BY <1>1
<1>3. StepSeq(<<f>>)
  <2> HIDE DEF S
  <2> QED BY <1>2 DEF StepSeq
<1> QED BY <1>1, <1>3 DEF f

LEMMA FieldSteps ==
  ASSUME NEW key, NEW name, NEW min, NEW max
  PROVE  /\ StepSeq(MapHead(key, max)) /\ StepSeq(Uint(key, name, max))
         /\ StepSeq(Bytes(key, name, min, max)) /\ StepSeq(Exact(key, name, max))
         /\ StepSeq(Hash(key, name)) /\ StepSeq(Id(key, name)) /\ StepSeq(Check(name))
<1>1. {"map", "uint", "bytes", "option", "check"} = Kinds
  BY DEF Kinds
<1>2. \A k, n, a, b : StepSeq(Bytes(k, n, a, b))
  BY <1>1, OneStep DEF Bytes
<1>3. StepSeq(MapHead(key, max)) /\ StepSeq(Uint(key, name, max)) /\ StepSeq(Check(name))
  BY <1>1, OneStep DEF MapHead, Uint, Check
<1> QED BY <1>2, <1>3 DEF Exact, Hash, Id

LEMMA IfSteps ==
  ASSUME NEW name, NEW steps, StepSeq(steps) PROVE StepSeq(If(name, steps))
<1>1. PICK S : steps \in Seq(S) /\ \A f \in S : f.kind \in Kinds
  BY DEF StepSeq
<1> DEFINE g(f) == [f EXCEPT !.when = @ \cup {name}]
           T == {g(f) : f \in S}
<1>2. \A f : g(f).kind = f.kind
  OBVIOUS
<1>3. If(name, steps) = [i \in 1 .. Len(steps) |-> g(steps[i])]
  BY <1>1 DEF If
<1> HIDE DEF g
<1>4. [i \in 1 .. Len(steps) |-> g(steps[i])] \in Seq(T)
  <2>1. \A i \in 1 .. Len(steps) : g(steps[i]) \in T
    BY <1>1
  <2> HIDE DEF T
  <2>2. Len(steps) \in Nat
    BY <1>1
  <2> QED BY <2>1, <2>2
<1>5. \A f \in T : f.kind \in Kinds
  BY <1>1, <1>2
<1> HIDE DEF T
<1> QED BY <1>3, <1>4, <1>5 DEF StepSeq

LEMMA OptionSteps ==
  ASSUME NEW key, NEW name, NEW steps, StepSeq(steps) PROVE StepSeq(Option(key, name, steps))
<1>1. StepSeq(<<Step("option", key, name, 0, 0)>>)
  BY OneStep DEF Kinds
<1> QED BY <1>1, IfSteps, ConcatSteps DEF Option


LEMMA PartSteps ==
  ASSUME NEW key, NEW of
  PROVE  StepSeq(Leaf(key, of)) /\ StepSeq(State(key, of))
<1>1. StepSeq(MapHead(key, 3) \o Uint(0, of \o ".leaf_index", U32))
  BY FieldSteps, ConcatSteps
<1>2. StepSeq(MapHead(key, 3) \o Uint(0, of \o ".leaf_index", U32) \o Exact(1, of \o ".identity", 45))
  BY <1>1, FieldSteps, ConcatSteps
<1>3. StepSeq(Leaf(key, of))
  BY <1>2, FieldSteps, ConcatSteps DEF Leaf
<1>4. StepSeq(MapHead(key, 3) \o Exact(0, of \o ".group_id", 16))
  BY FieldSteps, ConcatSteps
<1>5. StepSeq(MapHead(key, 3) \o Exact(0, of \o ".group_id", 16) \o Uint(1, of \o ".epoch", MaxEpoch))
  BY <1>4, FieldSteps, ConcatSteps
<1>6. StepSeq(State(key, of))
  BY <1>5, FieldSteps, ConcatSteps DEF State
<1> QED BY <1>3, <1>6

LEMMA LabelIsBytes ==
  /\ LabelStep.kind = "bytes" /\ LabelStep.key = NoKey /\ LabelStep.name = "label"
  /\ LabelStep.err # OK /\ LabelStep.when = {}
  /\ StepSeq(<<LabelStep>>)
<1>1. /\ LabelStep.kind = "bytes" /\ LabelStep.key = NoKey /\ LabelStep.name = "label"
      /\ LabelStep.err # OK /\ LabelStep.when = {}
  BY DEF LabelStep, Step, OK
<1> DEFINE S == {LabelStep}
<1>2. <<LabelStep>> \in Seq(S) /\ \A g \in S : g.kind \in Kinds
  BY <1>1 DEF Kinds
<1>3. StepSeq(<<LabelStep>>)
  <2> HIDE DEF S
  <2> QED BY <1>2 DEF StepSeq
<1> QED BY <1>1, <1>3

(* The tables are sequences of steps. *)
LEMMA TableSteps ==
  /\ StepSeq(ProcessBefore) /\ StepSeq(ProcessAfter)
  /\ StepSeq(WelcomeBefore) /\ StepSeq(WelcomeAfter)
  /\ StepSeq(ExternalKeys) /\ StepSeq(InspectKeys) /\ StepSeq(RowFields)
<1>1. StepSeq(ProcessBefore)
  BY FieldSteps, PartSteps, ConcatSteps, Zenon DEF ProcessBefore
<1>2. StepSeq(ProcessAfter)
  BY FieldSteps, PartSteps, ConcatSteps, Zenon DEF ProcessAfter
<1>3. StepSeq(WelcomeBefore)
  BY FieldSteps, PartSteps, OptionSteps, ConcatSteps, Zenon DEF WelcomeBefore
<1>4. StepSeq(WelcomeAfter)
  BY FieldSteps, PartSteps, ConcatSteps, Zenon DEF WelcomeAfter
<1>5. StepSeq(AcceptanceFields)
  BY FieldSteps, PartSteps, ConcatSteps, Zenon DEF AcceptanceFields
<1>6. StepSeq(PendingFields)
  BY FieldSteps, PartSteps, OptionSteps, ConcatSteps, Zenon DEF PendingFields
<1>7. StepSeq(ExternalKeys)
  BY <1>5, <1>6, FieldSteps, OptionSteps, ConcatSteps, Zenon DEF ExternalKeys
<1>8. StepSeq(InspectKeys)
  BY FieldSteps, PartSteps, ConcatSteps, Zenon DEF InspectKeys
<1>9. StepSeq(RowFields)
  <2>1. StepSeq(<<LabelStep>>)
    BY LabelIsBytes
  <2> QED BY <2>1, FieldSteps, OptionSteps, ConcatSteps, Zenon DEF RowFields
<1> QED BY <1>1, <1>2, <1>3, <1>4, <1>7, <1>8, <1>9


(* A table that ends in a check is read without an error only if what was  *)
(* read passes the check.                                                  *)
LEMMA LastCheck ==
  ASSUME NEW in, NEW s, Shape(s), NEW a, StepSeq(a), NEW name,
         ReadFields(in, s, a \o Check(name)).err = OK
  PROVE  Verdict(name, ReadFields(in, s, a \o Check(name)).got) = OK
<1> DEFINE steps == a \o Check(name)
           r == ReadFields(in, s, steps)
           n == Len(a)
           c == Step("check", NoKey, name, 0, 0)
<1>1. n \in Nat /\ Len(steps) = n + 1 /\ steps[n + 1] = c
  BY DEF StepSeq, Check
<1>2. StepSeq(steps)
  BY FieldSteps, ConcatSteps
<1>3. c.kind = "check" /\ c.key = NoKey /\ c.name = name /\ c.when = {}
  BY DEF Step
<1> HIDE DEF n, c, steps
<1>4. PICK f : /\ f[0] = s /\ r = f[Len(steps)]
               /\ \A i \in 1 .. Len(steps) : f[i] = ReadField(in, f[i - 1], steps[i])
  <2>1. Len(steps) \in Nat
    BY <1>1
  <2> QED BY <2>1, ReadingIs
<1>5. \A i \in 0 .. Len(steps) : KeepsRows(s, f[i])
  BY <1>2, <1>4, FieldsKeep
<1> DEFINE t == f[n]
<1>6. Shape(t) /\ r = ReadField(in, t, c)
  <2>1. n + 1 \in 1 .. Len(steps) /\ n \in 0 .. Len(steps) /\ (n + 1) - 1 = n
    BY <1>1
  <2> QED BY <1>1, <1>4, <1>5, <2>1 DEF KeepsRows
<1>7. r.err = OK
  BY DEF steps
<1> HIDE DEF r, t
<1>8. Taken(c, t.got) /\ AfterKey(in, t, c) = t
  BY <1>3 DEF Taken, AfterKey
<1>9. t.err = OK
  BY <1>6, <1>7 DEF ReadField
<1>10. r = [t EXCEPT !.err = Verdict(name, t.got)]
  BY <1>3, <1>6, <1>8, <1>9 DEF ReadField
<1>11. r.err = Verdict(name, r.got)
  BY <1>6, <1>10 DEF Shape
<1> QED BY <1>7, <1>11 DEF r, steps

LEMMA PutField ==
  ASSUME NEW name, NEW value, NEW got
  PROVE  /\ name \in DOMAIN With(got, name, value) /\ With(got, name, value)[name] = value
         /\ \A other \in DOMAIN got :
              /\ other \in DOMAIN With(got, name, value)
              /\ other # name => With(got, name, value)[other] = got[other]
BY DEF With

LEMMA BytesRead ==
  ASSUME NEW in, NEW s, Shape(s), s.err = OK, NEW f, f.kind = "bytes", f.err # OK,
         Taken(f, s.got), ReadField(in, s, f).err = OK
  PROVE  \E b : b.n \in Int /\ ReadField(in, s, f).got = With(s.got, f.name, b)
<1> DEFINE k == AfterKey(in, s, f)
           r == ReadField(in, s, f)
           b == [n |-> in[k.at].n, v |-> in[k.at].v]
<1>1. KeepsAll(s, k)
  BY ExpectKeeps DEF AfterKey, KeepsAll, KeepsRows
<1>2. k.err = OK
  BY DEF ReadField
<1>3. r = ReadBytes(in, k, f)
  BY <1>2 DEF ReadField
<1>4. Shape(k) /\ k.got = s.got
  BY <1>1 DEF KeepsAll, KeepsRows
<1> HIDE DEF k
<1>5. "NoncanonicalEncoding" # OK
  BY DEF OK
<1>6. r.err = OK
  OBVIOUS
<1> HIDE DEF r
<1>7. in[k.at].n \in f.min .. f.max /\ r = Put(k, f.name, b)
  <2>1. \A e : Fail(k, e).err = e
    BY <1>4, FailKeeps
  <2> QED BY <1>3, <1>5, <1>6, <2>1 DEF ReadBytes
<1>8. in[k.at].n \in Int /\ b.n = in[k.at].n
  BY <1>7
<1>9. r.got = With(s.got, f.name, b)
  BY <1>4, <1>7, PutKeeps
<1> QED BY <1>8, <1>9 DEF r


LEMMA Joined ==
  ASSUME NEW S, NEW p \in Seq(S), NEW q \in Seq(S)
  PROVE  /\ p \o q \in Seq(S) /\ Len(p \o q) = Len(p) + Len(q)
         /\ \A i \in 1 .. Len(p) : (p \o q)[i] = p[i]
         /\ \A i \in 1 .. Len(q) : (p \o q)[Len(p) + i] = q[i]
OBVIOUS

LEMMA TwoAndOne ==
  ASSUME NEW S, NEW p \in Seq(S), Len(p) = 2, NEW q \in Seq(S), Len(q) = 1
  PROVE  LET r == p \o q IN
         r \in Seq(S) /\ Len(r) = 3 /\ r[1] = p[1] /\ r[2] = p[2] /\ r[3] = q[1]
<1> DEFINE r == p \o q
<1>1. /\ r \in Seq(S) /\ Len(r) = Len(p) + Len(q)
      /\ \A i \in 1 .. Len(p) : r[i] = p[i]
      /\ \A i \in 1 .. Len(q) : r[Len(p) + i] = q[i]
  BY ONLY Joined
<1> HIDE DEF r
<1>2. 1 \in 1 .. 2 /\ 2 \in 1 .. 2 /\ 1 \in 1 .. 1 /\ 2 + 1 = 3
  OBVIOUS
<1> QED BY <1>1, <1>2 DEF r

LEMMA ThreeAndTwo ==
  ASSUME NEW S, NEW p \in Seq(S), Len(p) = 3, NEW q \in Seq(S), Len(q) = 2
  PROVE  LET r == p \o q IN
         /\ Len(r) = 5 /\ r[1] = p[1] /\ r[2] = p[2] /\ r[3] = p[3]
         /\ r[4] = q[1] /\ r[5] = q[2]
<1> DEFINE r == p \o q
<1>1. /\ Len(r) = Len(p) + Len(q)
      /\ \A i \in 1 .. Len(p) : r[i] = p[i]
      /\ \A i \in 1 .. Len(q) : r[Len(p) + i] = q[i]
  BY ONLY Joined
<1> HIDE DEF r
<1>2. /\ 1 \in 1 .. 3 /\ 2 \in 1 .. 3 /\ 3 \in 1 .. 3 /\ 1 \in 1 .. 2 /\ 2 \in 1 .. 2
      /\ 3 + 1 = 4 /\ 3 + 2 = 5
  OBVIOUS
<1> QED BY <1>1, <1>2 DEF r

(* A row that is read without an error has a size. *)
LEMMA RowRead ==
  ASSUME NEW in, NEW s, Shape(s), s.got = <<>>, ReadFields(in, s, RowFields).err = OK
  PROVE  RowSize(ReadFields(in, s, RowFields).got) \in Int
<1> DEFINE r == ReadFields(in, s, RowFields)
           one == Step("map", NoKey, "", 3, 3)
           two == Step("bytes", 0, "key", 1, KeyMax)
           three == Step("bytes", 1, "value", 0, ValueMax)
           four == Step("option", 2, "has_label", 0, 0)
           five == [LabelStep EXCEPT !.when = @ \cup {"has_label"}]
<1>1. /\ Len(RowFields) = 5
      /\ RowFields[1] = one /\ RowFields[2] = two /\ RowFields[3] = three
      /\ RowFields[4] = four /\ RowFields[5] = five
  <2>1. If("has_label", <<LabelStep>>) = <<five>>
    <3> DEFINE g(x) == [x EXCEPT !.when = @ \cup {"has_label"}]
    <3>1. If("has_label", <<LabelStep>>) = [i \in 1 .. 1 |-> g(<<LabelStep>>[i])]
      BY DEF If
    <3> HIDE DEF g
    <3>2. [i \in 1 .. 1 |-> g(<<LabelStep>>[i])] = <<g(LabelStep)>>
      OBVIOUS
    <3> QED BY <3>1, <3>2 DEF g
  <2> HIDE DEF one, two, three, four, five
  <2> DEFINE S == {one, two, three, four, five}
             head == <<one>> \o <<two>>
             body == head \o <<three>>
             tail == <<four>> \o <<five>>
  <2>2. RowFields = body \o tail
    BY <2>1 DEF RowFields, MapHead, Bytes, Option, one, two, three, four
  <2>3. /\ <<one>> \in Seq(S) /\ <<two>> \in Seq(S) /\ <<three>> \in Seq(S)
        /\ <<four>> \in Seq(S) /\ <<five>> \in Seq(S)
    OBVIOUS
  <2> HIDE DEF S
  <2>4. head \in Seq(S) /\ Len(head) = 2 /\ head[1] = one /\ head[2] = two
    BY <2>3, ConcatProperties
  <2>5. tail \in Seq(S) /\ Len(tail) = 2 /\ tail[1] = four /\ tail[2] = five
    BY <2>3, ConcatProperties
  <2> HIDE DEF head, tail
  <2>6. /\ body \in Seq(S) /\ Len(body) = 3
        /\ body[1] = one /\ body[2] = two /\ body[3] = three
    <3>1. Len(<<three>>) = 1 /\ <<three>>[1] = three
      OBVIOUS
    <3> QED BY <2>3, <2>4, <3>1, TwoAndOne
  <2> HIDE DEF body
  <2> QED BY <2>2, <2>5, <2>6, ThreeAndTwo
<1>2. /\ one.kind = "map" /\ one.key = NoKey /\ one.when = {}
      /\ two.kind = "bytes" /\ two.name = "key" /\ two.err # OK /\ two.when = {}
      /\ three.kind = "bytes" /\ three.name = "value" /\ three.err # OK /\ three.when = {}
      /\ four.kind = "option" /\ four.name = "has_label" /\ four.when = {}
  BY DEF Step, OK
<1>3. /\ five.kind = "bytes" /\ five.key = NoKey /\ five.name = "label" /\ five.err # OK
      /\ five.when = {"has_label"}
  BY DEF LabelStep, Step, OK
<1> HIDE DEF one, two, three, four, five
<1>4. PICK f : /\ f[0] = s /\ r = f[5]
               /\ \A i \in 1 .. 5 : f[i] = ReadField(in, f[i - 1], RowFields[i])
  <2>1. Len(RowFields) = 5
    BY <1>1
  <2> QED BY <2>1, ReadingIs
<1>5. /\ f[1] = ReadField(in, s, one) /\ f[2] = ReadField(in, f[1], two)
      /\ f[3] = ReadField(in, f[2], three) /\ f[4] = ReadField(in, f[3], four)
      /\ r = ReadField(in, f[4], five)
  BY <1>1, <1>4
<1>6. r.err = OK
  OBVIOUS
<1>7. Shape(f[1]) /\ Shape(f[2]) /\ Shape(f[3]) /\ Shape(f[4])
  <2>1. \A i \in 0 .. Len(RowFields) : KeepsRows(s, f[i])
    <3>1. Len(RowFields) = 5
      BY <1>1
    <3> QED BY <1>4, <3>1, TableSteps, FieldsKeep
  <2> QED BY <1>1, <2>1 DEF KeepsRows
<1> DEFINE t1 == f[1]  t2 == f[2]  t3 == f[3]  t4 == f[4]
<1> HIDE DEF r, t1, t2, t3, t4
<1>8. \A t, g : ReadField(in, t, g).err = OK => t.err = OK
  BY DEF ReadField
<1>9. s.err = OK /\ t1.err = OK /\ t2.err = OK /\ t3.err = OK /\ t4.err = OK
  BY <1>5, <1>6, <1>8 DEF t1, t2, t3, t4
<1>10. PICK b : b.n \in Int /\ t2.got = With(t1.got, "key", b)
  <2>1. Taken(two, t1.got)
    BY <1>2 DEF Taken
  <2> QED BY <1>2, <1>5, <1>7, <1>9, <2>1, BytesRead DEF t1, t2
<1>11. PICK c : c.n \in Int /\ t3.got = With(t2.got, "value", c)
  <2>1. Taken(three, t2.got)
    BY <1>2 DEF Taken
  <2> QED BY <1>2, <1>5, <1>7, <1>9, <2>1, BytesRead DEF t2, t3
<1>12. /\ "key" \in DOMAIN t3.got /\ t3.got["key"].n \in Int
       /\ "value" \in DOMAIN t3.got /\ t3.got["value"].n \in Int
  BY <1>10, <1>11, PutField
<1>13. \E v : t4.got = With(t3.got, "has_label", v) /\ v \in BOOLEAN
  <2> DEFINE k == AfterKey(in, t3, four)
  <2>1. KeepsAll(t3, k)
    BY <1>7, ExpectKeeps DEF AfterKey, KeepsAll, KeepsRows, t3
  <2>2. Taken(four, t3.got)
    BY <1>2 DEF Taken
  <2>3. k.err = OK
    BY <1>5, <1>9, <2>2 DEF ReadField, t3, t4
  <2>4. t4 = ReadOption(in, k, four)
    BY <1>2, <1>5, <1>9, <2>2, <2>3 DEF ReadField, t3, t4
  <2>5. Shape(k) /\ k.got = t3.got
    BY <2>1 DEF KeepsAll, KeepsRows
  <2> HIDE DEF k
  <2>6. [k EXCEPT !.got = With(@, "has_label", TRUE)].got = With(t3.got, "has_label", TRUE)
    BY <2>5 DEF Shape
  <2>7. Put(k, "has_label", FALSE).got = With(t3.got, "has_label", FALSE)
    BY <2>5, PutKeeps
  <2> QED BY <1>2, <2>4, <2>6, <2>7 DEF ReadOption
<1>14. /\ t4.got["key"].n \in Int /\ t4.got["value"].n \in Int /\ t4.got["has_label"] \in BOOLEAN
       /\ "key" \in DOMAIN t4.got /\ "value" \in DOMAIN t4.got /\ "has_label" \in DOMAIN t4.got
  <2>1. PICK v : t4.got = With(t3.got, "has_label", v) /\ v \in BOOLEAN
    BY <1>13
  <2> QED BY <1>12, <2>1, PutField
<1>15. CASE ~t4.got["has_label"]
  <2>1. ~Taken(five, t4.got)
    BY <1>3, <1>15 DEF Taken
  <2>2. r = t4
    BY <1>5, <2>1 DEF ReadField, t4
  <2> QED BY <1>14, <1>15, <2>2 DEF RowSize, r
<1>16. CASE t4.got["has_label"]
  <2>1. Taken(five, t4.got)
    BY <1>3, <1>14, <1>16 DEF Taken
  <2>2. PICK d : d.n \in Int /\ r.got = With(t4.got, "label", d)
    BY <1>3, <1>5, <1>6, <1>7, <1>9, <2>1, BytesRead DEF t4
  <2>3. /\ r.got["label"].n \in Int /\ r.got["key"].n \in Int /\ r.got["value"].n \in Int
    BY <1>14, <2>2, PutField
  <2> QED BY <2>3 DEF RowSize, r
<1> QED BY <1>15, <1>16


-----------------------------------------------------------------------------
(* Reading the storage rows *)

IsScan(f, in, first, group, count) ==
  f = [k \in 0 .. count |-> IF k = 0 THEN first ELSE ScanRow(in, f[k - 1], group)]

LEMMA ScanExists ==
  ASSUME NEW in, NEW first, NEW group, NEW count \in Nat PROVE \E f : IsScan(f, in, first, group, count)
<1> DEFINE n == count
           Up(f, j) == \A k \in 0 .. j : f[k] = IF k = 0 THEN first ELSE ScanRow(in, f[k - 1], group)
           S == {j \in Nat : \E f : Up(f, j)}
<1> HIDE DEF n
<1>1. 0 \in S
  <2> DEFINE f == [k \in {0} |-> first]
  <2>1. Up(f, 0)
    OBVIOUS
  <2> HIDE DEF Up, f
  <2> QED BY <2>1
<1>2. ASSUME NEW j \in Nat, j \in S PROVE j + 1 \in S
  <2>1. PICK f : Up(f, j)
    BY <1>2
  <2> DEFINE g == [k \in 0 .. j + 1 |-> IF k <= j THEN f[k] ELSE ScanRow(in, f[j], group)]
  <2>2. ASSUME NEW k \in 0 .. j + 1 PROVE g[k] = IF k = 0 THEN first ELSE ScanRow(in, g[k - 1], group)
    <3>1. CASE k = 0
      BY <2>1, <3>1
    <3>2. CASE k \in 1 .. j
      <4>1. k - 1 \in 0 .. j + 1 /\ k - 1 <= j /\ k \in 0 .. j + 1 /\ k \in 0 .. j
        BY <3>2
      <4>2. g[k] = f[k] /\ g[k - 1] = f[k - 1]
        BY <3>2, <4>1
      <4> QED BY <2>1, <3>2, <4>1, <4>2
    <3>3. CASE k = j + 1
      <4>1. k - 1 = j /\ j \in 0 .. j + 1 /\ ~(k <= j)
        BY <3>3
      <4>2. g[k] = ScanRow(in, f[j], group) /\ g[j] = f[j]
        BY <3>3, <4>1
      <4> QED BY <3>3, <4>1, <4>2
    <3> QED BY <3>1, <3>2, <3>3
  <2>3. Up(g, j + 1)
    <3> HIDE DEF g
    <3> QED BY <2>2
  <2>4. \E h : Up(h, j + 1)
    <3> HIDE DEF Up, g
    <3> QED BY <2>3
  <2> QED BY <2>4
<1>3. Nat \subseteq S
  <2> HIDE DEF S
  <2> QED BY <1>1, <1>2, Induction
<1>4. PICK f : Up(f, n)
  BY <1>3 DEF n
<1> DEFINE h == [k \in 0 .. n |-> f[k]]
<1>5. ASSUME NEW k \in 0 .. n PROVE h[k] = IF k = 0 THEN first ELSE ScanRow(in, h[k - 1], group)
  <2>1. k # 0 => k - 1 \in 0 .. n
    BY DEF n
  <2> QED BY <1>4, <2>1
<1>6. h = [k \in 0 .. n |-> IF k = 0 THEN first ELSE ScanRow(in, h[k - 1], group)]
  <2>1. h = [k \in 0 .. n |-> h[k]]
    OBVIOUS
  <2> HIDE DEF h
  <2> QED BY <1>5, <2>1
<1> QED
  <2> HIDE DEF h
  <2> QED BY <1>6 DEF IsScan, n

\* The rows read so far are within the aggregate bound.
Bounded(s) == Shape(s) /\ Sized(s.rows) /\ TotalSize(s.rows) <= StorageMax

(* The scan adds a row only within the aggregate bound. *)
LEMMA RowKeepsBound ==
  ASSUME NEW in, NEW s, Bounded(s), NEW group
  PROVE  Bounded(ScanRow(in, s, group)) /\ ScanRow(in, s, group).got = s.got
<1> DEFINE r == ReadFields(in, [s EXCEPT !.got = <<>>], RowFields)
           rows == Append(s.rows, r.got)
           t == [s EXCEPT !.at = r.at, !.rows = rows]
<1>1. Shape([s EXCEPT !.got = <<>>]) /\ [s EXCEPT !.got = <<>>].got = <<>>
  BY DEF Bounded, Shape
<1>2. r.err = OK => RowSize(r.got) \in Int
  BY <1>1, RowRead
<1>3. \A e : Bounded(Fail(s, e)) /\ Fail(s, e).got = s.got
  BY FailKeeps DEF Bounded, KeepsAll, KeepsRows
<1>4. \/ ScanRow(in, s, group) = s
      \/ \E e : ScanRow(in, s, group) = Fail(s, e)
      \/ r.err = OK /\ WithinAggregate(rows) /\ ScanRow(in, s, group) = t
  BY DEF ScanRow
<1> HIDE DEF r
<1>5. r.err = OK /\ WithinAggregate(rows) => Sized(rows) /\ TotalSize(rows) <= StorageMax
  BY <1>2, SizeAppend DEF WithinAggregate, Bounded
<1>6. Shape(t) /\ t.rows = rows /\ t.got = s.got
  BY DEF Bounded, Shape
<1> HIDE DEF rows, t
<1>7. CASE r.err = OK /\ WithinAggregate(rows) /\ ScanRow(in, s, group) = t
  BY <1>5, <1>6, <1>7 DEF Bounded
<1> QED BY <1>3, <1>4, <1>7

LEMMA CopyKeepsBound ==
  ASSUME NEW s, Bounded(s)
  PROVE  /\ Shape(CopyRows(s)) /\ CopyRows(s).got = s.got
         /\ TotalSize(CopyRows(s).rows) <= StorageMax
<1> DEFINE copied == [s EXCEPT !.copied = Len(s.rows), !.rows = ByKey(s.rows)]
<1>1. Shape(copied) /\ copied.got = s.got /\ copied.rows = ByKey(s.rows)
  BY DEF Bounded, Shape
<1>2. TotalSize(copied.rows) <= StorageMax
  BY <1>1, SortedSize DEF Bounded
<1>3. CopyRows(s) \in {s, copied} \/ \E e : CopyRows(s) = Fail(copied, e)
  BY DEF CopyRows
<1> HIDE DEF copied
<1>4. \A e : Shape(Fail(copied, e)) /\ Fail(copied, e).got = copied.got /\ Fail(copied, e).rows = copied.rows
  BY <1>1, FailKeeps DEF KeepsAll, KeepsRows
<1> QED BY <1>1, <1>2, <1>3, <1>4 DEF Bounded

LEMMA RowsHeadKeeps ==
  ASSUME NEW in, NEW s, Shape(s)
  PROVE  KeepsAll(s, RowsHead(in, s))
<1> DEFINE format == Expect(in, Expect(in, s, "map", 2), "uint", 0)
           next == [format EXCEPT !.at = @ + 1]
           count == Expect(in, next, "uint", 1)
           first == [count EXCEPT !.at = @ + 1]
           head == RowsHead(in, s)
<1>1. KeepsAll(s, format)
  <2>1. KeepsAll(s, Expect(in, s, "map", 2))
    BY ExpectKeeps
  <2>2. KeepsAll(Expect(in, s, "map", 2), format)
    BY <2>1, ExpectKeeps DEF KeepsAll, KeepsRows
  <2> QED BY <2>1, <2>2 DEF KeepsAll, KeepsRows
<1>2. KeepsAll(s, next)
  BY <1>1 DEF KeepsAll, KeepsRows, Shape
<1>3. KeepsAll(s, count)
  <2> HIDE DEF next
  <2>1. KeepsAll(next, count)
    BY <1>2, ExpectKeeps DEF KeepsAll, KeepsRows
  <2> QED BY <1>2, <2>1 DEF KeepsAll, KeepsRows
<1>4. KeepsAll(s, first)
  BY <1>3 DEF KeepsAll, KeepsRows, Shape
<1>5. head \in {format, count, first} \/ \E e : head = Fail(s, e)
  BY Zenon DEF RowsHead
<1> HIDE DEF format, next, count, first, head
<1>6. \A e : KeepsAll(s, Fail(s, e))
  BY FailKeeps
<1>7. KeepsAll(s, head)
  BY <1>1, <1>3, <1>4, <1>5, <1>6
<1> QED BY <1>7 DEF head

LEMMA ReadRowsBound ==
  ASSUME NEW in, NEW s, Shape(s), s.rows = <<>>, NEW group
  PROVE  /\ Shape(ReadRows(in, s, group)) /\ ReadRows(in, s, group).got = s.got
         /\ TotalSize(ReadRows(in, s, group).rows) <= StorageMax
<1> DEFINE first == RowsHead(in, s)
           rows == in[first.at - 1].n
           scan == CHOOSE g : IsScan(g, in, first, group, rows)
           result == ReadRows(in, s, group)
<1>1. KeepsAll(s, first)
  BY RowsHeadKeeps
<1>2. \/ result = first \/ \E e : result = Fail(s, e)
      \/ rows \in 0 .. MaxRows /\ result = CopyRows(scan[rows])
  BY Zenon DEF ReadRows, IsScan
<1> HIDE DEF first, rows, scan, result
<1>3. \A t : KeepsAll(s, t) => Bounded(t) /\ t.got = s.got
  BY SizeEmpty DEF Bounded, KeepsAll, KeepsRows, StorageMax, KiB
<1>4. rows \in 0 .. MaxRows => Bounded(scan[rows]) /\ scan[rows].got = s.got
  <2> SUFFICES ASSUME rows \in 0 .. MaxRows PROVE Bounded(scan[rows]) /\ scan[rows].got = s.got
    OBVIOUS
  <2>1. rows \in Nat
    BY FrameConstants
  <2>2. IsScan(scan, in, first, group, rows)
    BY <2>1, ScanExists DEF scan
  <2>3. \A k \in 0 .. rows : scan[k] = IF k = 0 THEN first ELSE ScanRow(in, scan[k - 1], group)
    BY <2>2 DEF IsScan
  <2> DEFINE S == {j \in Nat : j <= rows => Bounded(scan[j]) /\ scan[j].got = s.got}
  <2>4. 0 \in S
    BY <1>1, <1>3, <2>1, <2>3
  <2>5. ASSUME NEW j \in Nat, j \in S PROVE j + 1 \in S
    <3> SUFFICES ASSUME j + 1 <= rows PROVE Bounded(scan[j + 1]) /\ scan[j + 1].got = s.got
      OBVIOUS
    <3>1. j + 1 \in 0 .. rows /\ j + 1 # 0 /\ (j + 1) - 1 = j /\ j <= rows
      BY <2>1
    <3>2. scan[j + 1] = ScanRow(in, scan[j], group)
      BY <2>3, <3>1
    <3> QED BY <2>5, <3>1, <3>2, RowKeepsBound
  <2>6. Nat \subseteq S
    <3> HIDE DEF S
    <3> QED BY <2>4, <2>5, Induction
  <2> QED BY <2>1, <2>6
<1> DEFINE Kept(t) == Shape(t) /\ t.got = s.got /\ TotalSize(t.rows) <= StorageMax
<1>5. rows \in 0 .. MaxRows => Kept(CopyRows(scan[rows]))
  BY <1>4, CopyKeepsBound DEF Bounded
<1>6. Kept(first) /\ \A e : Kept(Fail(s, e))
  BY <1>1, <1>3, FailKeeps DEF Bounded
<1>7. Kept(result)
  <2> HIDE DEF Kept
  <2> QED BY <1>2, <1>5, <1>6
<1> QED BY <1>7 DEF result


-----------------------------------------------------------------------------
(* Reading a request *)

(* The rows are within the bound; if nothing follows them, they were       *)
(* copied after what precedes them was read without an error.              *)
LEMMA RequestReads ==
  ASSUME NEW in, NEW request, StepSeq(request.before), StepSeq(request.after)
  PROVE  LET r == ReadRequest(in, request)
             before == ReadFields(in, Unread, request.before)
         IN /\ Shape(r) /\ TotalSize(r.rows) <= StorageMax
            /\ r.copied > 0 /\ request.after = <<>> => before.err = OK /\ r.got = before.got
<1> DEFINE before == ReadFields(in, Unread, request.before)
           key == Expect(in, before, "uint", request.rows)
           rows == IF key.err # OK THEN key ELSE ReadRows(in, key, GroupOf(before.got))
           r == ReadRequest(in, request)
<1>1. r = ReadFields(in, rows, request.after)
  BY DEF ReadRequest
<1>2. Shape(Unread) /\ Unread.rows = <<>> /\ Unread.copied = 0
  BY DEF Unread, Shape
<1>3. Shape(before) /\ before.rows = <<>> /\ before.copied = 0
  BY <1>2, ReadFieldsKeep DEF KeepsRows
<1> HIDE DEF before
<1>4. /\ Shape(key) /\ key.rows = <<>> /\ key.copied = 0 /\ key.got = before.got
      /\ key.err = OK => before.err = OK
  BY <1>3, ExpectKeeps DEF KeepsAll, KeepsRows
<1> HIDE DEF key
<1>5. TotalSize(<<>>) <= StorageMax
  BY SizeEmpty DEF StorageMax, KiB
<1>6. /\ Shape(rows) /\ rows.got = before.got /\ TotalSize(rows.rows) <= StorageMax
      /\ rows.copied > 0 => before.err = OK
  BY <1>4, <1>5, ReadRowsBound
<1> HIDE DEF rows
<1>7. KeepsRows(rows, r)
  BY <1>1, <1>6, ReadFieldsKeep
<1>8. request.after = <<>> => r = rows
  <2> SUFFICES ASSUME request.after = <<>> PROVE r = rows
    OBVIOUS
  <2>1. Len(<<>>) = 0
    OBVIOUS
  <2>2. r = ReadFields(in, rows, <<>>)
    BY <1>1
  <2> HIDE DEF r
  <2> QED BY <2>1, <2>2, ReadingIs
<1> HIDE DEF r
<1>9. /\ Shape(r) /\ TotalSize(r.rows) <= StorageMax
      /\ r.copied > 0 /\ request.after = <<>> => before.err = OK /\ r.got = before.got
  BY <1>6, <1>7, <1>8 DEF KeepsRows
<1> QED BY <1>9 DEF r, before

LEMMA FieldsTable ==
  /\ Fields(1) = Request(ProcessBefore, 8, ProcessAfter)
  /\ Fields(2) = Request(ProcessBefore, 8, ProcessAfter)
  /\ Fields(3) = Request(WelcomeBefore, 7, WelcomeAfter)
  /\ Fields(4) = ExternalFields
  /\ Fields(5) = InspectFields
<1>1. /\ 1 \in {1, 2} /\ 1 # 3 /\ 1 # 4 /\ 1 # 5 /\ 2 \in {1, 2} /\ 2 # 3 /\ 2 # 4 /\ 2 # 5
      /\ 3 \notin {1, 2} /\ 3 # 4 /\ 3 # 5 /\ 4 \notin {1, 2} /\ 4 # 3 /\ 4 # 5
      /\ 5 \notin {1, 2} /\ 5 # 3 /\ 5 # 4
  OBVIOUS
<1>2. Fields(1) = Request(ProcessBefore, 8, ProcessAfter)
  BY Zenon, <1>1 DEF Fields
<1>3. Fields(2) = Request(ProcessBefore, 8, ProcessAfter)
  BY Zenon, <1>1 DEF Fields
<1>4. Fields(3) = Request(WelcomeBefore, 7, WelcomeAfter)
  BY Zenon, <1>1 DEF Fields
<1>5. Fields(4) = ExternalFields
  BY Zenon, <1>1 DEF Fields
<1>6. Fields(5) = InspectFields
  BY Zenon, <1>1 DEF Fields
<1> QED BY <1>2, <1>3, <1>4, <1>5, <1>6

LEMMA RequestSteps ==
  ASSUME NEW op \in Ops PROVE StepSeq(Fields(op).before) /\ StepSeq(Fields(op).after)
<1>1. StepSeq(<<>>)
  <2> DEFINE S == {}
  <2>1. <<>> \in Seq(S) /\ \A f \in S : f.kind \in Kinds
    OBVIOUS
  <2> HIDE DEF S
  <2> QED BY <2>1 DEF StepSeq
<1>2. StepSeq(ExternalKeys \o Check("external")) /\ StepSeq(InspectKeys \o Check("inspection"))
  BY TableSteps, FieldSteps, ConcatSteps
<1>3. \A a, k, b : Request(a, k, b).before = a /\ Request(a, k, b).after = b
  BY DEF Request
<1>4. op \in {1, 2, 3, 4, 5}
  BY DEF Ops
<1> QED BY <1>1, <1>2, <1>3, <1>4, FieldsTable, TableSteps DEF ExternalFields, InspectFields

LEMMA CheckedTables ==
  /\ Fields(4).before = ExternalKeys \o Check("external") /\ Fields(4).after = <<>>
  /\ Fields(5).before = InspectKeys \o Check("inspection") /\ Fields(5).after = <<>>
<1>1. \A a, k, b : Request(a, k, b).before = a /\ Request(a, k, b).after = b
  BY DEF Request
<1>2. /\ ExternalFields.before = ExternalKeys \o Check("external")
      /\ ExternalFields.after = <<>>
  BY <1>1 DEF ExternalFields
<1>3. /\ InspectFields.before = InspectKeys \o Check("inspection")
      /\ InspectFields.after = <<>>
  BY <1>1 DEF InspectFields
<1>4. Fields(4) = ExternalFields /\ Fields(5) = InspectFields
  BY FieldsTable
<1> QED BY <1>2, <1>3, <1>4

\* The rows copied are within the bound, and only on a valid authority.
Authorised(d, op) ==
  /\ TotalSize(d.rows) <= StorageMax
  /\ d.copied > 0 /\ op = 4 => ExternalConsistent(d.got) = OK
  /\ d.copied > 0 /\ op = 5 => InspectionConsistent(d.got) = OK

LEMMA CheckedReads ==
  ASSUME NEW in, NEW op \in Ops
  PROVE  Shape(ReadRequest(in, Fields(op))) /\ Authorised(ReadRequest(in, Fields(op)), op)
<1> DEFINE r == ReadRequest(in, Fields(op))
           before == ReadFields(in, Unread, Fields(op).before)
<1>1. /\ Shape(r) /\ TotalSize(r.rows) <= StorageMax
      /\ r.copied > 0 /\ Fields(op).after = <<>> => before.err = OK /\ r.got = before.got
  BY RequestSteps, RequestReads
<1>2. /\ op = 4 => /\ Fields(op).before = ExternalKeys \o Check("external")
                   /\ Fields(op).after = <<>>
      /\ op = 5 => /\ Fields(op).before = InspectKeys \o Check("inspection")
                   /\ Fields(op).after = <<>>
  BY CheckedTables
<1>3. Shape(Unread)
  BY DEF Unread, Shape
<1>4. op = 4 /\ before.err = OK => Verdict("external", before.got) = OK
  BY <1>2, <1>3, TableSteps, LastCheck
<1>5. op = 5 /\ before.err = OK => Verdict("inspection", before.got) = OK
  BY <1>2, <1>3, TableSteps, LastCheck
<1>6. \A g : /\ Verdict("external", g) = ExternalConsistent(g)
             /\ Verdict("inspection", g) = InspectionConsistent(g)
  BY Zenon DEF Verdict
<1> HIDE DEF r, before
<1>7. Authorised(r, op)
  BY <1>1, <1>2, <1>4, <1>5, <1>6 DEF Authorised
<1> QED BY <1>1, <1>7 DEF r

(* Whatever the frame, the rows decoded from it are authorised. *)
LEMMA DecodeAuthorises ==
  ASSUME NEW f, NEW version PROVE Authorised(Decode(f, version), f.op)
<1> DEFINE d == Decode(f, version)
           s == ReadRequest(f.payload, Fields(f.op))
<1>1. \A t, e : Shape(t) => /\ Fail(t, e).rows = t.rows /\ Fail(t, e).copied = t.copied
                            /\ Fail(t, e).got = t.got
  BY FailKeeps DEF KeepsAll, KeepsRows
<1>2. Shape(Unread) /\ Unread.rows = <<>> /\ Unread.copied = 0
  BY DEF Unread, Shape
<1>3. TotalSize(<<>>) <= StorageMax
  BY SizeEmpty DEF StorageMax, KiB
<1>4. \A e : Authorised(Fail(Unread, e), f.op)
  BY <1>1, <1>2, <1>3 DEF Authorised
<1>5. HeaderVerdict(f, version) = OK => f.op \in Ops
  BY DEF HeaderVerdict, Ops, OK
<1>6. \/ \E e : d = Fail(Unread, e)
      \/ HeaderVerdict(f, version) = OK /\ (d = s \/ \E e : d = Fail(s, e))
  BY DEF Decode
<1>7. f.op \in Ops => Shape(s) /\ Authorised(s, f.op)
  BY CheckedReads
<1> HIDE DEF d, s
<1>8. f.op \in Ops => \A e : Authorised(Fail(s, e), f.op)
  BY <1>1, <1>7 DEF Authorised
<1>9. Authorised(d, f.op)
  BY <1>4, <1>5, <1>6, <1>7, <1>8
<1> QED BY <1>9 DEF d

(* What validate and validate_inspection establish when they succeed. *)
LEMMA AuthorityFacts ==
  ASSUME NEW r
  PROVE  /\ ExternalConsistent(r) = OK =>
              /\ r["previous.group_id"] = r["group_id"]
              /\ r["resulting.epoch"] = r["previous.epoch"] + 1
              /\ r["commit_hash"].v = HashOf(r["commit"])
              /\ r["aad_hash"].v = HashOf(r["aad"])
              /\ r["has_pending"] => /\ r["pending.previous.digest"] = r["previous.digest"]
                                     /\ r["pending.incarnation"] = r["incarnation"]
         /\ InspectionConsistent(r) = OK =>
              r["current.group_id"] = r["group_id"] /\ r["retention"] \in Retentions
BY DEF ExternalConsistent, InspectionConsistent, OK

-----------------------------------------------------------------------------
(* What a call has decoded belongs to the frame it holds. *)
Consistent ==
  /\ reply = NoReply \/ frame = NoCall => decoded = Undecoded
  /\ decoded # Undecoded => Authorised(decoded, frame.op)

LEMMA ConsistentEnough == Consistent => RowsAfterAuthority
<1>1. Undecoded.copied = 0
  BY DEF Undecoded, Unread
<1> SUFFICES ASSUME Consistent, decoded.copied > 0 PROVE RowsAfterAuthority
  BY DEF RowsAfterAuthority
<1>2. Authorised(decoded, frame.op)
  BY <1>1 DEF Consistent
<1> QED BY <1>2, AuthorityFacts DEF RowsAfterAuthority, Authorised

LEMMA CallInitConsistent == CallInit => Consistent
BY DEF CallInit, Consistent

LEMMA CallStepConsistent == Consistent /\ [CallNext]_callVars => Consistent'
<1> SUFFICES ASSUME Consistent, [CallNext]_callVars PROVE Consistent'
  OBVIOUS
<1>1. CASE UNCHANGED callVars
  BY <1>1 DEF callVars, Consistent
<1>2. ASSUME NEW q, Present(q) PROVE Consistent'
  BY <1>2 DEF Present, Consistent
<1>3. ASSUME NEW n, PresentNull(n) PROVE Consistent'
  BY <1>3 DEF PresentNull, Consistent
<1>4. CASE Slip
  BY <1>4 DEF Slip, Consistent
<1>5. CASE AppleRefuses
  BY <1>5 DEF AppleRefuses, Consistent
<1>6. CASE AndroidRefuses
  BY <1>6 DEF AndroidRefuses, Consistent
<1>7. IsFrame => frame # NoCall
  BY DEF IsFrame, NoCall
<1>8. \A d : d = Decode(frame, entry.version) => Authorised(d, frame.op)
  BY DecodeAuthorises
<1>9. CASE Refuse
  <2>1. reply' # NoReply
    BY <1>9, RepliesDiffer DEF Refuse, Returned
  <2>2. Authorised(decoded', frame.op) /\ frame' = frame /\ frame # NoCall
    BY <1>7, <1>8, <1>9 DEF Refuse
  <2> QED BY <2>1, <2>2 DEF Consistent, Authorised
<1>10. CASE Execute
  <2>1. reply' # NoReply
    <3>1. PICK a \in Answers : reply' \in Returned(Answer(frame.op, a))
      BY <1>10 DEF Execute
    <3> QED BY <3>1, AnswerDelivered, RepliesDiffer DEF Returned
  <2>2. Authorised(decoded', frame.op) /\ frame' = frame /\ frame # NoCall
    BY <1>7, <1>8, <1>10 DEF Execute
  <2> QED BY <2>1, <2>2 DEF Consistent, Authorised
<1>11. CASE Return
  BY <1>11 DEF Return, Consistent
<1> QED BY <1>1, <1>2, <1>3, <1>4, <1>5, <1>6, <1>9, <1>10, <1>11 DEF CallNext

(* Secret rows are copied out of a frame only within the aggregate bound,  *)
(* and for an external Commit or an inspection only after the public       *)
(* authority in it was checked, for every bound and every frame.           *)
THEOREM RowsAlwaysAfterAuthority == CallSpec => []RowsAfterAuthority
<1>1. CallSpec => []Consistent
  BY CallInitConsistent, CallStepConsistent, PTL DEF CallSpec
<1> QED BY <1>1, ConsistentEnough, PTL
=============================================================================
