--------------------------- MODULE SnapshotStorage ---------------------------
(***************************************************************************)
(* Calls that run on a snapshot of the rows while other calls are stored:  *)
(* provider_from_entries, the operation on the working copy,               *)
(* batch_from_provider, and the caller's transaction                       *)
(* (rust/src/api/storage.rs).                                              *)
(*                                                                         *)
(* Callers serialize calls by two fences                                   *)
(* (KURTUBA_WMF0_NATIVE_AMBASSADOR_PROOF.md): one per group, and one of    *)
(* the installation for Welcomes and KeyPackages.  A call for a group      *)
(* still reads installation rows that another call may change meanwhile.   *)
(***************************************************************************)
EXTENDS StorageRows

CONSTANT Worker     \* threads of execution that call operations

VARIABLES
    db,         \* the durable rows
    published,  \* KeyPackages ever created
    calls       \* of each worker: nothing, or the operation and its snapshot

vars == <<db, published, calls>>

RS == INSTANCE RowStore

InProgress == UNION {calls[w] : w \in Worker}

Init == RS!Init /\ calls = [w \in Worker |-> {}]

UsesInstallation(o) == o.op \in {"CreateKeyPackage", "Join"}

\* The fences o needs are free.
Fenced(o) ==
    \A c \in InProgress :
        /\ o.group # Global => c.o.group # o.group
        /\ ~(UsesInstallation(c.o) /\ UsesInstallation(o))

\* provider_from_entries on one consistent snapshot; the call goes on only if
\* every entry is valid and the operation succeeds.
Open(w, o) ==
    /\ calls[w] = {}
    /\ Fenced(o)
    /\ RS!MayRun(o)
    /\ \A k \in EntriesFor(db, o.group) : ValidEntry(k, db[k].group, o.group)
    /\ Succeeds(o, Snapshot(db, o.group))
    /\ calls' = [calls EXCEPT ![w] = {[o |-> o, initial |-> Snapshot(db, o.group)]}]
    /\ UNCHANGED <<db, published>>

\* The caller stores the returned batch.
Store(w) ==
    \E c \in calls[w] :
        /\ db' = ApplyBatch(db, Batch(c.o, c.initial, Run(c.o, c.initial)))
        /\ published' = IF c.o.op = "CreateKeyPackage" THEN published \cup {c.o.key} ELSE published
        /\ calls' = [calls EXCEPT ![w] = {}]

\* The transaction fails, or the process dies.
Discard(w) ==
    /\ calls[w] # {}
    /\ calls' = [calls EXCEPT ![w] = {}]
    /\ UNCHANGED <<db, published>>

Next ==
    \E w \in Worker :
        \/ \E o \in Operation : Open(w, o)
        \/ Store(w)
        \/ Discard(w)

Spec == Init /\ [][Next]_vars

-----------------------------------------------------------------------------
\* A batch computed from a snapshot and stored later, after batches of other
\* groups and of the installation, does what the operation would do on the rows
\* as they are then: it loses no row, brings none back, and touches no other group.
ImplementsRowStore == RS!Spec

\* The snapshot a caller reads from rows it stored is accepted by
\* validate_storage_entries, for every group: scope and label always agree.
SnapshotsAccepted ==
    \A g \in Group : \A k \in EntriesFor(db, g) : ValidEntry(k, db[k].group, g)

\* The list of queued references and the rows of queued proposals agree, so that
\* clearing the queue, which follows the list, leaves no proposal behind.
QueueAgrees ==
    \A g \in Group :
        LET rows == Snapshot(db, g)
        IN  {ref \in ProposalRef : ProposalKey(g, ref) \in DOMAIN rows} = Range(QueuedRefs(rows, g))

\* A group has one row of epoch key pairs, although distinct epochs and leaves
\* share encodings; while the installation is a member it holds the key pairs of
\* its live epoch and leaf.
EpochKeysCurrent ==
    \A g \in Group :
        LET rows == Snapshot(db, g)
        IN  /\ Cardinality({k \in DOMAIN rows : k.label = "EpochKeyPairs" /\ k.group = g}) <= 1
            /\ IsActive(rows, g) =>
                LET key == EpochKey(g, LiveEpoch(rows, g), LiveLeaf(rows, g))
                IN  key \in DOMAIN rows /\ rows[key] = <<LiveEpoch(rows, g), LiveLeaf(rows, g)>>

\* No row of a group outlives it: not the package's metadata, which deletion
\* never loads, nor the key pairs a removed member kept under an older epoch.
NoOrphans ==
    \A k \in DOMAIN db :
        db[k].group \in Group => RowKey("GroupState", db[k].group) \in DOMAIN db

=============================================================================
