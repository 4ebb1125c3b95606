------------------------------- MODULE RowStore -------------------------------
(***************************************************************************)
(* What the storage boundary promises: every operation acts at once on the *)
(* rows as they are, on those of its own group and the installation's      *)
(* only, and deleting a group leaves nothing of it.                        *)
(***************************************************************************)
EXTENDS StorageRows

VARIABLES
    db,         \* the durable rows
    published   \* KeyPackages ever created: a new one never repeats an old one

Init == db = <<>> /\ published = {}

\* An application issues a group id once, and is welcomed to a group it has no
\* rows of; a KeyPackage's key is fresh.
MayRun(o) ==
    /\ o.op \in {"CreateGroup", "Join"} => \A k \in DOMAIN db : db[k].group # o.group
    /\ o.op = "CreateKeyPackage" => o.key \notin published

\* The rows after o ran on them.
After(o) ==
    LET rows  == Run(o, Snapshot(db, o.group))
        other == DOMAIN db \ EntriesFor(db, o.group)
        kept  == {k \in DOMAIN rows : ~(o.op = "DeleteGroup" /\ k.group = o.group)}
    IN  [k \in other \cup kept |->
            IF k \in kept THEN [value |-> rows[k], group |-> k.group] ELSE db[k]]

Perform(o) ==
    /\ MayRun(o)
    /\ Succeeds(o, Snapshot(db, o.group))
    /\ db' = After(o)
    /\ published' = IF o.op = "CreateKeyPackage" THEN published \cup {o.key} ELSE published

Next == \E o \in Operation : Perform(o)

Spec == Init /\ [][Next]_<<db, published>>

=============================================================================
