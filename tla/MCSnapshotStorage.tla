-------------------------- MODULE MCSnapshotStorage --------------------------
(* Two groups, two workers; the epochs and leaves of the two Welcomes share *)
(* the encoding 1 1 1.                                                      *)
EXTENDS SnapshotStorage

MCEntry == {<<1, 11>>, <<11, 1>>}
MCEpoch == {0, 1, 11, 12}
=============================================================================
