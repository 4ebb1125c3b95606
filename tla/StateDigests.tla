---------------------------- MODULE StateDigests ----------------------------
(***************************************************************************)
(* The two digests by which a caller pins the state of a group, as byte    *)
(* strings: roster_digest names the roster a service authorised, and       *)
(* group_state_digest_from_entries the rows the caller stored.  SHA-256 is *)
(* taken for injective, so a digest is its preimage; what is modelled is   *)
(* the framing, on which it depends whether two states share a preimage.   *)
(* A four- or eight-byte integer is one symbol.  Installation compares     *)
(* rows and rosters as such; MCInstallation checks that the digests do too.*)
(***************************************************************************)
EXTENDS Integers, Sequences, SequencesExt

(* mls_roster_digest_v1 and roster_from_group refuse other leaf lists. *)
CanonicalLeaves(leaves) ==
    \A i, j \in DOMAIN leaves : i < j =>
        /\ leaves[i].index < leaves[j].index
        /\ leaves[i].identity # leaves[j].identity
        /\ leaves[i].key # leaves[j].key

Prefixed(bytes) == <<Len(bytes)>> \o bytes

RosterDomain == 101
GroupStateDomain == 102

RosterDigest(r) ==
    <<RosterDomain>> \o Prefixed(r.group) \o <<r.epoch>> \o <<Len(r.leaves)>>
        \o FlattenSeq([i \in DOMAIN r.leaves |->
              <<r.leaves[i].index>> \o Prefixed(r.leaves[i].identity)
                                    \o Prefixed(r.leaves[i].key)])

(* Byte order of keys. *)
Before(a, b) ==
    \E n \in 0 .. Len(a) :
        /\ n <= Len(b) /\ SubSeq(a, 1, n) = SubSeq(b, 1, n)
        /\ \/ n = Len(a) /\ n < Len(b)
           \/ n < Len(a) /\ n < Len(b) /\ a[n + 1] < b[n + 1]

(* The rows of the group: those whose key has no installation-global label. *)
OfGroup(entries, globals) == SelectSeq(entries, LAMBDA row : row.key \notin globals)

(* group_state_digest_from_entries at storage format 1. *)
GroupStateDigest(group, entries, globals) ==
    LET rows == SortSeq(OfGroup(entries, globals), LAMBDA a, b : Before(a.key, b.key))
    IN  <<GroupStateDomain, 1>> \o Prefixed(group) \o <<Len(rows)>>
            \o FlattenSeq([i \in DOMAIN rows |-> Prefixed(rows[i].key) \o Prefixed(rows[i].value)])
=============================================================================
