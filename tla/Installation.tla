---------------------------- MODULE Installation ----------------------------
(***************************************************************************)
(* One installation whose foreground and native receive extension share    *)
(* the durable rows of a group, with no lock that lasts longer than one    *)
(* read or one transaction.                                                *)
(*                                                                         *)
(* A worker reads the rows, then takes the context its caller keeps beside *)
(* them (digest and roster) and calls one operation, then stores the batch *)
(* in one transaction.  Other workers may store theirs between any two     *)
(* of these steps, and a worker may crash after any of them.  Two checks   *)
(* stand between that and a rewound ratchet: runtime::load refuses rows    *)
(* that do not hash to the context's digest, and the caller's transaction  *)
(* refuses a batch whose context is no longer current.  create and join    *)
(* take no digest: for them the lifecycle fence of the same read decides.  *)
(***************************************************************************)
EXTENDS GroupLifecycle

CONSTANTS
    Foreground,     \* workers that run the Dart API
    Extension       \* workers that run the native receive frames

VARIABLES
    lifecycle,      \* the caller's lifecycle fence: groups entered or deleted so far
    work            \* where each worker stands

instVars == <<db, keyPackages, joined, reached, handed, sealed, lifecycle, work>>

Worker == Foreground \cup Extension

Idle == [at |-> "idle"]

HasRead(rows, stored, life) ==
    [at |-> "read", rows |-> rows, stored |-> stored, lifecycle |-> life]

\* A call that returned outcome o on those rows, under that context.
HasBatch(rows, digest, life, o) ==
    [at |-> "batch", rows |-> rows, digest |-> digest, lifecycle |-> life, outcome |-> o]

InstInit ==
    /\ Init
    /\ lifecycle = 0
    /\ work = [w \in Worker |-> Idle]

\* One consistent read of the installation-global rows, the group's rows and the
\* lifecycle fence.
Read(w) ==
    /\ work[w].at = "idle"
    /\ work' = [work EXCEPT ![w] = HasRead(db, keyPackages, lifecycle)]
    /\ UNCHANGED <<vars, lifecycle>>

\* Mutant: the rows are not compared with the digest.
BaseNotCompared(w) == TRUE

\* runtime::load compares the digest of the rows with the digest the caller
\* holds, which it reads from its own journal only now.
BaseCurrent(w) == work[w].rows = db

\* A call returns one of those outcomes.
Return(w, outcomes) ==
    /\ work[w].at = "read"
    /\ \E o \in outcomes :
        work' = [work EXCEPT ![w] = HasBatch(work[w].rows, db, work[w].lifecycle, o)]
    /\ UNCHANGED <<vars, lifecycle>>

\* A call that passes a MlsGroupOperationContext.
Call(w, outcomes) == BaseCurrent(w) /\ Return(w, outcomes)

CallSend(w) == work[w].at = "read" /\ Call(w, Send(work[w].rows))
CallPrepare(w) == work[w].at = "read" /\ Call(w, Prepare(work[w].rows))
CallMerge(w) == work[w].at = "read" /\ Call(w, Merge(work[w].rows))
CallDiscard(w) == work[w].at = "read" /\ Call(w, Discard(work[w].rows))
CallProcessApplication(w) == work[w].at = "read" /\ Call(w, ReceiveApplication(work[w].rows))
CallProcessProposal(w) == work[w].at = "read" /\ Call(w, ReceiveProposal(work[w].rows))
CallProcessCommit(w) == work[w].at = "read" /\ Call(w, ReceiveCommit(work[w].rows))
CallProcessExternal(w) == work[w].at = "read" /\ Call(w, ReceiveExternal(work[w].rows))

\* create, join and delete take no context: no digest is compared, and create
\* and join are not even shown the group's rows.  That the group has none is the
\* caller's knowledge, from its read and from its journal.
CallCreate(w) ==
    /\ work[w].at = "read"
    /\ work[w].rows = {} /\ db = {} /\ reached = 0
    /\ Return(w, Create)

CallJoin(w) ==
    /\ work[w].at = "read"
    /\ work[w].rows = {} /\ db = {}
    /\ Return(w, {o \in Join(work[w].stored) :
                    \A v \in o.joined : v.epoch >= reached \/ v \in joined})

CallDelete(w) == work[w].at = "read" /\ Return(w, Delete(work[w].rows))

\* The rows of d after the batch that turned old into new: into_updates lists
\* only the rows the call changed, and the caller writes only those.
BatchApplied(d, old, new) ==
    IF new = {} \/ old = {} \/ d = {} THEN new
    ELSE LET from == The(old)
             to == The(new)
             at == The(d)
         IN  {[f \in {"group", "secrets", "local", "retry"} |->
                  IF to[f] = from[f] THEN at[f] ELSE to[f]]}

\* The caller's compare-and-apply: the context must still be the current one.
ContextCurrent(b) == b.digest = db /\ b.lifecycle = lifecycle

\* The transaction that applies a batch with its plaintext or ciphertext.
Store(w) ==
    /\ work[w].at = "batch"
    /\ ContextCurrent(work[w])
    /\ LET o == work[w].outcome
       IN  Apply([o EXCEPT !.rows = BatchApplied(db, work[w].rows, o.rows)])
    /\ lifecycle' = IF (db = {}) # (db' = {}) THEN lifecycle + 1 ELSE lifecycle
    /\ work' = [work EXCEPT ![w] = Idle]

\* An error return, a refused transaction, a crash: the worker starts afresh.
Abandon(w) ==
    /\ work[w].at # "idle"
    /\ work' = [work EXCEPT ![w] = Idle]
    /\ UNCHANGED <<vars, lifecycle>>

\* Receive frames: application, Commit, Welcome, external Commit.
ReceiveCall(w) ==
    \/ CallProcessApplication(w)
    \/ CallProcessCommit(w)
    \/ CallJoin(w)
    \/ CallProcessExternal(w)

ForegroundCall(w) ==
    \/ CallCreate(w)
    \/ CallSend(w)
    \/ CallPrepare(w)
    \/ CallMerge(w)
    \/ CallDiscard(w)
    \/ CallProcessProposal(w)
    \/ CallDelete(w)

InstNext ==
    \/ \E k \in KeyPackage : CreateKeyPackage(k) /\ UNCHANGED <<lifecycle, work>>
    \/ \E w \in Worker :
        \/ Read(w)
        \/ ReceiveCall(w)
        \/ Store(w)
        \/ Abandon(w)
    \/ \E w \in Foreground : ForegroundCall(w)

InstSpec == InstInit /\ [][InstNext]_instVars

-----------------------------------------------------------------------------
\* Two workers, stale snapshots, lost races and crashes together do nothing the
\* atomic operations of GroupLifecycle could not do one at a time.
ImplementsLifecycle == Spec

\* Rows belong to one life of the group: a batch computed on rows before the group
\* was deleted and joined again can never match its digest afterwards.  So the
\* lifecycle fence decides only for calls that compare no digest: where the group
\* had no rows, and for a deletion whose rows were read in an earlier life.
DigestNamesLife ==
    \A w \in Worker :
        (work[w].at = "batch" /\ work[w].digest = db /\ work[w].rows = db /\ db # {})
            => work[w].lifecycle = lifecycle

=============================================================================
