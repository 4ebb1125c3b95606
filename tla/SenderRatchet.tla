---------------------------- MODULE SenderRatchet ----------------------------
(***************************************************************************)
(* The decryption ratchet of one sender in one epoch, at the level of the  *)
(* VecDeque the code keeps (rust/vendor/openmls/src/tree/                  *)
(* sender_ratchet.rs), and the life of one receive call around it          *)
(* (rust/src/api/group_e2ee/runtime.rs): the call works on a copy of the   *)
(* stored row, takes the key BEFORE the ciphertext is authenticated, and   *)
(* only a call that succeeds to its end writes the row back.               *)
(*                                                                         *)
(* past is the VecDeque of Options, newest first: past[i] is "Some" while  *)
(* the key of generation head - i is held and "None" once it was taken.    *)
(***************************************************************************)
EXTENDS RatchetWindow, Sequences

CONSTANT MaxGeneration      \* u32::MAX: the generation no ratchet moves past

ASSUME MaxGenerationAssumption == MaxGeneration \in Nat /\ Forward <= MaxGeneration

VARIABLES
    stored,     \* the ratchet in the durable MessageSecrets row
    memory,     \* the copy the running call works on
    phase,      \* where the call stands
    target,     \* the generation the call asked for
    handed      \* history: how often each generation's plaintext was handed out

vars == <<stored, memory, phase, target, handed>>

Generation == 0 .. MaxGeneration

Slot == {"Some", "None"}

Ratchet == [head : Generation, past : Seq(Slot)]

\* DecryptionRatchet::new
NewRatchet == [head |-> 0, past |-> <<>>]

\* Mutant: truncation one entry short.
PruneOneShort(past) == SubSeq(past, 1, IF Len(past) < Tolerance THEN Len(past) ELSE Tolerance - 1)

\* VecDeque::truncate(out_of_order_tolerance)
Prune(past) == SubSeq(past, 1, IF Len(past) <= Tolerance THEN Len(past) ELSE Tolerance)

\* The keys of generations head .. g-1, pushed to the front one after another.
Skipped(r, g) == [i \in 1 .. g - r.head |-> "Some"]

TooFarAhead(r, g) == r.head < MaxGeneration - Forward /\ g > r.head + Forward

TooFarBehind(r, g) == g < r.head /\ r.head - g > Tolerance

\* Mutant: the last generation is not refused, so the head overflows.
DecryptionResultUnbounded(r, g) ==
    IF TooFarAhead(r, g) THEN "TooDistantInTheFuture"
    ELSE IF TooFarBehind(r, g) THEN "TooDistantInThePast"
    ELSE IF g >= r.head THEN "Ok"
    ELSE IF r.head - g > Len(r.past) THEN "IndexOutOfBounds"
    ELSE IF r.past[r.head - g] = "None" THEN "SecretReuseError"
    ELSE "Ok"

\* The Result of secret_for_decryption, its tests in the code's order.
DecryptionResult(r, g) ==
    IF TooFarAhead(r, g) THEN "TooDistantInTheFuture"
    ELSE IF TooFarBehind(r, g) THEN "TooDistantInThePast"
    ELSE IF g >= r.head THEN IF g = MaxGeneration THEN "RatchetTooLong" ELSE "Ok"
    ELSE IF r.head - g > Len(r.past) THEN "IndexOutOfBounds"
    ELSE IF r.past[r.head - g] = "None" THEN "SecretReuseError"
    ELSE "Ok"

\* The ratchet once g was derived: a placeholder for g itself is pushed in front
\* of the skipped keys, and the rest falls off the end.
Derived(r, g) ==
    [head |-> g + 1, past |-> Prune(<<"None">> \o Skipped(r, g) \o r.past)]

\* Option::take on the key of an older generation.
Taken(r, g) == [head |-> r.head, past |-> [r.past EXCEPT ![r.head - g] = "None"]]

\* What secret_for_decryption leaves in memory.  When the ratchet is too long
\* the skipped keys have been pushed already and nothing was pruned.
AfterDecryption(r, g) ==
    IF DecryptionResult(r, g) = "RatchetTooLong"
    THEN [head |-> g, past |-> Skipped(r, g) \o r.past]
    ELSE IF DecryptionResult(r, g) # "Ok" THEN r
    ELSE IF g >= r.head THEN Derived(r, g)
    ELSE Taken(r, g)

-----------------------------------------------------------------------------
Init ==
    /\ stored = NewRatchet
    /\ memory = NewRatchet
    /\ phase = "idle"
    /\ target = 0
    /\ handed = [g \in Generation |-> 0]

\* runtime::load: the call reads the row it was given.
Open ==
    /\ phase = "idle"
    /\ memory' = stored
    /\ phase' = "open"
    /\ UNCHANGED <<stored, target, handed>>

\* SecretTree::secret_for_decryption for a ciphertext that names generation g.
Take(g) ==
    /\ phase = "open"
    /\ target' = g
    /\ memory' = AfterDecryption(memory, g)
    /\ phase' = IF DecryptionResult(memory, g) = "Ok" THEN "taken" ELSE "failed"
    /\ UNCHANGED <<stored, handed>>

\* A check after the key was taken fails: AEAD, signature, AAD, sender, kind.
Reject ==
    /\ phase = "taken"
    /\ phase' = "failed"
    /\ UNCHANGED <<stored, memory, target, handed>>

\* runtime::finish and the caller's transaction: row and plaintext together.
Finish ==
    /\ phase = "taken"
    /\ stored' = memory
    /\ handed' = [handed EXCEPT ![target] = @ + 1]
    /\ phase' = "idle"
    /\ UNCHANGED <<memory, target>>

\* Mutant: a failing call writes its copy back ("persist the secret tree").
DropPersists ==
    /\ phase \in {"open", "taken", "failed"}
    /\ phase' = "idle"
    /\ stored' = memory
    /\ UNCHANGED <<memory, target, handed>>

\* An error return, or a crash: the copy is dropped.
Drop ==
    /\ phase \in {"open", "taken", "failed"}
    /\ phase' = "idle"
    /\ UNCHANGED <<stored, memory, target, handed>>

Next ==
    \/ Open
    \/ \E g \in Generation : Take(g)
    \/ Reject
    \/ Finish
    \/ Drop

Spec == Init /\ [][Next]_vars

-----------------------------------------------------------------------------
\* Every variable has its type (DecryptionRatchet, Generation).
TypeOK ==
    /\ stored \in Ratchet
    /\ memory \in Ratchet
    /\ phase \in {"idle", "open", "taken", "failed"}
    /\ target \in Generation
    /\ handed \in [Generation -> Nat]

\* No generation's plaintext is handed out twice, whatever calls fail, crash or
\* are repeated in between (the SecretReuseError path of secret_for_decryption).
PlaintextOnce == \A g \in Generation : handed[g] <= 1

\* A generation inside the window that was not handed out yet is answered, and
\* one that was is refused: forged ciphertexts, failed calls and the pruning of
\* past_secrets never burn a key that is still owed to a message.
WindowExact ==
    \A g \in Generation :
        (g < MaxGeneration /\ ~TooFarAhead(stored, g) /\ ~TooFarBehind(stored, g))
            => (DecryptionResult(stored, g) = "Ok" <=> handed[g] = 0)

\* The index into past_secrets is always in range: the IndexOutOfBounds arm of
\* secret_for_decryption is dead for every stored ratchet.
IndexInRange == \A g \in Generation : DecryptionResult(stored, g) # "IndexOutOfBounds"

\* The replay window this ratchet implements.
Abstract == INSTANCE ReplayWindow WITH
    Generations <- 0 .. MaxGeneration - 1,
    window <- [head |-> stored.head,
               keys |-> {g \in 0 .. stored.head - 1 :
                            stored.head - g <= Len(stored.past) /\ stored.past[stored.head - g] = "Some"}]

\* The VecDeque implements the replay window: every write-back is one
\* acceptance of the abstract window and every other step is invisible to it.
ImplementsWindow == Abstract!Spec

=============================================================================
