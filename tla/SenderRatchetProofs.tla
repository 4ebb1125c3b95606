-------------------------- MODULE SenderRatchetProofs --------------------------
(***************************************************************************)
(* Proofs about SenderRatchet for every tolerance, forward distance and    *)
(* last generation.                                                        *)
(***************************************************************************)
EXTENDS SenderRatchet, TLAPS

-----------------------------------------------------------------------------
(* The sequences of the ratchet *)

LEMMA RatchetFacts ==
    ASSUME NEW r \in Ratchet
    PROVE  r.head \in Generation /\ r.past \in Seq(Slot) /\ Len(r.past) \in Nat
BY DEF Ratchet

\* Concatenation, entry by entry.
LEMMA ConcatSlots ==
    ASSUME NEW s \in Seq(Slot), NEW t \in Seq(Slot)
    PROVE  /\ s \o t \in Seq(Slot)
           /\ Len(s \o t) = Len(s) + Len(t)
           /\ \A i \in 1 .. Len(s) : (s \o t)[i] = s[i]
           /\ \A i \in Len(s) + 1 .. Len(s) + Len(t) : (s \o t)[i] = t[i - Len(s)]
OBVIOUS

\* Pruning keeps the newest entries, at most Tolerance of them.
LEMMA PruneProperties ==
    ASSUME NEW past \in Seq(Slot)
    PROVE  /\ Prune(past) \in Seq(Slot)
           /\ Len(Prune(past)) = IF Len(past) <= Tolerance THEN Len(past) ELSE Tolerance
           /\ \A i \in 1 .. Len(Prune(past)) : Prune(past)[i] = past[i]
BY ToleranceAssumption DEF Prune

\* The keys skipped on the way to generation g are all held.
LEMMA SkippedProperties ==
    ASSUME NEW r \in Ratchet, NEW g \in Generation, g >= r.head
    PROVE  /\ Skipped(r, g) \in Seq(Slot)
           /\ Len(Skipped(r, g)) = g - r.head
           /\ \A i \in 1 .. g - r.head : Skipped(r, g)[i] = "Some"
<1>1. g - r.head \in Nat
  BY MaxGenerationAssumption DEF Ratchet, Generation
<1> QED
  BY <1>1 DEF Skipped, Slot

\* What deriving g pushes in front of the past secrets.
LEMMA FrontProperties ==
    ASSUME NEW skipped \in Seq(Slot), NEW n \in Nat, Len(skipped) = n - 1, n >= 1,
           \A i \in 1 .. n - 1 : skipped[i] = "Some"
    PROVE  /\ <<"None">> \o skipped \in Seq(Slot)
           /\ Len(<<"None">> \o skipped) = n
           /\ (<<"None">> \o skipped)[1] = "None"
           /\ \A i \in 2 .. n : (<<"None">> \o skipped)[i] = "Some"
<1>1. <<"None">> \in Seq(Slot) /\ Len(<<"None">>) = 1 /\ <<"None">>[1] = "None"
  BY DEF Slot
<1> QED
  BY <1>1, ConcatSlots

\* past extends older by n entries, newest first: a consumed one, then n - 1 keys,
\* cut at Tolerance.
Extended(past, older, n) ==
    /\ Len(past) = IF n + Len(older) <= Tolerance THEN n + Len(older) ELSE Tolerance
    /\ \A i \in 1 .. Len(past) :
        /\ i = 1 => past[i] = "None"
        /\ i \in 2 .. n => past[i] = "Some"
        /\ i > n => i - n \in 1 .. Len(older) /\ past[i] = older[i - n]

\* The ratchet once g was derived, entry by entry.
LEMMA DerivedProperties ==
    ASSUME NEW r \in Ratchet, NEW g \in Generation, g >= r.head, g < MaxGeneration,
           NEW n \in Nat, n = g + 1 - r.head
    PROVE  /\ Derived(r, g) \in Ratchet
           /\ Derived(r, g).head = g + 1
           /\ Extended(Derived(r, g).past, r.past, n)
<1> DEFINE front == <<"None">> \o Skipped(r, g)
           all == front \o r.past
<1>1. n >= 1 /\ g - r.head = n - 1 /\ g + 1 \in Generation
  BY RatchetFacts, MaxGenerationAssumption DEF Generation
<1>2. /\ Skipped(r, g) \in Seq(Slot)
      /\ Len(Skipped(r, g)) = n - 1
      /\ \A i \in 1 .. n - 1 : Skipped(r, g)[i] = "Some"
  BY <1>1, SkippedProperties
<1>3. /\ front \in Seq(Slot)
      /\ Len(front) = n
      /\ front[1] = "None"
      /\ \A i \in 2 .. n : front[i] = "Some"
  BY <1>1, <1>2, FrontProperties
<1>4. r.past \in Seq(Slot) /\ Len(r.past) \in Nat
  BY RatchetFacts
<1>5. Derived(r, g) = [head |-> g + 1, past |-> Prune(all)]
  BY DEF Derived
<1> HIDE DEF front
<1>6. /\ all \in Seq(Slot)
      /\ Len(all) = n + Len(r.past)
      /\ \A i \in 1 .. n : all[i] = front[i]
      /\ \A i \in n + 1 .. n + Len(r.past) : all[i] = r.past[i - n]
  <2>1. /\ all \in Seq(Slot)
        /\ Len(all) = Len(front) + Len(r.past)
        /\ \A i \in 1 .. Len(front) : all[i] = front[i]
        /\ \A i \in Len(front) + 1 .. Len(front) + Len(r.past) :
              all[i] = r.past[i - Len(front)]
    <3> HIDE DEF all
    <3> QED  BY <1>3, <1>4, ConcatSlots DEF all
  <2> HIDE DEF all
  <2> QED  BY <1>3, <2>1
<1> HIDE DEF all
<1>7. /\ Prune(all) \in Seq(Slot)
      /\ Len(Prune(all)) = IF Len(all) <= Tolerance THEN Len(all) ELSE Tolerance
      /\ \A i \in 1 .. Len(Prune(all)) : Prune(all)[i] = all[i]
  BY <1>6, PruneProperties
<1>8. Len(Prune(all)) \in Nat /\ Len(Prune(all)) <= n + Len(r.past)
  BY <1>4, <1>6, <1>7, ToleranceAssumption
<1>9. ASSUME NEW i \in 1 .. Len(Prune(all))
      PROVE  /\ i = 1 => Prune(all)[i] = "None"
             /\ i \in 2 .. n => Prune(all)[i] = "Some"
             /\ i > n => i - n \in 1 .. Len(r.past) /\ Prune(all)[i] = r.past[i - n]
  <2>1. Prune(all)[i] = all[i] /\ i \in 1 .. n + Len(r.past)
    BY <1>4, <1>7, <1>8
  <2>2. i = 1 => Prune(all)[i] = "None"
    BY <1>1, <1>3, <1>6, <2>1
  <2>3. i \in 2 .. n => Prune(all)[i] = "Some"
    BY <1>1, <1>3, <1>6, <2>1
  <2>4. i > n => i - n \in 1 .. Len(r.past) /\ Prune(all)[i] = r.past[i - n]
    BY <1>4, <1>6, <2>1
  <2> QED  BY <2>2, <2>3, <2>4
<1>10. Derived(r, g) \in Ratchet
  BY <1>1, <1>5, <1>7 DEF Ratchet
<1>11. Derived(r, g).head = g + 1 /\ Derived(r, g).past = Prune(all)
  BY <1>5
<1>12. Extended(Prune(all), r.past, n)
  BY <1>6, <1>7, <1>9 DEF Extended
<1> QED
  BY <1>10, <1>11, <1>12

\* The ratchet once an older generation's key was taken, entry by entry.
LEMMA TakenProperties ==
    ASSUME NEW r \in Ratchet, NEW g \in Generation, r.head - g \in 1 .. Len(r.past)
    PROVE  /\ Taken(r, g) \in Ratchet
           /\ Taken(r, g).head = r.head
           /\ Len(Taken(r, g).past) = Len(r.past)
           /\ \A i \in 1 .. Len(r.past) :
                Taken(r, g).past[i] = IF i = r.head - g THEN "None" ELSE r.past[i]
<1> DEFINE past == [r.past EXCEPT ![r.head - g] = "None"]
<1>1. /\ past \in Seq(Slot)
      /\ Len(past) = Len(r.past)
      /\ \A i \in 1 .. Len(r.past) : past[i] = IF i = r.head - g THEN "None" ELSE r.past[i]
  <2>1. r.past \in Seq(Slot) /\ "None" \in Slot
    BY RatchetFacts DEF Slot
  <2> QED  BY <2>1
<1> QED
  BY <1>1, RatchetFacts DEF Taken, Ratchet

\* When the answer is Ok the generation is either still to be derived or the
\* place of a held key.
LEMMA OkMeans ==
    ASSUME NEW r \in Ratchet, NEW g \in Generation, DecryptionResult(r, g) = "Ok"
    PROVE  \/ g >= r.head /\ g < MaxGeneration /\ AfterDecryption(r, g) = Derived(r, g)
           \/ /\ g < r.head
              /\ r.head - g \in 1 .. Len(r.past)
              /\ r.past[r.head - g] = "Some"
              /\ AfterDecryption(r, g) = Taken(r, g)
<1>1. r.head \in Nat /\ g \in Nat /\ g <= MaxGeneration /\ Len(r.past) \in Nat
  BY RatchetFacts, MaxGenerationAssumption DEF Generation
<1>2. CASE g >= r.head
  BY <1>1, <1>2, MaxGenerationAssumption DEF DecryptionResult, AfterDecryption
<1>3. CASE g < r.head
  <2>1. r.head - g \in 1 .. Len(r.past) /\ r.past[r.head - g] # "None"
    BY <1>1, <1>3 DEF DecryptionResult
  <2>2. r.past[r.head - g] \in Slot
    BY <2>1, RatchetFacts
  <2> QED  BY <1>1, <1>3, <2>1, <2>2 DEF AfterDecryption, Slot
<1> QED
  BY <1>1, <1>2, <1>3

\* Whatever secret_for_decryption answers, it leaves a ratchet in memory.
LEMMA AfterDecryptionType ==
    ASSUME NEW r \in Ratchet, NEW g \in Generation
    PROVE  AfterDecryption(r, g) \in Ratchet
<1>1. CASE DecryptionResult(r, g) = "RatchetTooLong"
  <2>1. g >= r.head
    BY <1>1, RatchetFacts DEF DecryptionResult
  <2>2. Skipped(r, g) \o r.past \in Seq(Slot)
    BY <2>1, SkippedProperties, RatchetFacts, ConcatSlots
  <2> QED  BY <1>1, <2>2 DEF AfterDecryption, Ratchet
<1>2. CASE DecryptionResult(r, g) = "Ok"
  <2>1. g >= r.head => g + 1 - r.head \in Nat
    BY RatchetFacts, MaxGenerationAssumption DEF Generation
  <2> QED  BY <1>2, <2>1, OkMeans, DerivedProperties, TakenProperties
<1>3. CASE DecryptionResult(r, g) # "RatchetTooLong" /\ DecryptionResult(r, g) # "Ok"
  BY <1>3 DEF AfterDecryption
<1> QED
  BY <1>1, <1>2, <1>3

-----------------------------------------------------------------------------
(* Type correctness *)

\* Every variable keeps its type, through every answer of the ratchet.
THEOREM TypeCorrect == Spec => []TypeOK
<1>1. Init => TypeOK
  BY MaxGenerationAssumption DEF Init, TypeOK, NewRatchet, Ratchet, Generation
<1>2. TypeOK /\ [Next]_vars => TypeOK'
  <2> SUFFICES ASSUME TypeOK, [Next]_vars PROVE TypeOK'
    OBVIOUS
  <2> USE DEF TypeOK
  <2>1. CASE Open
    BY <2>1 DEF Open
  <2>2. ASSUME NEW g \in Generation, Take(g) PROVE TypeOK'
    BY <2>2, AfterDecryptionType DEF Take
  <2>3. CASE Reject
    BY <2>3 DEF Reject
  <2>4. CASE Finish
    BY <2>4 DEF Finish
  <2>5. CASE Drop
    BY <2>5 DEF Drop
  <2>6. CASE UNCHANGED vars
    BY <2>6 DEF vars
  <2> QED  BY <2>1, <2>2, <2>3, <2>4, <2>5, <2>6 DEF Next
<1> QED
  BY <1>1, <1>2, PTL DEF Spec

-----------------------------------------------------------------------------
(* The inductive invariant *)

\* The ratchet r holds exactly the keys of its window that were not handed out.
Holds(r, count) ==
    /\ Len(r.past) = IF r.head <= Tolerance THEN r.head ELSE Tolerance
    /\ \A i \in 1 .. Len(r.past) : r.past[i] = "Some" <=> count[r.head - i] = 0
    /\ \A g \in Generation : g >= r.head => count[g] = 0
    /\ \A g \in Generation : count[g] <= 1

\* The stored ratchet agrees with what was handed out, and a running call works
\* on the stored ratchet or on what one answer of it left.
IInv ==
    /\ TypeOK
    /\ Holds(stored, handed)
    /\ phase = "open" => memory = stored
    /\ phase = "taken" =>
        /\ DecryptionResult(stored, target) = "Ok"
        /\ memory = AfterDecryption(stored, target)

\* Handing out a generation the ratchet answers keeps the agreement.
LEMMA HoldsAfter ==
    ASSUME NEW r \in Ratchet, NEW g \in Generation, NEW count \in [Generation -> Nat],
           Holds(r, count), DecryptionResult(r, g) = "Ok"
    PROVE  Holds(AfterDecryption(r, g), [count EXCEPT ![g] = @ + 1])
<1> DEFINE after == AfterDecryption(r, g)
           counted == [count EXCEPT ![g] = @ + 1]
<1>1. r.head \in Nat /\ r.head <= MaxGeneration /\ g \in Nat /\ Len(r.past) \in Nat
  BY RatchetFacts, MaxGenerationAssumption DEF Generation
<1>2. counted[g] = count[g] + 1 /\ \A h \in Generation : h # g => counted[h] = count[h]
  OBVIOUS
<1>3. \A i \in 1 .. Len(r.past) : r.head - i \in Generation
  <2>1. Len(r.past) <= r.head
    BY <1>1, ToleranceAssumption DEF Holds
  <2>2. ASSUME NEW i \in 1 .. Len(r.past)
        PROVE  r.head - i \in Nat /\ r.head - i <= MaxGeneration
    BY <1>1, <2>1, MaxGenerationAssumption
  <2> QED  BY <2>2, MaxGenerationAssumption DEF Generation
<1> HIDE DEF after, counted
<1>4. CASE g >= r.head /\ g < MaxGeneration /\ after = Derived(r, g)
  <2> DEFINE n == g + 1 - r.head
  <2>1. n \in Nat /\ n >= 1
    BY <1>1, <1>4
  <2>2. /\ after.head = g + 1
        /\ Len(after.past) =
                IF n + Len(r.past) <= Tolerance THEN n + Len(r.past) ELSE Tolerance
        /\ \A i \in 1 .. Len(after.past) :
            /\ i = 1 => after.past[i] = "None"
            /\ i \in 2 .. n => after.past[i] = "Some"
            /\ i > n => i - n \in 1 .. Len(r.past) /\ after.past[i] = r.past[i - n]
    <3>1. after.head = g + 1 /\ Extended(after.past, r.past, n)
      BY <1>4, <2>1, DerivedProperties
    <3> QED  BY <3>1 DEF Extended
  <2>3. Len(after.past) = IF after.head <= Tolerance THEN after.head ELSE Tolerance
    <3>1. Len(r.past) = IF r.head <= Tolerance THEN r.head ELSE Tolerance
      BY DEF Holds
    <3>2. n + r.head = after.head
      BY <1>1, <2>2
    <3> HIDE DEF n
    <3> QED  BY <1>1, <2>1, <2>2, <3>1, <3>2, ToleranceAssumption
  <2>4. ASSUME NEW i \in 1 .. Len(after.past)
        PROVE  after.past[i] = "Some" <=> counted[after.head - i] = 0
    <3>1. CASE i = 1
      <4>1. after.head - i = g
        BY <1>1, <2>2, <3>1
      <4> QED  BY <1>2, <2>2, <3>1, <4>1
    <3>2. CASE i \in 2 .. n
      <4>1. after.head - i \in Generation /\ after.head - i >= r.head /\ after.head - i # g
        <5>1. after.head - i = g + 1 - i /\ i >= 2 /\ i <= g + 1 - r.head
          BY <1>1, <2>2, <3>2
        <5>2. g <= MaxGeneration /\ MaxGeneration \in Nat
          BY <1>4, MaxGenerationAssumption DEF Generation
        <5>3. g + 1 - i \in 0 .. MaxGeneration /\ g + 1 - i >= r.head /\ g + 1 - i # g
          BY <1>1, <3>2, <5>1, <5>2
        <5> QED  BY <5>1, <5>3 DEF Generation
      <4> QED  BY <1>2, <2>2, <3>2, <4>1 DEF Holds
    <3>3. CASE i > n
      <4>1. /\ i - n \in 1 .. Len(r.past)
            /\ after.head - i = r.head - (i - n)
            /\ after.past[i] = r.past[i - n]
        <5>1. i - n \in 1 .. Len(r.past) /\ after.past[i] = r.past[i - n]
          BY <2>2, <3>3
        <5>2. after.head - i = r.head - (i - n)
          BY <1>1, <2>2
        <5> QED  BY <5>1, <5>2
      <4>2. after.head - i \in Generation /\ after.head - i # g
        <5>1. r.head - (i - n) \in Generation
          BY <1>3, <4>1
        <5>2. \A k \in 1 .. Len(r.past) : r.head - k < g
          BY <1>1, <1>4
        <5>3. r.head - (i - n) < g
          BY <4>1, <5>2
        <5> QED  BY <1>1, <4>1, <5>1, <5>3, SMTT(30)
      <4> QED  BY <1>2, <4>1, <4>2 DEF Holds
    <3> QED  BY <2>1, <3>1, <3>2, <3>3
  <2>5. ASSUME NEW h \in Generation, h >= after.head PROVE counted[h] = 0
    <3>1. h >= r.head /\ h # g
      <4>1. h \in Nat /\ h >= g + 1
        BY <2>2, <2>5, MaxGenerationAssumption DEF Generation
      <4> QED  BY <1>1, <1>4, <4>1
    <3> QED  BY <1>2, <3>1 DEF Holds
  <2>6. \A h \in Generation : counted[h] <= 1
    BY <1>2, <1>4 DEF Holds
  <2> QED  BY <2>3, <2>4, <2>5, <2>6 DEF Holds, after, counted
<1>5. CASE /\ g < r.head
           /\ r.head - g \in 1 .. Len(r.past)
           /\ r.past[r.head - g] = "Some"
           /\ after = Taken(r, g)
  <2>1. /\ after.head = r.head
        /\ Len(after.past) = Len(r.past)
        /\ \A i \in 1 .. Len(r.past) :
              after.past[i] = IF i = r.head - g THEN "None" ELSE r.past[i]
    BY <1>5, TakenProperties
  <2>2. count[g] = 0
    <3>1. r.head - (r.head - g) = g
      BY <1>1
    <3> QED  BY <1>5, <3>1 DEF Holds
  <2>3. ASSUME NEW i \in 1 .. Len(after.past)
        PROVE  after.past[i] = "Some" <=> counted[after.head - i] = 0
    <3>1. CASE i = r.head - g
      <4>1. after.head - i = g
        BY <1>1, <2>1, <3>1
      <4> QED  BY <1>2, <2>1, <2>2, <3>1, <4>1
    <3>2. CASE i # r.head - g
      <4>1. after.head - i \in Generation /\ after.head - i # g
        BY <1>1, <1>3, <2>1, <3>2
      <4> QED  BY <1>2, <2>1, <3>2, <4>1 DEF Holds
    <3> QED  BY <3>1, <3>2
  <2>4. \A h \in Generation : h >= after.head => counted[h] = 0
    BY <1>1, <1>2, <1>5, <2>1 DEF Holds
  <2>5. \A h \in Generation : counted[h] <= 1
    BY <1>2, <2>2 DEF Holds
  <2> QED  BY <2>1, <2>3, <2>4, <2>5 DEF Holds, after, counted
<1> QED
  BY <1>4, <1>5, OkMeans DEF after

\* The strengthened invariant: the queue, entry by entry, holds what was not
\* handed out (secret_for_decryption).
THEOREM Invariance == Spec => []IInv
<1>1. Init => IInv
  <2> SUFFICES ASSUME Init PROVE IInv
    OBVIOUS
  <2>1. TypeOK
    BY MaxGenerationAssumption DEF Init, TypeOK, NewRatchet, Ratchet, Generation
  <2>2. Holds(stored, handed)
    BY ToleranceAssumption, MaxGenerationAssumption DEF Init, Holds, NewRatchet, Generation
  <2> QED  BY <2>1, <2>2 DEF Init, IInv
<1>2. IInv /\ TypeOK' /\ [Next]_vars => IInv'
  <2> SUFFICES ASSUME IInv, TypeOK', [Next]_vars PROVE IInv'
    OBVIOUS
  <2> USE DEF IInv
  <2>1. CASE Open
    BY <2>1 DEF Open
  <2>2. ASSUME NEW g \in Generation, Take(g) PROVE IInv'
    BY <2>2 DEF Take
  <2>3. CASE Reject
    BY <2>3 DEF Reject
  <2>4. CASE Finish
    <3>1. Holds(stored, handed)'
      BY <2>4, HoldsAfter DEF Finish, TypeOK
    <3> QED  BY <2>4, <3>1 DEF Finish
  <2>5. CASE Drop
    BY <2>5 DEF Drop
  <2>6. CASE UNCHANGED vars
    BY <2>6 DEF vars
  <2> QED  BY <2>1, <2>2, <2>3, <2>4, <2>5, <2>6 DEF Next
<1> QED
  BY <1>1, <1>2, TypeCorrect, PTL DEF Spec

\* No generation's plaintext is handed out twice (secret_for_decryption takes
\* the key, and only a finished call stores the ratchet it was taken from).
THEOREM PlaintextHandedOutOnce == Spec => []PlaintextOnce
<1>1. IInv => PlaintextOnce
  BY DEF IInv, Holds, PlaintextOnce
<1> QED
  BY <1>1, Invariance, PTL

\* A stored ratchet holds a past entry for every generation of its window.
LEMMA EntryInRange ==
    ASSUME IInv, NEW g \in Generation, g < stored.head, ~TooFarBehind(stored, g)
    PROVE  stored.head - g \in 1 .. Len(stored.past)
<1>1. stored.head \in Nat /\ g \in Nat /\ stored.head - g <= Tolerance
  BY MaxGenerationAssumption, ToleranceAssumption
  DEF IInv, TypeOK, Ratchet, Generation, TooFarBehind
<1> QED
  BY <1>1, ToleranceAssumption DEF IInv, Holds

\* The index into past_secrets is always in range.
THEOREM IndexAlwaysInRange == Spec => []IndexInRange
<1>1. IInv => IndexInRange
  <2> SUFFICES ASSUME IInv, NEW g \in Generation
               PROVE  DecryptionResult(stored, g) # "IndexOutOfBounds"
    BY DEF IndexInRange
  <2>1. stored.head \in Nat /\ g \in Nat /\ Len(stored.past) \in Nat
    BY MaxGenerationAssumption, RatchetFacts DEF IInv, TypeOK, Generation
  <2>2. CASE g >= stored.head
    BY <2>1, <2>2 DEF DecryptionResult
  <2>3. CASE g < stored.head /\ TooFarBehind(stored, g)
    BY <2>3 DEF DecryptionResult
  <2>4. CASE g < stored.head /\ ~TooFarBehind(stored, g)
    <3>1. stored.head - g \in 1 .. Len(stored.past)
      BY <2>4, EntryInRange
    <3> QED  BY <2>1, <2>4, <3>1 DEF DecryptionResult
  <2> QED  BY <2>1, <2>2, <2>3, <2>4
<1> QED
  BY <1>1, Invariance, PTL

\* Inside its window the ratchet answers exactly what was not handed out yet:
\* no failed, forged or repeated ciphertext burns a key that is still owed.
THEOREM WindowAlwaysExact == Spec => []WindowExact
<1>1. IInv => WindowExact
  <2> SUFFICES ASSUME IInv, NEW g \in Generation, g < MaxGeneration,
                      ~TooFarAhead(stored, g), ~TooFarBehind(stored, g)
               PROVE  DecryptionResult(stored, g) = "Ok" <=> handed[g] = 0
    BY DEF WindowExact
  <2>1. stored.head \in Nat /\ g \in Nat /\ Len(stored.past) \in Nat
    BY MaxGenerationAssumption, RatchetFacts DEF IInv, TypeOK, Generation
  <2>2. CASE g >= stored.head
    <3>1. DecryptionResult(stored, g) = "Ok"
      BY <2>1, <2>2, MaxGenerationAssumption DEF DecryptionResult
    <3>2. handed[g] = 0
      BY <2>2 DEF IInv, Holds
    <3> QED  BY <3>1, <3>2
  <2>3. CASE g < stored.head
    <3>1. stored.head - g \in 1 .. Len(stored.past) /\ stored.head - (stored.head - g) = g
      BY <2>1, <2>3, EntryInRange
    <3>2. stored.past[stored.head - g] \in Slot
      BY <3>1, RatchetFacts DEF IInv, TypeOK
    <3>3. stored.past[stored.head - g] = "Some" <=> handed[g] = 0
      BY <3>1 DEF IInv, Holds
    <3>4. DecryptionResult(stored, g) = "Ok" <=> stored.past[stored.head - g] # "None"
      BY <2>1, <2>3, <3>1 DEF DecryptionResult
    <3> QED  BY <3>2, <3>3, <3>4 DEF Slot
  <2> QED  BY <2>1, <2>2, <2>3
<1> QED
  BY <1>1, Invariance, PTL

-----------------------------------------------------------------------------
(* Refinement of the replay window *)

\* The generations below the head whose key a ratchet holds.
HeldKeys(r) ==
    {g \in 0 .. r.head - 1 : r.head - g <= Len(r.past) /\ r.past[r.head - g] = "Some"}

\* Deriving generation g is TakeKey beyond the head.
LEMMA DerivedKeys ==
    ASSUME NEW r \in Ratchet, NEW g \in Generation, g >= r.head, g < MaxGeneration,
           Len(r.past) = IF r.head <= Tolerance THEN r.head ELSE Tolerance
    PROVE  HeldKeys(Derived(r, g)) =
              {k \in HeldKeys(r) \cup (r.head .. g - 1) : g + 1 - k <= Tolerance}
<1> DEFINE after == Derived(r, g)
           n == g + 1 - r.head
<1>1. r.head \in Nat /\ g \in Nat /\ Len(r.past) \in Nat /\ n \in Nat /\ n >= 1
  BY RatchetFacts, MaxGenerationAssumption DEF Generation
<1>2. /\ after.head = g + 1
      /\ Len(after.past) =
            IF n + Len(r.past) <= Tolerance THEN n + Len(r.past) ELSE Tolerance
      /\ \A i \in 1 .. Len(after.past) :
            /\ i = 1 => after.past[i] = "None"
            /\ i \in 2 .. n => after.past[i] = "Some"
            /\ i > n => i - n \in 1 .. Len(r.past) /\ after.past[i] = r.past[i - n]
  <2>1. after.head = g + 1 /\ Extended(after.past, r.past, n)
    BY <1>1, DerivedProperties
  <2> HIDE DEF after, n
  <2> QED  BY <2>1 DEF Extended
<1> HIDE DEF after
<1>3. ASSUME NEW k \in 0 .. g
      PROVE  k \in HeldKeys(after) <=>
                k \in HeldKeys(r) \cup (r.head .. g - 1) /\ g + 1 - k <= Tolerance
  <2> DEFINE i == g + 1 - k
  <2>1. i \in Nat /\ i >= 1 /\ i = after.head - k
    BY <1>1, <1>2
  <2>2. k \in HeldKeys(after) <=> i <= Len(after.past) /\ after.past[i] = "Some"
    BY <1>1, <1>2, <2>1 DEF HeldKeys
  <2>3. CASE k = g
    <3>1. i = 1 /\ k \notin HeldKeys(r) /\ k \notin r.head .. g - 1
      BY <1>1, <2>3 DEF HeldKeys
    <3> QED  BY <1>2, <2>1, <2>2, <3>1
  <2>4. CASE k < g /\ k >= r.head
    <3>1. i \in 2 .. n /\ k \in r.head .. g - 1
      BY <1>1, <2>4
    <3>2. i <= Len(after.past) <=> i <= Tolerance
      BY <1>1, <1>2, <3>1, ToleranceAssumption
    <3> QED  BY <1>2, <2>1, <2>2, <3>1, <3>2
  <2>5. CASE k < r.head
    <3>1. i > n /\ i - n = r.head - k /\ k \in 0 .. r.head - 1 /\ k \notin r.head .. g - 1
      BY <1>1, <2>5
    <3>2. k \in HeldKeys(r) <=> i - n <= Len(r.past) /\ r.past[i - n] = "Some"
      BY <3>1 DEF HeldKeys
    <3>3. i <= Len(after.past) <=> i - n <= Len(r.past) /\ i <= Tolerance
      BY <1>1, <1>2, <2>1, ToleranceAssumption
    <3>4. i <= Len(after.past) => after.past[i] = r.past[i - n]
      BY <1>2, <2>1, <3>1
    <3> QED  BY <2>2, <3>1, <3>2, <3>3, <3>4
  <2> QED  BY <1>1, <2>3, <2>4, <2>5
<1>4. HeldKeys(after) \subseteq 0 .. g /\ HeldKeys(r) \cup (r.head .. g - 1) \subseteq 0 .. g
  <2> HIDE DEF n
  <2>1. HeldKeys(after) \subseteq 0 .. g
    BY <1>1, <1>2 DEF HeldKeys
  <2>2. HeldKeys(r) \subseteq 0 .. g
    BY <1>1 DEF HeldKeys
  <2>3. r.head .. g - 1 \subseteq 0 .. g
    BY <1>1
  <2> QED  BY <2>1, <2>2, <2>3
<1> QED
  BY <1>3, <1>4 DEF after

\* Taking an older generation's key removes that key.
LEMMA TakenKeys ==
    ASSUME NEW r \in Ratchet, NEW g \in Generation, g < r.head,
           r.head - g \in 1 .. Len(r.past)
    PROVE  HeldKeys(Taken(r, g)) = HeldKeys(r) \ {g}
<1>1. r.head \in Nat /\ g \in Nat /\ Len(r.past) \in Nat
  BY RatchetFacts, MaxGenerationAssumption DEF Generation
<1>2. ASSUME NEW k \in 0 .. r.head - 1
      PROVE  k \in HeldKeys(Taken(r, g)) <=> k \in HeldKeys(r) /\ k # g
  <2>1. r.head - k \in Nat /\ r.head - k >= 1 /\ (r.head - k = r.head - g <=> k = g)
    BY <1>1
  <2>2. k \in HeldKeys(r) <=> r.head - k <= Len(r.past) /\ r.past[r.head - k] = "Some"
    BY DEF HeldKeys
  <2>3. k \in HeldKeys(Taken(r, g)) <=>
            r.head - k <= Len(r.past) /\ Taken(r, g).past[r.head - k] = "Some"
    BY TakenProperties DEF HeldKeys
  <2>4. r.head - k <= Len(r.past) =>
            Taken(r, g).past[r.head - k] = IF k = g THEN "None" ELSE r.past[r.head - k]
    BY <1>1, <2>1, TakenProperties
  <2> QED  BY <2>1, <2>2, <2>3, <2>4
<1> QED
  BY <1>1, <1>2, TakenProperties DEF HeldKeys

\* The VecDeque implements the replay window (ImplementsWindow).
THEOREM RefinesReplayWindow == Spec => ImplementsWindow
<1> DEFINE window == [head |-> stored.head, keys |-> HeldKeys(stored)]
<1>1. Init => Abstract!Init
  BY DEF Init, NewRatchet, Abstract!Init, Abstract!NewWindow
<1>2. IInv /\ [Next]_vars => [Abstract!Next]_window
  <2> SUFFICES ASSUME IInv, [Next]_vars PROVE [Abstract!Next]_window
    OBVIOUS
  <2>1. CASE Finish
    <3>1. /\ stored \in Ratchet /\ target \in Generation
          /\ DecryptionResult(stored, target) = "Ok"
          /\ stored' = AfterDecryption(stored, target)
      BY <2>1 DEF Finish, IInv, TypeOK
    <3>2. stored.head \in Nat /\ target \in Nat /\ stored.head <= MaxGeneration
      BY <3>1, RatchetFacts, MaxGenerationAssumption DEF Generation
    <3>3. CASE target >= stored.head /\ target < MaxGeneration /\ stored' = Derived(stored, target)
      <4>1. target + 1 - stored.head \in Nat
        BY <3>2, <3>3
      <4>2. /\ stored'.head = target + 1
            /\ HeldKeys(stored') = {k \in HeldKeys(stored) \cup (stored.head .. target - 1) :
                                        target + 1 - k <= Tolerance}
        BY <3>1, <3>3, <4>1, DerivedProperties, DerivedKeys DEF IInv, Holds
      <4>3. ~(target > stored.head + Forward)
        BY <3>1, <3>2, <3>3, ForwardAssumption, MaxGenerationAssumption
        DEF DecryptionResult, TooFarAhead
      <4>4. target \in 0 .. MaxGeneration - 1
        BY <3>2, <3>3, MaxGenerationAssumption
      <4>5. Abstract!WindowError(window, target) = "Ok"
        BY <3>2, <3>3, <4>3 DEF Abstract!WindowError, Abstract!BehindWindow
      <4>6. window' = Abstract!TakeKey(window, target)
        BY <3>3, <4>2 DEF Abstract!TakeKey
      <4> QED  BY <4>4, <4>5, <4>6 DEF Abstract!Next, Abstract!Accept, HeldKeys
    <3>4. CASE /\ target < stored.head
               /\ stored.head - target \in 1 .. Len(stored.past)
               /\ stored.past[stored.head - target] = "Some"
               /\ stored' = Taken(stored, target)
      <4>1. stored'.head = stored.head /\ HeldKeys(stored') = HeldKeys(stored) \ {target}
        BY <3>1, <3>4, TakenProperties, TakenKeys
      <4>2. target \in HeldKeys(stored)
        BY <3>1, <3>2, <3>4, RatchetFacts DEF HeldKeys
      <4>3. ~(target > stored.head + Forward) /\ ~(target >= stored.head)
        BY <3>2, <3>4, ForwardAssumption
      <4>4. ~(stored.head - target > Tolerance)
        BY <3>1, <3>2, <3>4 DEF DecryptionResult, TooFarBehind
      <4>5. target \in 0 .. MaxGeneration - 1
        BY <3>2, <3>4, MaxGenerationAssumption
      <4>6. Abstract!WindowError(window, target) = "Ok"
        BY <4>2, <4>3, <4>4 DEF Abstract!WindowError, Abstract!BehindWindow
      <4>7. window' = Abstract!TakeKey(window, target)
        BY <4>1, <4>3 DEF Abstract!TakeKey
      <4> QED  BY <4>5, <4>6, <4>7 DEF Abstract!Next, Abstract!Accept, HeldKeys
    <3> QED  BY <3>1, <3>3, <3>4, OkMeans
  <2>2. CASE UNCHANGED stored
    BY <2>2
  <2> QED  BY <2>1, <2>2 DEF Next, vars, Open, Take, Reject, Drop
<1> QED
  BY <1>1, <1>2, Invariance, PTL DEF Spec, ImplementsWindow, Abstract!Spec, HeldKeys

=============================================================================
