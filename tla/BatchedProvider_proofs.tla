----------------------- MODULE BatchedProvider_proofs -----------------------
(***************************************************************************)
(* Proofs about BatchedProvider, for any number of calls, blocks and       *)
(* failures.  The invariant says what the code relies on without stating   *)
(* it: calls and callbacks are pushed together, hence aligned, and all the *)
(* calls of a batch were made for its block.                               *)
(***************************************************************************)
EXTENDS BatchedProvider, TLAPS

\* A batch whose results can be handed out by position.
Aligned(b) ==
    /\ b \in Batches
    /\ b.calls = b.callbacks
    /\ \A i \in DOMAIN b.callbacks : tagOf[b.callbacks[i]] = b.blockTag

Inv ==
    /\ TypeOK
    /\ AnswersAreOwn
    /\ BatchIsDue
    /\ EachCallInOnePlace
    /\ Aligned(batched)
    /\ \A r \in requests : Aligned(r)

\* What joining a batch does to its members.
LEMMA AppendFacts ==
    ASSUME NEW S, NEW s \in Seq(S), NEW c \in S
    PROVE  /\ Append(s, c) \in Seq(S)
           /\ Append(s, c) # <<>>
           /\ ToSet(Append(s, c)) = ToSet(s) \cup {c}
           /\ \A i \in DOMAIN Append(s, c) :
                 Append(s, c)[i] = c \/ (i \in DOMAIN s /\ Append(s, c)[i] = s[i])
           /\ c \notin ToSet(s) /\ IsInjective(s) => IsInjective(Append(s, c))
<1>1. DOMAIN Append(s, c) = 1..(Len(s) + 1) /\ DOMAIN s = 1..Len(s) /\ Len(s) \in Nat
  OBVIOUS
<1>2. \A i \in 1..Len(s) : Append(s, c)[i] = s[i]
  OBVIOUS
<1>3. Append(s, c)[Len(s) + 1] = c
  OBVIOUS
<1>4. \A i \in DOMAIN Append(s, c) : i \in DOMAIN s \/ i = Len(s) + 1
  BY <1>1
<1>5. ToSet(Append(s, c)) = ToSet(s) \cup {c}
  BY <1>1, <1>2, <1>3, <1>4 DEF ToSet
<1>6. c \notin ToSet(s) /\ IsInjective(s) => IsInjective(Append(s, c))
  BY <1>1, <1>2, <1>3, <1>4 DEF ToSet, IsInjective
<1> QED
  BY <1>1, <1>2, <1>3, <1>4, <1>5, <1>6

\* A single call is a batch of one.
LEMMA SingletonFacts ==
    ASSUME NEW c
    PROVE  /\ DOMAIN <<c>> = {1}
           /\ ToSet(<<c>>) = {c}
           /\ \A i \in DOMAIN <<c>> : <<c>>[i] = c
  BY DEF ToSet

\* The results of an aligned batch are its calls' own.
LEMMA ResolvedWithOwn ==
    ASSUME NEW b, Aligned(b), NEW c \in ToSet(b.callbacks)
    PROVE  LET i == CHOOSE j \in DOMAIN b.callbacks : b.callbacks[j] = c
           IN  Answer(b.calls[i], b.blockTag) = Answer(c, tagOf[c])
<1> DEFINE i == CHOOSE j \in DOMAIN b.callbacks : b.callbacks[j] = c
<1>1. \E j \in DOMAIN b.callbacks : b.callbacks[j] = c
  BY DEF ToSet
<1>2. i \in DOMAIN b.callbacks /\ b.callbacks[i] = c
  BY <1>1
<1>3. b.calls[i] = c /\ tagOf[c] = b.blockTag
  BY <1>2 DEF Aligned
<1> QED
  BY <1>3

\* The calls of a request are pending, and in no other place.
LEMMA SentArePending ==
    ASSUME Inv, NEW r \in requests, NEW c \in ToSet(r.callbacks)
    PROVE  /\ c \in Calls
           /\ status[c] = "pending"
           /\ c \notin ToSet(batched.callbacks)
           /\ \A q \in requests : c \in ToSet(q.callbacks) => q = r
<1>1. r.callbacks \in Seq(Calls)
  BY DEF Inv, TypeOK, Batches
<1>2. c \in Calls
  BY <1>1 DEF ToSet
<1> QED
  BY <1>2 DEF Inv, EachCallInOnePlace, Sent, Batched

-----------------------------------------------------------------------------
(***************************************************************************)
(* The invariant: initially, and by every action.                          *)
(***************************************************************************)

\* Nothing is batched and no promise is pending at first.
LEMMA InitInv == Init => Inv
<1> SUFFICES ASSUME Init PROVE Inv
  OBVIOUS
<1> USE DEF Init
<1>1. EmptyBatch \in Batches /\ EmptyBatch.callbacks = <<>> /\ EmptyBatch.calls = <<>>
  BY ProviderAssumption DEF EmptyBatch, Batches
<1>2. TypeOK
  <2>1. failures \in 0..MaxFailures
    BY ProviderAssumption
  <2> QED
    BY <1>1, <2>1 DEF TypeOK
<1>3. AnswersAreOwn /\ BatchIsDue
  BY <1>1 DEF AnswersAreOwn, BatchIsDue
<1>4. EachCallInOnePlace
  BY <1>1 DEF EachCallInOnePlace, Batched, Sent, ToSet, IsInjective
<1> QED
  BY <1>1, <1>2, <1>3, <1>4 DEF Inv, Aligned

\* A direct call makes an aligned request of its own.
LEMMA DirectInv ==
    ASSUME Inv, NEW c \in Calls, PerformDirectly(c)
    PROVE  Inv'
<1>0. PICK r : r = [blockTag |-> tagOf[c], calls |-> <<c>>, callbacks |-> <<c>>]
  OBVIOUS
<1>1. r \in Batches /\ r.callbacks = <<c>> /\ r.calls = <<c>> /\ r.blockTag = tagOf[c]
  BY <1>0 DEF Inv, TypeOK, Batches
<1>2. /\ requests' = requests \cup {r}
      /\ status' = [status EXCEPT ![c] = "pending"]
      /\ UNCHANGED <<tagOf, answer, batched, timer, failures>>
  BY <1>0 DEF PerformDirectly
<1>3. status[c] = "new"
  BY DEF PerformDirectly
<1>4. TypeOK'
  BY <1>1, <1>2, <1>3 DEF Inv, TypeOK
<1>5. AnswersAreOwn' /\ BatchIsDue'
  BY <1>2 DEF Inv, TypeOK, AnswersAreOwn, BatchIsDue
<1>6. EachCallInOnePlace'
  <2>1. ~Batched(c) /\ \A q \in requests : ~Sent(c, q)
    BY <1>3 DEF Inv, EachCallInOnePlace
  <2>2. \A d \in Calls : Sent(d, r) <=> d = c
    BY <1>1, SingletonFacts DEF Sent
  <2>3. \A d \in Calls : status'[d] = IF d = c THEN "pending" ELSE status[d]
    BY <1>2 DEF Inv, TypeOK
  <2>4. (\A d \in Calls : Batched(d)' <=> Batched(d)) /\ IsInjective(batched.callbacks)'
    BY <1>2 DEF Inv, EachCallInOnePlace, Batched
  <2> QED
    BY <1>2, <2>1, <2>2, <2>3, <2>4 DEF Inv, EachCallInOnePlace, Sent
<1>7. Aligned(r)' /\ Aligned(batched)' /\ \A q \in requests : Aligned(q)'
  BY <1>1, <1>2, SingletonFacts DEF Inv, Aligned
<1> QED
  BY <1>2, <1>4, <1>5, <1>6, <1>7 DEF Inv, Aligned

\* A call that joins the batch was made for the batch's block.
LEMMA BatchedInv ==
    ASSUME Inv, NEW c \in Calls, PerformBatched(c)
    PROVE  Inv'
<1> USE DEF PerformBatched
<1>1. /\ status[c] = "new"
      /\ status' = [status EXCEPT ![c] = "pending"]
      /\ batched'.calls = Append(batched.calls, c)
      /\ batched'.callbacks = Append(batched.callbacks, c)
      /\ batched'.blockTag = tagOf[c]
      /\ batched.calls # <<>> => batched.blockTag = tagOf[c]
      /\ timer' = TRUE
      /\ UNCHANGED <<tagOf, answer, requests, failures>>
  BY DEF ConflictsWith
<1>2. batched \in Batches /\ batched.calls = batched.callbacks /\ tagOf[c] \in BlockTags
  BY DEF Inv, TypeOK, Aligned
<1>3. batched.callbacks \in Seq(Calls) /\ batched.calls \in Seq(Calls)
  BY <1>2 DEF Batches
<1>4. batched' \in Batches
  BY <1>1, <1>2, <1>3, AppendFacts DEF Batches, Inv, TypeOK
<1> HIDE DEF PerformBatched
<1>5. /\ ToSet(batched'.callbacks) = ToSet(batched.callbacks) \cup {c}
      /\ batched'.calls # <<>>
  BY <1>1, <1>3, AppendFacts
<1>6. TypeOK'
  BY <1>1, <1>4 DEF Inv, TypeOK
<1>7. AnswersAreOwn' /\ BatchIsDue'
  BY <1>1, <1>5 DEF Inv, TypeOK, AnswersAreOwn, BatchIsDue
<1>8. EachCallInOnePlace'
  <2>1. ~Batched(c) /\ \A q \in requests : ~Sent(c, q)
    BY <1>1 DEF Inv, EachCallInOnePlace
  <2>2. \A d \in Calls : status'[d] = IF d = c THEN "pending" ELSE status[d]
    BY <1>1 DEF Inv, TypeOK
  <2>3. \A d \in Calls : Batched(d)' <=> Batched(d) \/ d = c
    BY <1>5 DEF Batched
  <2>4. IsInjective(batched.callbacks)'
    BY <1>1, <1>3, <2>1, AppendFacts DEF Inv, EachCallInOnePlace, Batched
  <2> QED
    BY <1>1, <2>1, <2>2, <2>3, <2>4 DEF Inv, EachCallInOnePlace, Sent
<1>9. Aligned(batched)'
  <2>1. \A i \in DOMAIN batched.callbacks : tagOf[batched.callbacks[i]] = tagOf[c]
    BY <1>1, <1>2 DEF Inv, Aligned
  <2>2. \A i \in DOMAIN batched'.callbacks : tagOf[batched'.callbacks[i]] = tagOf[c]
    BY <1>1, <1>3, <2>1, AppendFacts
  <2> QED
    BY <1>1, <1>2, <1>4, <2>2 DEF Aligned
<1>10. \A q \in requests : Aligned(q)'
  BY <1>1 DEF Inv, Aligned
<1> QED
  BY <1>1, <1>6, <1>7, <1>8, <1>9, <1>10 DEF Inv, Aligned

\* The batch becomes a request: its calls change places.
LEMMA DispatchInv ==
    ASSUME Inv, DispatchCalls
    PROVE  Inv'
<1> USE DEF DispatchCalls
<1>1. EmptyBatch \in Batches /\ EmptyBatch.callbacks = <<>> /\ EmptyBatch.calls = <<>>
  BY ProviderAssumption DEF EmptyBatch, Batches
<1>2. TypeOK'
  BY <1>1 DEF Inv, TypeOK, promiseVars
<1>3. AnswersAreOwn' /\ BatchIsDue'
  BY <1>1 DEF Inv, AnswersAreOwn, BatchIsDue, promiseVars
<1>4. EachCallInOnePlace'
  <2>1. /\ \A c \in Calls : ~Batched(c)'
        /\ IsInjective(batched.callbacks)'
    BY <1>1 DEF Batched, ToSet, IsInjective
  <2>2. \A c \in Calls : Sent(c, batched) <=> Batched(c)
    BY DEF Sent, Batched
  <2> QED
    BY <2>1, <2>2 DEF Inv, EachCallInOnePlace, Sent, promiseVars
<1>5. Aligned(batched)' /\ \A q \in requests' : Aligned(q)'
  BY <1>1 DEF Inv, Aligned, promiseVars
<1> QED
  BY <1>2, <1>3, <1>4, <1>5 DEF Inv, Aligned

\* What settling a request does to the promises, whatever the outcome.
SettlesWith(r, outcome) ==
    /\ status' = [c \in Calls |-> IF c \in ToSet(r.callbacks)
                                  THEN outcome ELSE status[c]]
    /\ DOMAIN answer' = Calls
    /\ \A c \in Calls : answer'[c] = IF c \in ToSet(r.callbacks) /\ outcome = "resolved"
                                     THEN Answer(c, tagOf[c]) ELSE answer[c]

LEMMA SettleInv ==
    ASSUME Inv, NEW r \in requests, NEW outcome \in {"resolved", "rejected"},
           SettlesWith(r, outcome), requests' = requests \ {r},
           UNCHANGED <<tagOf, batched, timer>>, failures' \in 0..MaxFailures
    PROVE  Inv'
<1>1. \A c \in Calls : status'[c] = IF c \in ToSet(r.callbacks) THEN outcome ELSE status[c]
  BY DEF SettlesWith
<1>2. \A c \in Calls : c \in ToSet(r.callbacks) =>
          status[c] = "pending" /\ ~Batched(c) /\ \A q \in requests : Sent(c, q) => q = r
  BY SentArePending DEF Batched, Sent
<1>3. TypeOK'
  BY <1>1, <1>2 DEF Inv, TypeOK, SettlesWith
<1>4. AnswersAreOwn' /\ BatchIsDue'
  BY <1>1 DEF Inv, AnswersAreOwn, BatchIsDue, SettlesWith
<1>5. EachCallInOnePlace'
  <2>1. \A c \in Calls : Batched(c)' <=> Batched(c)
    BY DEF Batched
  <2>2. \A c \in Calls : Sent(c, r) <=> c \in ToSet(r.callbacks)
    BY DEF Sent
  <2>3. IsInjective(batched.callbacks)'
    BY DEF Inv, EachCallInOnePlace
  <2>4. ASSUME NEW c \in Calls
        PROVE  status'[c] = "pending" <=> Batched(c)' \/ \E q \in requests' : Sent(c, q)
    <3>1. CASE Sent(c, r)
      BY <1>1, <1>2, <2>1, <2>2, <3>1
    <3>2. CASE ~Sent(c, r)
      BY <1>1, <2>1, <2>2, <3>2 DEF Inv, EachCallInOnePlace
    <3> QED
      BY <3>1, <3>2
  <2>5. \A c \in Calls, q \in requests' : Sent(c, q) =>
            ~Batched(c)' /\ \A p \in requests' : Sent(c, p) => p = q
    BY <2>1 DEF Inv, EachCallInOnePlace
  <2> QED
    BY <2>3, <2>4, <2>5 DEF EachCallInOnePlace, Sent
<1>6. Aligned(batched)' /\ \A q \in requests' : Aligned(q)'
  BY DEF Inv, Aligned
<1> QED
  BY <1>3, <1>4, <1>5, <1>6 DEF Inv, Aligned

\* Handing out the results by position gives every call its own.
LEMMA ResolveSettles ==
    ASSUME Inv, NEW r \in requests, Resolve(r)
    PROVE  SettlesWith(r, "resolved")
<1>1. Aligned(r)
  BY DEF Inv
<1>2. ASSUME NEW c \in Calls, c \in ToSet(r.callbacks)
      PROVE  answer'[c] = Answer(c, tagOf[c])
  BY <1>1, <1>2, ResolvedWithOwn DEF Resolve
<1> QED
  BY <1>2 DEF SettlesWith, Resolve

LEMMA RejectSettles ==
    ASSUME Inv, NEW r \in requests, Reject(r)
    PROVE  SettlesWith(r, "rejected")
  BY DEF SettlesWith, Reject, Inv, TypeOK

LEMMA StepInv == Inv /\ [Next]_vars => Inv'
<1> SUFFICES ASSUME Inv, [Next]_vars PROVE Inv'
  OBVIOUS
<1>1. CASE \E c \in Calls : PerformDirectly(c)
  BY <1>1, DirectInv
<1>2. CASE \E c \in Calls : PerformBatched(c)
  BY <1>2, BatchedInv
<1>3. CASE DispatchCalls
  BY <1>3, DispatchInv
<1>4. CASE \E r \in requests : RequestSucceeds(r)
  BY <1>4, ResolveSettles, SettleInv DEF RequestSucceeds, Inv, TypeOK
<1>5. CASE \E r \in requests : RequestReverts(r)
  BY <1>5, RejectSettles, SettleInv DEF RequestReverts, Inv, TypeOK
<1>6. CASE \E r \in requests : RequestFails(r)
  <2>1. \A n \in 0..MaxFailures : n < MaxFailures => n + 1 \in 0..MaxFailures
    BY ProviderAssumption
  <2> QED
    BY <1>6, <2>1, RejectSettles, SettleInv DEF RequestFails, Inv, TypeOK
<1>7. CASE UNCHANGED vars
  BY <1>7 DEF vars, promiseVars, Inv, TypeOK, AnswersAreOwn, BatchIsDue,
              EachCallInOnePlace, Batched, Sent, Aligned
<1> QED
  BY <1>1, <1>2, <1>3, <1>4, <1>5, <1>6, <1>7 DEF Next

-----------------------------------------------------------------------------
(***************************************************************************)
(* The theorems.                                                           *)
(***************************************************************************)

THEOREM Invariance == Spec => []Inv
  BY InitInv, StepInv, PTL DEF Spec

\* The state has its types, and only resolved promises have an answer.
THEOREM TypeCorrect == Spec => []TypeOK
<1>1. Inv => TypeOK
  BY DEF Inv
<1> QED
  BY <1>1, Invariance, PTL

\* A call that succeeds returns its own result at its own block.
THEOREM OwnAnswers == Spec => []AnswersAreOwn
<1>1. Inv => AnswersAreOwn
  BY DEF Inv
<1> QED
  BY <1>1, Invariance, PTL

\* A batch that has calls has its timer armed.
THEOREM BatchDue == Spec => []BatchIsDue
<1>1. Inv => BatchIsDue
  BY DEF Inv
<1> QED
  BY <1>1, Invariance, PTL

\* No pending call is lost, and none is sent twice.
THEOREM OnePlace == Spec => []EachCallInOnePlace
<1>1. Inv => EachCallInOnePlace
  BY DEF Inv
<1> QED
  BY <1>1, Invariance, PTL

\* Settling a request is one Settle step of ReadProvider: its calls were all
\* pending.
LEMMA SettleRefines ==
    ASSUME Inv, NEW r \in requests, NEW outcome \in {"resolved", "rejected"},
           SettlesWith(r, outcome), UNCHANGED tagOf
    PROVE  Provider!Next
<1> DEFINE S == ToSet(r.callbacks)
<1>1. S \in SUBSET Provider!Pending
  BY SentArePending DEF Provider!Pending
<1>2. Provider!Settle(S)
  BY <1>1 DEF Provider!Settle, Provider!Pending, SettlesWith
<1> QED
  BY <1>1, <1>2 DEF Provider!Next

\* Batching is invisible: what the promises do is what ReadProvider allows.
THEOREM Implements == Spec => BatchingIsInvisible
<1>1. Init => Provider!Init
  BY DEF Init, Provider!Init
<1>2. Inv /\ [Next]_vars => [Provider!Next]_(Provider!readVars)
  <2> SUFFICES ASSUME Inv, [Next]_vars
               PROVE  Provider!Next \/ UNCHANGED Provider!readVars
    OBVIOUS
  <2>1. CASE \E c \in Calls : PerformDirectly(c)
    BY <2>1 DEF PerformDirectly, Provider!Next, Provider!Request
  <2>2. CASE \E c \in Calls : PerformBatched(c)
    BY <2>2 DEF PerformBatched, Provider!Next, Provider!Request
  <2>3. CASE DispatchCalls \/ UNCHANGED vars
    BY <2>3 DEF DispatchCalls, vars, promiseVars, Provider!readVars
  <2>4. CASE \E r \in requests : RequestSucceeds(r)
    BY <2>4, ResolveSettles, SettleRefines DEF RequestSucceeds
  <2>5. CASE \E r \in requests : RequestReverts(r)
    BY <2>5, RejectSettles, SettleRefines DEF RequestReverts
  <2>6. CASE \E r \in requests : RequestFails(r)
    BY <2>6, RejectSettles, SettleRefines DEF RequestFails
  <2> QED
    BY <2>1, <2>2, <2>3, <2>4, <2>5, <2>6 DEF Next
<1> QED
  BY <1>1, <1>2, Invariance, PTL DEF Spec, BatchingIsInvisible, Provider!Spec
=============================================================================
