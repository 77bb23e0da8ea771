--------------------------- MODULE BatchedProvider ---------------------------
(***************************************************************************)
(* BatchedProvider (dev-frontend/src/providers/BatchingProvider.ts): calls *)
(* made within a few milliseconds for the same block are sent as one       *)
(* aggregate call of the Multicall contract; its results are handed out    *)
(* by position.  A call made for another block, one with a sender or a     *)
(* value, and the aggregate call itself go straight to the underlying      *)
(* provider.  Requests overlap and are answered in any order.              *)
(***************************************************************************)
EXTENDS Naturals, Sequences, SequencesExt

CONSTANTS
    Calls,          \* bound: the calls made, by code that awaits them
    BlockTags,      \* the blocks they are made for
    Answer(_, _),   \* Answer(c, t): what call c returns at block t
    NoAnswer,       \* a promise that is not resolved
    Batchable,      \* calls without from, gasLimit, gasPrice and value
    Reverting,      \* calls that revert
    HasMulticall,   \* is there a Multicall contract on this chain
    MaxFailures     \* bound: requests lost to the network

VARIABLES
    status,         \* of a call's promise: "new", "pending", "resolved" ...
    tagOf,          \* the block the call is made for
    answer,         \* what its promise was resolved with
    batched,        \* _batched: the block, the calls and their callbacks
    timer,          \* _timeoutId is armed
    requests,       \* requests in flight at the underlying provider
    failures        \* external: requests lost so far

promiseVars == <<status, tagOf, answer>>
vars == <<promiseVars, batched, timer, requests, failures>>

ASSUME ProviderAssumption ==
    /\ Batchable \subseteq Calls
    /\ Reverting \subseteq Calls
    /\ HasMulticall \in BOOLEAN
    /\ MaxFailures \in Nat
    /\ "latest" \in BlockTags

\* A batch, and a request: a single call is a batch of one.
Batches == [blockTag : BlockTags, calls : Seq(Calls), callbacks : Seq(Calls)]
EmptyBatch == [blockTag |-> "latest", calls |-> <<>>, callbacks |-> <<>>]

Init ==
    /\ status = [c \in Calls |-> "new"]
    /\ tagOf \in [Calls -> BlockTags]
    /\ answer = [c \in Calls |-> NoAnswer]
    /\ batched = EmptyBatch
    /\ timer = FALSE
    /\ requests = {}
    /\ failures = 0

\* Mutant: the block of the batch is not compared.
NeverConflicts(tag) == FALSE

\* _alreadyBatchedCallsConflictWith()
ConflictsWith(tag) == batched.calls # <<>> /\ tag # batched.blockTag

\* _performCall(): the cases that are not batched.
PerformDirectly(c) ==
    /\ status[c] = "new"
    /\ ~HasMulticall \/ c \notin Batchable \/ ConflictsWith(tagOf[c])
    /\ status' = [status EXCEPT ![c] = "pending"]
    /\ requests' = requests \cup
          {[blockTag |-> tagOf[c], calls |-> <<c>>, callbacks |-> <<c>>]}
    /\ UNCHANGED <<tagOf, answer, batched, timer, failures>>

\* Mutant: a call that joins a batch does not start the timer.
PerformBatchedByFirst(c) ==
    /\ status[c] = "new"
    /\ HasMulticall /\ c \in Batchable /\ ~ConflictsWith(tagOf[c])
    /\ status' = [status EXCEPT ![c] = "pending"]
    /\ batched' = [blockTag  |-> IF batched.calls = <<>> THEN tagOf[c]
                                                        ELSE batched.blockTag,
                   calls     |-> Append(batched.calls, c),
                   callbacks |-> Append(batched.callbacks, c)]
    /\ timer' = (batched.calls # <<>>)
    /\ UNCHANGED <<tagOf, answer, requests, failures>>

\* Mutant: the newest callback is put in front of the others.
PerformBatchedUnaligned(c) ==
    /\ status[c] = "new"
    /\ HasMulticall /\ c \in Batchable /\ ~ConflictsWith(tagOf[c])
    /\ status' = [status EXCEPT ![c] = "pending"]
    /\ batched' = [blockTag  |-> IF batched.calls = <<>> THEN tagOf[c]
                                                        ELSE batched.blockTag,
                   calls     |-> Append(batched.calls, c),
                   callbacks |-> <<c>> \o batched.callbacks]
    /\ timer' = TRUE
    /\ UNCHANGED <<tagOf, answer, requests, failures>>

\* _performCall() and _enqueueCall(): the batch takes the block of its first
\* call, and every call restarts the timer.
PerformBatched(c) ==
    /\ status[c] = "new"
    /\ HasMulticall /\ c \in Batchable /\ ~ConflictsWith(tagOf[c])
    /\ status' = [status EXCEPT ![c] = "pending"]
    /\ batched' = [blockTag  |-> IF batched.calls = <<>> THEN tagOf[c]
                                                        ELSE batched.blockTag,
                   calls     |-> Append(batched.calls, c),
                   callbacks |-> Append(batched.callbacks, c)]
    /\ timer' = TRUE
    /\ UNCHANGED <<tagOf, answer, requests, failures>>

\* _dispatchCalls() up to its await.
DispatchCalls ==
    /\ timer
    /\ timer' = FALSE
    /\ batched' = EmptyBatch
    /\ requests' = requests \cup {batched}
    /\ UNCHANGED <<promiseVars, failures>>

\* callbacks.forEach(([resolve], i) => resolve(results[i]))
Resolve(r) ==
    LET resultOf(c) ==
          LET i == CHOOSE j \in DOMAIN r.callbacks : r.callbacks[j] = c
          IN  Answer(r.calls[i], r.blockTag)
    IN  /\ status' = [c \in Calls |-> IF c \in ToSet(r.callbacks)
                                      THEN "resolved" ELSE status[c]]
        /\ answer' = [c \in Calls |-> IF c \in ToSet(r.callbacks)
                                      THEN resultOf(c) ELSE answer[c]]

\* callbacks.forEach(([, reject]) => reject(error))
Reject(r) ==
    /\ status' = [c \in Calls |-> IF c \in ToSet(r.callbacks)
                                  THEN "rejected" ELSE status[c]]
    /\ UNCHANGED answer

\* An aggregate call reverts as a whole when one of its calls does.
Reverts(r) == ToSet(r.calls) \cap Reverting # {}

RequestSucceeds(r) ==
    /\ r \in requests
    /\ ~Reverts(r)
    /\ requests' = requests \ {r}
    /\ Resolve(r)
    /\ UNCHANGED <<tagOf, batched, timer, failures>>

RequestReverts(r) ==
    /\ r \in requests
    /\ Reverts(r)
    /\ requests' = requests \ {r}
    /\ Reject(r)
    /\ UNCHANGED <<tagOf, batched, timer, failures>>

RequestFails(r) ==
    /\ r \in requests
    /\ failures < MaxFailures
    /\ failures' = failures + 1
    /\ requests' = requests \ {r}
    /\ Reject(r)
    /\ UNCHANGED <<tagOf, batched, timer>>

Next ==
    \/ \E c \in Calls : PerformDirectly(c)
    \/ \E c \in Calls : PerformBatched(c)
    \/ DispatchCalls
    \/ \E r \in requests : RequestSucceeds(r)
    \/ \E r \in requests : RequestReverts(r)
    \/ \E r \in requests : RequestFails(r)

Spec == Init /\ [][Next]_vars

\* The timer fires, and the underlying provider settles what it was asked (it
\* has timeouts of its own).  Nothing obliges anybody to make a call.
Fairness ==
    /\ WF_vars(DispatchCalls)
    /\ \A c \in Calls :
          WF_vars(\E r \in requests : /\ c \in ToSet(r.callbacks)
                                      /\ \/ RequestSucceeds(r)
                                         \/ RequestReverts(r))

FairSpec == Spec /\ Fairness

-----------------------------------------------------------------------------
\* The calls of a batch or request are calls, and only a promise that is
\* resolved has an answer.
TypeOK ==
    /\ status \in [Calls -> {"new", "pending", "resolved", "rejected"}]
    /\ tagOf \in [Calls -> BlockTags]
    /\ batched \in Batches
    /\ timer \in BOOLEAN
    /\ requests \subseteq Batches
    /\ failures \in 0..MaxFailures
    /\ DOMAIN answer = Calls
    /\ \A c \in Calls : status[c] # "resolved" => answer[c] = NoAnswer

\* Whatever is batched with what, a call that succeeds returns its own result,
\* at the block it was made for.
AnswersAreOwn ==
    \A c \in Calls : status[c] = "resolved" => answer[c] = Answer(c, tagOf[c])

\* A batch that has calls will be dispatched, and none is dispatched empty.
BatchIsDue == timer <=> batched.calls # <<>>

\* A pending call waits in the batch or in exactly one request, once: no call
\* is lost between them or sent twice.
Batched(c) == c \in ToSet(batched.callbacks)
Sent(c, r) == c \in ToSet(r.callbacks)

EachCallInOnePlace ==
    /\ \A c \in Calls :
          status[c] = "pending" <=> Batched(c) \/ \E r \in requests : Sent(c, r)
    /\ \A c \in Calls, r \in requests : Sent(c, r) =>
          ~Batched(c) /\ \A q \in requests : Sent(c, q) => q = r
    /\ IsInjective(batched.callbacks)

\* Batching is invisible to the callers: BatchedProvider is a ReadProvider.
Provider == INSTANCE ReadProvider

BatchingIsInvisible == Provider!Spec

\* The promise of every call that is made settles.
EveryCallSettles ==
    \A c \in Calls : status[c] = "pending" ~> status[c] \in {"resolved", "rejected"}
=============================================================================
