--------------------------- MODULE Subgraph_proofs ---------------------------
(***************************************************************************)
(* Proofs about the subgraph, for any users, amounts, values and number of *)
(* calls.  The handlers of SubgraphStore come first, one lemma for what    *)
(* each of them keeps and one for what it does.  Then the contracts' calls:*)
(* the events a call emits, replayed on the books before it, lead to the   *)
(* books after it, and a store that agrees with the replayed books agrees  *)
(* with them still when an event has been handled.  SubgraphInvariant has  *)
(* the words of the lemmas and the inductive invariant.                    *)
(***************************************************************************)
EXTENDS SubgraphInvariant, FiniteSetTheorems, WellFoundedInduction, TLAPS

-----------------------------------------------------------------------------
(* The shape of a store.  Handlers only ever replace fields, so what one of *)
(* them leaves alone is read off the fields it names.                       *)

\* Replacing a field.
LEMMA FieldReplaced ==
    ASSUME NEW d, IsStore(d), NEW f \in StoreFields \ {"global"}, NEW x,
           NEW r, r = [d EXCEPT ![f] = x]
    PROVE  Keeps(d, r, {f}, {}) /\ r[f] = x
BY DEF Keeps, IsStore, StoreFields

LEMMA KeyReplaced ==
    ASSUME NEW d, IsStore(d), NEW k \in GlobalKeys, NEW x
    PROVE  Keeps(d, WithKey(d, k, x), {}, {k}) /\ WithKey(d, k, x).global[k] = x
<1> DEFINE r == WithKey(d, k, x)
<1>1. r.global = [d.global EXCEPT ![k] = x]
  BY DEF IsStore, StoreFields, WithKey
<1>2. \A f \in StoreFields \ {"global"} : r[f] = d[f]
  BY DEF IsStore, StoreFields, WithKey
<1>3. r = [f \in StoreFields |-> r[f]]
  BY DEF IsStore, StoreFields, WithKey
<1> HIDE DEF r
<1>4. IsStore(r)
  BY <1>1, <1>3 DEF IsStore
<1>5. r.global[k] = x /\ \A j \in GlobalKeys \ {k} : r.global[j] = d.global[j]
  BY <1>1 DEF IsStore
<1>6. Keeps(d, r, {}, {k}) /\ r.global[k] = x
  BY <1>2, <1>4, <1>5 DEF Keeps
<1> QED
  BY <1>6 DEF r

LEMMA CounterIncreased ==
    ASSUME NEW d, IsStore(d), NEW k \in GlobalKeys
    PROVE  /\ Keeps(d, IncreaseCounter(d, k), {}, {k})
           /\ IncreaseCounter(d, k).global[k] = d.global[k] + 1
<1>1. IncreaseCounter(d, k) = WithKey(d, k, d.global[k] + 1)
  BY DEF IncreaseCounter, WithKey
<1> QED
  BY <1>1, KeyReplaced

LEMMA CounterDecreased ==
    ASSUME NEW d, IsStore(d), NEW k \in GlobalKeys
    PROVE  /\ Keeps(d, DecreaseCounter(d, k), {}, {k})
           /\ DecreaseCounter(d, k).global[k] = d.global[k] - 1
<1>1. DecreaseCounter(d, k) = WithKey(d, k, d.global[k] - 1)
  BY DEF DecreaseCounter, WithKey
<1> QED
  BY <1>1, KeyReplaced

-----------------------------------------------------------------------------
(* The chain of changes.  Between two handlers it is whole; inside of one,  *)
(* from beginChange() to finishChange(), it lacks its last change.          *)

LEMMA ChainKept ==
    ASSUME NEW d, NEW r, ChainInv(d), NEW F, NEW K, Keeps(d, r, F, K),
           F \intersect {"change", "transaction"} = {}, K \intersect ChainKeys = {}
    PROVE  ChainInv(r) /\ SameChain(d, r)
<1>1. SameChain(d, r)
  BY DEF Keeps, SameChain, StoreFields, GlobalKeys, ChainKeys
<1> QED
  BY <1>1 DEF ChainInv, SameChain, ChainKeys

LEMMA TransactionFound ==
    ASSUME NEW d, NEW tx, IsStore(d), tx # Null,
           d.global.transactionCount \in Nat,
           d.transaction.hash # Null => d.transaction.sequenceNumber = d.global.transactionCount - 1
    PROVE  LET r == GetTransaction(d, tx)
           IN /\ Keeps(d, r, {"transaction"}, {"transactionCount"})
              /\ r.global.transactionCount \in Nat
              /\ r.transaction.hash = tx
              /\ r.transaction.sequenceNumber = r.global.transactionCount - 1
<1> DEFINE r == GetTransaction(d, tx)
           c == IncreaseCounter(d, "transactionCount")
           t == [hash |-> tx, sequenceNumber |-> d.global.transactionCount]
<1>1. CASE d.transaction.hash = tx
  BY <1>1 DEF GetTransaction, Keeps
<1>2. CASE d.transaction.hash # tx
  <2>1. r = [c EXCEPT !.transaction = t]
    BY <1>2 DEF GetTransaction
  <2>2. /\ Keeps(d, c, {}, {"transactionCount"})
        /\ c.global["transactionCount"] = d.global["transactionCount"] + 1
    BY CounterIncreased DEF GlobalKeys, ChainKeys
  <2>3. IsStore(c) /\ "transaction" \in StoreFields \ {"global"}
    BY <2>2 DEF Keeps, StoreFields
  <2> HIDE DEF t, r, c
  <2>4. Keeps(c, r, {"transaction"}, {}) /\ r["transaction"] = t
    BY <2>1, <2>3 DEF Keeps, IsStore, StoreFields
  <2>5. r.global.transactionCount = d.global.transactionCount + 1
    BY <2>2, <2>4 DEF Keeps, GlobalKeys, ChainKeys
  <2>6. Keeps(d, r, {"transaction"}, {"transactionCount"})
    BY <2>2, <2>4 DEF Keeps
  <2> QED
    BY <2>4, <2>5, <2>6 DEF t, r
<1> QED
  BY <1>1, <1>2

LEMMA CurrentStateFound ==
    ASSUME NEW d, IsStore(d),
           d.global.systemStateCount \in Nat,
           d.global.currentSystemState = d.global.systemStateCount - 1
    PROVE  LET r == GetCurrentSystemState(d)
           IN /\ Keeps(d, r, {"state"}, {"systemStateCount", "currentSystemState"})
              /\ r.global.systemStateCount
                    = d.global.systemStateCount
                          + (IF d.global.currentSystemState = Null THEN 1 ELSE 0)
              /\ r.global.currentSystemState = r.global.systemStateCount - 1
<1> DEFINE r == GetCurrentSystemState(d)
           c == IncreaseCounter(d, "systemStateCount")
           s == [NewSystemState EXCEPT !.id = d.global.systemStateCount]
           m == [c EXCEPT !["state"] = s]
<1>1. CASE d.global.currentSystemState # Null
  BY <1>1 DEF GetCurrentSystemState, Keeps
<1>2. CASE d.global.currentSystemState = Null
  <2>1. r = [m EXCEPT !.global.currentSystemState = d.global.systemStateCount]
    BY <1>2 DEF GetCurrentSystemState
  <2>2. /\ Keeps(d, c, {}, {"systemStateCount"})
        /\ c.global["systemStateCount"] = d.global["systemStateCount"] + 1
    BY CounterIncreased DEF GlobalKeys, ChainKeys
  <2>3. IsStore(c) /\ "state" \in StoreFields \ {"global"}
    BY <2>2 DEF Keeps, StoreFields
  <2> HIDE DEF s, c
  <2>4. Keeps(c, m, {"state"}, {})
    BY <2>3, FieldReplaced
  <2>5. IsStore(m) /\ "currentSystemState" \in GlobalKeys
    BY <2>4 DEF Keeps, GlobalKeys, ChainKeys
  <2> HIDE DEF m, r
  <2>6. Keeps(m, r, {}, {"currentSystemState"})
        /\ r.global["currentSystemState"] = d.global.systemStateCount
    <3>1. r.global = [m.global EXCEPT !.currentSystemState = d.global.systemStateCount]
      BY <2>1, <2>5 DEF IsStore, StoreFields
    <3>2. IsStore(r) /\ \A f \in StoreFields \ {"global"} : r[f] = m[f]
      BY <2>1, <2>5 DEF IsStore, StoreFields
    <3> QED
      BY <3>1, <3>2, <2>5 DEF IsStore, Keeps
  <2>7. Keeps(d, r, {"state"}, {"systemStateCount", "currentSystemState"})
    BY <2>2, <2>4, <2>6 DEF Keeps
  <2>8. r.global.systemStateCount = d.global.systemStateCount + 1
    BY <2>2, <2>4, <2>6 DEF Keeps, GlobalKeys, ChainKeys
  <2> QED
    BY <1>2, <2>6, <2>7, <2>8 DEF r
<1> QED
  BY <1>1, <1>2

LEMMA ChangeBegun ==
    ASSUME NEW d, NEW e, IsStore(d), ChainInv(d), e.tx # Null
    PROVE  LET r == BeginChange(d, e)
           IN /\ Keeps(d, r, {"state", "transaction"}, ChainKeys)
              /\ BegunInv(r, e.tx)
<1> DEFINE c == IncreaseCounter(d, "changeCount")
           t == GetTransaction(c, e.tx)
           r == GetCurrentSystemState(t)
<1>1. /\ Keeps(d, c, {}, {"changeCount"})
      /\ c.global["changeCount"] = d.global["changeCount"] + 1
  BY CounterIncreased DEF GlobalKeys, ChainKeys
<1> HIDE DEF c
<1>2. /\ IsStore(c)
      /\ c.global.transactionCount \in Nat
      /\ c.transaction.hash # Null
            => c.transaction.sequenceNumber = c.global.transactionCount - 1
      /\ c.global.systemStateCount = d.global.systemStateCount
      /\ c.global.currentSystemState = d.global.currentSystemState
  BY <1>1 DEF Keeps, ChainInv, GlobalKeys, ChainKeys, StoreFields
<1>3. /\ Keeps(c, t, {"transaction"}, {"transactionCount"})
      /\ t.global.transactionCount \in Nat
      /\ t.transaction.hash = e.tx
      /\ t.transaction.sequenceNumber = t.global.transactionCount - 1
  BY <1>2, TransactionFound
<1> HIDE DEF t
<1>4. /\ IsStore(t)
      /\ t.global.systemStateCount = d.global.systemStateCount
      /\ t.global.currentSystemState = d.global.currentSystemState
      /\ t.global.changeCount = d.global.changeCount + 1
  BY <1>1, <1>2, <1>3 DEF Keeps, GlobalKeys, ChainKeys
<1>5. /\ Keeps(t, r, {"state"}, {"systemStateCount", "currentSystemState"})
      /\ r.global.systemStateCount
            = t.global.systemStateCount
                  + (IF t.global.currentSystemState = Null THEN 1 ELSE 0)
      /\ r.global.currentSystemState = r.global.systemStateCount - 1
  BY <1>4, CurrentStateFound DEF ChainInv
<1>6. r = BeginChange(d, e)
  BY DEF BeginChange, t, c
<1> HIDE DEF r
<1>7. Keeps(d, r, {"state", "transaction"}, ChainKeys)
  BY <1>1, <1>3, <1>5 DEF Keeps, ChainKeys
<1>8. /\ r.transaction = t.transaction
      /\ r.global.transactionCount = t.global.transactionCount
      /\ r.global.changeCount = t.global.changeCount
  BY <1>5 DEF Keeps, StoreFields, GlobalKeys, ChainKeys
<1>9. BegunInv(r, e.tx)
  BY <1>3, <1>4, <1>5, <1>8 DEF BegunInv, ChainInv, Null
<1> QED
  BY <1>6, <1>7, <1>9

LEMMA StateBumped ==
    ASSUME NEW d, IsStore(d), NEW s
    PROVE  LET r == BumpSystemState(d, s)
           IN /\ Keeps(d, r, {"state"}, {"systemStateCount", "currentSystemState"})
              /\ r.global.systemStateCount = d.global.systemStateCount + 1
              /\ r.global.currentSystemState = d.global.systemStateCount
<1> DEFINE c == IncreaseCounter(d, "systemStateCount")
           m == [c EXCEPT !.state = [s EXCEPT !.id = d.global.systemStateCount]]
           r == BumpSystemState(d, s)
<1>1. /\ Keeps(d, c, {}, {"systemStateCount"})
      /\ c.global["systemStateCount"] = d.global["systemStateCount"] + 1
  BY CounterIncreased DEF GlobalKeys, ChainKeys
<1>2. r = [m EXCEPT !.global.currentSystemState = d.global.systemStateCount]
  BY DEF BumpSystemState
<1> HIDE DEF c, r
<1>3. Keeps(c, m, {"state"}, {}) /\ m.global = c.global
  BY <1>1 DEF Keeps, IsStore, StoreFields
<1> HIDE DEF m
<1>4. r.global = [m.global EXCEPT !.currentSystemState = d.global.systemStateCount]
  BY <1>2, <1>3 DEF Keeps, IsStore, StoreFields
<1>5. IsStore(r) /\ \A f \in StoreFields \ {"global"} : r[f] = m[f]
  BY <1>2, <1>3 DEF Keeps, IsStore, StoreFields
<1>6. /\ r.global.currentSystemState = d.global.systemStateCount
      /\ \A k \in GlobalKeys \ {"currentSystemState"} : r.global[k] = m.global[k]
  BY <1>3, <1>4 DEF Keeps, IsStore, GlobalKeys, ChainKeys
<1>7. Keeps(d, r, {"state"}, {"systemStateCount", "currentSystemState"})
  BY <1>1, <1>3, <1>5, <1>6 DEF Keeps
<1>8. r.global.systemStateCount = d.global.systemStateCount + 1
  BY <1>1, <1>3, <1>6 DEF GlobalKeys, ChainKeys
<1> QED
  BY <1>6, <1>7, <1>8 DEF r

\* What happens between beginChange() and finishChange(), the store l, leaves
\* the numbers alone; then the chain is one change longer.
LEMMA ChangeFinished ==
    ASSUME NEW b, NEW l, NEW e, NEW kind, NEW owner, NEW operation, NEW s,
           IsStore(l), BegunInv(b, e.tx),
           \A k \in ChainKeys : l.global[k] = b.global[k],
           l.transaction = b.transaction
    PROVE  LET r == FinishChange(BumpSystemState(l, s),
                                 InitChange(b, e, kind, owner, operation))
           IN /\ Keeps(l, r, {"state", "change"}, {"systemStateCount", "currentSystemState"})
              /\ ChainInv(r)
              /\ r.change.kind = kind
              /\ r.change.owner = owner
              /\ r.change.transaction = r.global.transactionCount - 1
              /\ r.global.changeCount > 0
<1> DEFINE p == BumpSystemState(l, s)
           change == InitChange(b, e, kind, owner, operation)
           full == [change EXCEPT !.after = p.global.currentSystemState]
           r == [p EXCEPT !.change = full]
<1>1. /\ Keeps(l, p, {"state"}, {"systemStateCount", "currentSystemState"})
      /\ p.global.systemStateCount = l.global.systemStateCount + 1
      /\ p.global.currentSystemState = l.global.systemStateCount
  BY StateBumped
<1>2. /\ full.id = b.global.changeCount - 1
      /\ full.before = b.global.currentSystemState
      /\ full.after = p.global.currentSystemState
      /\ full.transaction = b.transaction.sequenceNumber
      /\ full.kind = kind
      /\ full.owner = owner
      /\ full = [f \in ChangeNames |-> full[f]]
  BY DEF InitChange, ChangeNames
<1>3. r = FinishChange(p, change)
  BY DEF FinishChange
<1> HIDE DEF p, change, full
<1>4. /\ IsStore(r) /\ r.global = p.global /\ r.change = full
      /\ \A f \in StoreFields \ {"global", "change"} : r[f] = p[f]
  BY <1>1 DEF Keeps, IsStore, StoreFields
<1> HIDE DEF r
<1>5. Keeps(l, r, {"state", "change"}, {"systemStateCount", "currentSystemState"})
  BY <1>1, <1>4 DEF Keeps
<1>6. /\ r.global.systemStateCount = b.global.systemStateCount + 1
      /\ r.global.currentSystemState = b.global.systemStateCount
      /\ r.global.changeCount = b.global.changeCount
      /\ r.global.transactionCount = b.global.transactionCount
      /\ r.transaction = b.transaction
  BY <1>1, <1>4 DEF Keeps, StoreFields, GlobalKeys, ChainKeys
<1>7. ChainInv(r)
  BY <1>1, <1>2, <1>4, <1>6 DEF BegunInv, ChainInv, Null
<1>8. /\ r.change.kind = kind
      /\ r.change.owner = owner
      /\ r.change.transaction = r.global.transactionCount - 1
      /\ r.global.changeCount > 0
  BY <1>2, <1>4, <1>6 DEF BegunInv
<1> QED
  BY <1>3, <1>5, <1>7, <1>8 DEF p, change

\* Finding the current state again breaks no chain.
LEMMA ChainAfterState ==
    ASSUME NEW d, IsStore(d), ChainInv(d)
    PROVE  LET r == GetCurrentSystemState(d)
           IN /\ Keeps(d, r, {"state"}, {"systemStateCount", "currentSystemState"})
              /\ ChainInv(r)
<1> DEFINE r == GetCurrentSystemState(d)
<1>1. /\ Keeps(d, r, {"state"}, {"systemStateCount", "currentSystemState"})
      /\ r.global.systemStateCount
            = d.global.systemStateCount
                  + (IF d.global.currentSystemState = Null THEN 1 ELSE 0)
      /\ r.global.currentSystemState = r.global.systemStateCount - 1
  BY CurrentStateFound DEF ChainInv
<1> HIDE DEF r
<1>2. /\ r.global.transactionCount = d.global.transactionCount
      /\ r.global.changeCount = d.global.changeCount
      /\ r.change = d.change
      /\ r.transaction = d.transaction
  BY <1>1 DEF Keeps, StoreFields, GlobalKeys, ChainKeys
<1>3. ChainInv(r)
  BY <1>1, <1>2 DEF ChainInv, Null
<1> QED
  BY <1>1, <1>3 DEF r

\* A handler that makes one change in between, and leaves alone all but F and K.
LEMMA PriceHandled ==
    ASSUME NEW d, NEW e, IsStore(d), ChainInv(d), e.tx # Null
    PROVE  /\ Keeps(d, UpdatePrice(d, e), {"state", "transaction", "change"}, ChainKeys)
           /\ ChainInv(UpdatePrice(d, e))
<1> DEFINE current == GetCurrentSystemState(d)
           begun   == BeginChange(current, e)
           next    == [begun.state EXCEPT !.price = e.price]
           r       == FinishChange(BumpSystemState(begun, next),
                                   InitChange(begun, e, "price", Nobody, "none"))
           first   == [current EXCEPT !.state = [current.state EXCEPT !.price = e.price]]
<1>1. /\ Keeps(d, current, {"state"}, {"systemStateCount", "currentSystemState"})
      /\ ChainInv(current)
  BY ChainAfterState
<1>2. UpdatePrice(d, e) \in {first, current, r}
  BY DEF UpdatePrice
<1> HIDE DEF current
<1>3. /\ Keeps(current, begun, {"state", "transaction"}, ChainKeys)
      /\ BegunInv(begun, e.tx)
  BY <1>1, ChangeBegun DEF Keeps
<1> HIDE DEF begun
<1>4. IsStore(begun)
  BY <1>3 DEF Keeps
<1> HIDE DEF next
<1>5. /\ Keeps(begun, r, {"state", "change"}, {"systemStateCount", "currentSystemState"})
      /\ ChainInv(r)
  BY <1>3, <1>4, ChangeFinished
<1> HIDE DEF r
<1>6. Keeps(current, first, {"state"}, {})
  BY <1>1 DEF Keeps, IsStore, StoreFields
<1> HIDE DEF first
<1>7. ChainInv(first)
  BY <1>1, <1>6, ChainKept
<1>8. /\ Keeps(d, first, {"state", "transaction", "change"}, ChainKeys)
      /\ Keeps(d, current, {"state", "transaction", "change"}, ChainKeys)
      /\ Keeps(d, r, {"state", "transaction", "change"}, ChainKeys)
  BY <1>1, <1>3, <1>5, <1>6 DEF Keeps, ChainKeys
<1> QED
  BY <1>1, <1>2, <1>5, <1>7, <1>8

-----------------------------------------------------------------------------
(* The numbers of the current state.  Until there is one they are zero, as  *)
(* they are in a new state.                                                 *)

LEMMA StateKept ==
    ASSUME NEW d, NEW r, HasState(d), NEW F, NEW K, Keeps(d, r, F, K),
           "state" \notin F, "currentSystemState" \notin K
    PROVE  Steady(d, r)
<1>1. r.state = d.state /\ r.global.currentSystemState = d.global.currentSystemState
  BY DEF Keeps, StoreFields, GlobalKeys, ChainKeys
<1> QED
  BY <1>1 DEF Steady, HasState, SameNumbers

LEMMA NewStateIsFresh ==
    ASSUME NEW n
    PROVE  LET s == [NewSystemState EXCEPT !.id = n]
           IN IsState(s) /\ s.price = Null /\ \A f \in TallyNames : s[f] = 0
BY DEF IsState, NewSystemState, TallyNames, StateNames

LEMMA CurrentStateIsSteady ==
    ASSUME NEW d, IsStore(d), HasState(d), d.global.systemStateCount \in Nat
    PROVE  LET r == GetCurrentSystemState(d)
           IN Steady(d, r) /\ r.global.currentSystemState # Null
<1> DEFINE r == GetCurrentSystemState(d)
           n == d.global.systemStateCount
           s == [NewSystemState EXCEPT !.id = n]
<1>1. CASE d.global.currentSystemState # Null
  <2>1. r = d
    BY <1>1 DEF GetCurrentSystemState
  <2> QED
    BY <1>1, <2>1 DEF Steady, SameNumbers
<1>2. CASE d.global.currentSystemState = Null
  <2>1. r.state = s /\ r.global.currentSystemState = n
    BY <1>2 DEF GetCurrentSystemState, IncreaseCounter, IsStore, StoreFields, GlobalKeys,
                ChainKeys
  <2>2. IsState(s) /\ s.price = Null /\ \A f \in TallyNames : s[f] = 0
    BY NewStateIsFresh
  <2>3. n \in Nat /\ n # Null
    BY DEF Null
  <2> HIDE DEF r, s, n
  <2>4. SameNumbers(d.state, r.state)
    BY <1>2, <2>1, <2>2 DEF HasState, SameNumbers
  <2> QED
    BY <2>1, <2>2, <2>3, <2>4 DEF Steady, HasState, r
<1> QED
  BY <1>1, <1>2

LEMMA SteadyTwice ==
    ASSUME NEW d, NEW e, NEW r, Steady(d, e), Steady(e, r)
    PROVE  Steady(d, r)
BY DEF Steady, SameNumbers

LEMMA StateBegun ==
    ASSUME NEW d, NEW e, IsStore(d), ChainInv(d), HasState(d), e.tx # Null
    PROVE  Steady(d, BeginChange(d, e))
<1> DEFINE c == IncreaseCounter(d, "changeCount")
           t == GetTransaction(c, e.tx)
           r == GetCurrentSystemState(t)
<1>1. BeginChange(d, e) = r
  BY DEF BeginChange
<1>2. Keeps(d, c, {}, {"changeCount"})
  BY CounterIncreased DEF GlobalKeys, ChainKeys
<1> HIDE DEF c
<1>3. /\ IsStore(c) /\ c.transaction = d.transaction
      /\ c.global.transactionCount = d.global.transactionCount
      /\ c.global.systemStateCount = d.global.systemStateCount
  BY <1>2 DEF Keeps, StoreFields, GlobalKeys, ChainKeys
<1>4. /\ c.global.transactionCount \in Nat
      /\ c.transaction.hash # Null =>
            c.transaction.sequenceNumber = c.global.transactionCount - 1
  BY <1>3 DEF ChainInv
<1>5. Keeps(c, t, {"transaction"}, {"transactionCount"})
  BY <1>3, <1>4, TransactionFound
<1> HIDE DEF t
<1>6. IsStore(t) /\ t.global.systemStateCount = c.global.systemStateCount
  BY <1>5 DEF Keeps, GlobalKeys, ChainKeys
<1>7. t.global.systemStateCount \in Nat
  BY <1>3, <1>6 DEF ChainInv
<1>8. Steady(d, c)
  BY <1>2, StateKept
<1>9. Steady(c, t)
  BY <1>5, <1>8, StateKept DEF Steady
<1>10. Steady(t, r)
  BY <1>6, <1>7, <1>9, CurrentStateIsSteady DEF Steady
<1> HIDE DEF r
<1> QED
  BY <1>1, <1>8, <1>9, <1>10, SteadyTwice

LEMMA StateSettled ==
    ASSUME NEW d, IsStore(d), d.global.systemStateCount \in Nat, NEW s, IsState(s), NEW change
    PROVE  Settles(FinishChange(BumpSystemState(d, s), change), s)
<1> DEFINE n == d.global.systemStateCount
           t == [s EXCEPT !.id = n]
           b == BumpSystemState(d, s)
           r == FinishChange(b, change)
<1>1. b.state = t /\ b.global.currentSystemState = n
  BY DEF BumpSystemState, IncreaseCounter, IsStore, StoreFields, GlobalKeys, ChainKeys
<1>2. IsStore(b)
  BY StateBumped DEF Keeps
<1> HIDE DEF b
<1>3. r.state = t /\ r.global.currentSystemState = n
  BY <1>1, <1>2 DEF FinishChange, IsStore, StoreFields
<1> HIDE DEF r
<1>4. IsState(t) /\ SameNumbers(s, t)
  BY DEF IsState, SameNumbers, StateNames, TallyNames
<1>5. n # Null
  BY DEF Null
<1> HIDE DEF t, n
<1> QED
  BY <1>3, <1>4, <1>5 DEF Settles, HasState, r, b

LEMMA OneChangeSettles ==
    ASSUME NEW d, NEW e, NEW kind, NEW owner, NEW operation, NEW s,
           IsStore(d), ChainInv(d), e.tx # Null, IsState(s)
    PROVE  LET begun == BeginChange(d, e)
               r == FinishChange(BumpSystemState(begun, s),
                                 InitChange(begun, e, kind, owner, operation))
           IN Settles(r, s)
<1> DEFINE begun == BeginChange(d, e)
<1>1. IsStore(begun) /\ begun.global.systemStateCount \in Nat
  BY ChangeBegun DEF Keeps, BegunInv
<1> HIDE DEF begun
<1> QED
  BY <1>1, StateSettled DEF begun

LEMMA SteadyMoves ==
    ASSUME NEW d, NEW r, HasState(d), Steady(d, r), NEW f
    PROVE  Moves(d, r, Only(f, 0))
<1>1. \A g \in TallyNames : Only(f, 0)[g] = 0
  BY DEF Only
<1> QED
  BY <1>1 DEF Moves, Steady, SameNumbers, HasState, IsState

LEMMA NumberMoved ==
    ASSUME NEW d, NEW b, NEW r, NEW f \in TallyNames, NEW n \in Int, HasState(d), Steady(d, b)
    PROVE  LET s == [b.state EXCEPT ![f] = @ + n]
           IN IsState(s) /\ (Settles(r, s) => Moves(d, r, Only(f, n)))
<1> DEFINE s == [b.state EXCEPT ![f] = @ + n]
<1>1. IsState(b.state) /\ SameNumbers(d.state, b.state) /\ IsState(d.state)
  BY DEF Steady, HasState
<1>2. /\ s = [g \in StateNames |-> s[g]]
      /\ \A g \in StateNames \ {f} : s[g] = b.state[g]
      /\ s[f] = b.state[f] + n
  BY <1>1 DEF IsState, StateNames
<1> HIDE DEF s
<1>3. \A g \in TallyNames : /\ b.state[g] = d.state[g] /\ d.state[g] \in Int
                            /\ s[g] = IF g = f THEN b.state[f] + n ELSE b.state[g]
  BY <1>1, <1>2 DEF SameNumbers, IsState, StateNames
<1>4. \A g \in TallyNames : /\ Only(f, n)[g] \in Int /\ s[g] \in Int
                            /\ s[g] = d.state[g] + Only(f, n)[g]
  BY <1>3 DEF Only
<1>5. s.price = d.state.price
  BY <1>1, <1>2 DEF SameNumbers, StateNames, TallyNames
<1>6. Settles(r, s) => Moves(d, r, Only(f, n))
  BY <1>4, <1>5 DEF Settles, SameNumbers, Moves
<1> QED
  BY <1>2, <1>4, <1>6 DEF s, IsState

\* A price changes no other number.
LEMMA PriceSteady ==
    ASSUME NEW d, NEW e, IsStore(d), ChainInv(d), HasState(d), e.tx # Null
    PROVE  LET r == UpdatePrice(d, e)
           IN /\ HasState(r) /\ r.state.price = e.price
              /\ \A f \in TallyNames : r.state[f] = d.state[f]
<1> DEFINE current == GetCurrentSystemState(d)
           begun   == BeginChange(current, e)
           Priced(s) == [s EXCEPT !.price = e.price]
           change  == InitChange(begun, e, "price", Nobody, "none")
           done    == FinishChange(BumpSystemState(begun, Priced(begun.state)), change)
           first   == [current EXCEPT !.state = Priced(current.state)]
           Right(r) == /\ HasState(r) /\ r.state.price = e.price
                       /\ \A f \in TallyNames : r.state[f] = d.state[f]
<1>1. /\ Keeps(d, current, {"state"}, {"systemStateCount", "currentSystemState"})
      /\ ChainInv(current)
  BY ChainAfterState
<1>2. Steady(d, current) /\ current.global.currentSystemState # Null
  BY CurrentStateIsSteady DEF ChainInv
<1>3. IsStore(current)
  BY <1>1 DEF Keeps
<1>4. UpdatePrice(d, e) = IF current.state.price = Null THEN first
                          ELSE IF e.price = current.state.price THEN current ELSE done
  BY DEF UpdatePrice
<1> HIDE DEF current
<1>5. ASSUME NEW s, IsState(s)
      PROVE  /\ IsState(Priced(s)) /\ Priced(s).price = e.price
             /\ \A f \in TallyNames : Priced(s)[f] = s[f]
  BY <1>5 DEF IsState, StateNames, TallyNames
<1>6. IsState(current.state) /\ \A f \in TallyNames : current.state[f] = d.state[f]
  BY <1>2 DEF Steady, HasState, SameNumbers
<1>7. Right(first)
  <2>1. first.state = Priced(current.state) /\ first.global = current.global
    BY <1>3 DEF IsStore, StoreFields
  <2> HIDE DEF first, Priced
  <2> QED
    BY <1>2, <1>5, <1>6, <2>1 DEF HasState
<1>8. e.price = current.state.price => Right(current)
  BY <1>2, <1>6 DEF Steady
<1>9. Right(done)
  <2>1. Steady(current, begun)
    BY <1>1, <1>2, <1>3, StateBegun DEF Steady
  <2> HIDE DEF Priced
  <2>2. IsState(begun.state) /\ \A f \in TallyNames : begun.state[f] = d.state[f]
    BY <1>6, <2>1 DEF Steady, HasState, SameNumbers
  <2>3. IsState(Priced(begun.state))
    BY <1>5, <2>2
  <2>4. Settles(done, Priced(begun.state))
    BY <1>1, <1>3, <2>3, OneChangeSettles
  <2> HIDE DEF done, begun
  <2> QED
    BY <1>5, <2>2, <2>4 DEF Settles, SameNumbers
<1> QED
  BY <1>4, <1>7, <1>8, <1>9

-----------------------------------------------------------------------------
(* Changes of a trove.                                                      *)

LEMMA Keys ==
    /\ KeyOf("open") = "numberOfOpenTroves"
    /\ KeyOf("closedByOwner") = "numberOfTrovesClosedByOwner"
    /\ KeyOf("closedByLiquidation") = "numberOfLiquidatedTroves"
    /\ KeyOf("closedByRedemption") = "numberOfRedeemedTroves"
BY DEF KeyOf, CounterOf

LEMMA TroveGot ==
    ASSUME NEW d, NEW u \in Users, IsStore(d), HasTroves(d), CountersAreNumbers(d)
    PROVE  LET r == GetTrove(d, u)
               status == IF d.troves[u].status = "nonExistent" THEN "open"
                         ELSE d.troves[u].status
           IN /\ Keeps(d, r, {"troves"}, {"numberOfOpenTroves", "totalNumberOfTroves"})
              /\ r.troves = [d.troves EXCEPT ![u] = [@ EXCEPT !.status = status]]
              /\ Recounts(d, r, d.troves[u].status, status)
              /\ CountersAreNumbers(r)
<1> DEFINE r == GetTrove(d, u)
           c == IncreaseCounter(d, "numberOfOpenTroves")
           c2 == IncreaseCounter(c, "totalNumberOfTroves")
<1>1. CASE d.troves[u].status # "nonExistent"
  <2>1. r = d
    BY <1>1 DEF GetTrove
  <2>2. [d.troves EXCEPT ![u] = [@ EXCEPT !.status = d.troves[u].status]] = d.troves
    BY DEF HasTroves, TroveNames
  <2>3. Recounts(d, d, d.troves[u].status, d.troves[u].status)
    BY <1>1, Keys DEF Recounts, CountersAreNumbers, TroveCounters, HasTroves, Statuses, ClosedStatuses
  <2> QED
    BY <1>1, <2>1, <2>2, <2>3 DEF Keeps
<1>2. CASE d.troves[u].status = "nonExistent"
  <2>1. r = [c2 EXCEPT !.troves = [c2.troves EXCEPT ![u] = [c2.troves[u] EXCEPT !.status = "open"]]]
    BY <1>2 DEF GetTrove
  <2>2. /\ Keeps(d, c, {}, {"numberOfOpenTroves"})
        /\ c.global["numberOfOpenTroves"] = d.global["numberOfOpenTroves"] + 1
    BY CounterIncreased DEF GlobalKeys, TroveCounters
  <2> HIDE DEF c
  <2>3. /\ Keeps(c, c2, {}, {"totalNumberOfTroves"})
        /\ c2.global["totalNumberOfTroves"] = c.global["totalNumberOfTroves"] + 1
    BY <2>2, CounterIncreased DEF GlobalKeys, TroveCounters, Keeps
  <2> HIDE DEF c2, r
  <2>4. c2.troves = d.troves
    BY <2>2, <2>3 DEF Keeps, StoreFields
  <2>5. /\ Keeps(c2, r, {"troves"}, {})
        /\ r.troves = [c2.troves EXCEPT ![u] = [c2.troves[u] EXCEPT !.status = "open"]]
        /\ r.global = c2.global
    BY <2>1, <2>3 DEF Keeps, IsStore, StoreFields
  <2>6. Keeps(d, r, {"troves"}, {"numberOfOpenTroves", "totalNumberOfTroves"})
    BY <2>2, <2>3, <2>5 DEF Keeps
  <2>7. /\ r.global["numberOfOpenTroves"] = d.global["numberOfOpenTroves"] + 1
        /\ r.global["totalNumberOfTroves"] = d.global["totalNumberOfTroves"] + 1
    BY <2>2, <2>3, <2>5 DEF Keeps, GlobalKeys, TroveCounters
  <2>8. /\ r.global["numberOfTrovesClosedByOwner"] = d.global["numberOfTrovesClosedByOwner"]
        /\ r.global["numberOfLiquidatedTroves"] = d.global["numberOfLiquidatedTroves"]
        /\ r.global["numberOfRedeemedTroves"] = d.global["numberOfRedeemedTroves"]
    BY <2>6 DEF Keeps, GlobalKeys, TroveCounters
  <2>9. Recounts(d, r, "nonExistent", "open")
    BY <2>7, <2>8, Keys DEF Recounts, Statuses, ClosedStatuses, CountersAreNumbers, TroveCounters
  <2>10. CountersAreNumbers(r)
    BY <2>7, <2>8 DEF CountersAreNumbers, TroveCounters
  <2> QED
    BY <1>2, <2>4, <2>5, <2>6, <2>9, <2>10 DEF r
<1> QED
  BY <1>1, <1>2

LEMMA StatusSet ==
    ASSUME NEW d, NEW u \in Users, NEW status \in Statuses \ {"nonExistent"},
           IsStore(d), HasTroves(d), CountersAreNumbers(d),
           d.troves[u].status # "nonExistent",
           d.troves[u].status = status \/ "open" \in {status, d.troves[u].status}
    PROVE  LET r == SetTroveStatus(d, u, status)
           IN /\ Keeps(d, r, {"troves"}, TroveCounters)
              /\ r.troves = [d.troves EXCEPT ![u] = [@ EXCEPT !.status = status]]
              /\ Recounts(d, r, d.troves[u].status, status)
              /\ CountersAreNumbers(r)
<1> DEFINE before == d.troves[u].status
           m == [d EXCEPT !.troves = [d.troves EXCEPT ![u] = [d.troves[u] EXCEPT !.status = status]]]
           r == SetTroveStatus(d, u, status)
<1>1. CASE status = before
  <2>1. r = d
    BY <1>1 DEF SetTroveStatus
  <2>2. [d.troves EXCEPT ![u] = [@ EXCEPT !.status = d.troves[u].status]] = d.troves
    BY DEF HasTroves, TroveNames
  <2>3. Recounts(d, d, d.troves[u].status, d.troves[u].status)
    BY Keys DEF Recounts, CountersAreNumbers, TroveCounters, HasTroves, Statuses, ClosedStatuses
  <2> QED
    BY <1>1, <2>1, <2>2, <2>3 DEF Keeps
<1>2. /\ Keeps(d, m, {"troves"}, {})
      /\ m.troves = [d.troves EXCEPT ![u] = [@ EXCEPT !.status = status]]
      /\ m.global = d.global
  BY DEF Keeps, IsStore, StoreFields
<1>3. /\ before \in Statuses \ {"nonExistent"}
      /\ \A s \in Statuses \ {"nonExistent"} :
            /\ KeyOf(s) \in TroveCounters \ {"totalNumberOfTroves"}
            /\ \A q \in Statuses \ {"nonExistent"} : KeyOf(s) = KeyOf(q) => s = q
  BY Keys DEF HasTroves, Statuses, ClosedStatuses, TroveCounters
<1>4. CASE before # status /\ (status = "open" \/ before = "open")
  <2> DEFINE c == IncreaseCounter(m, KeyOf(status))
             q == DecreaseCounter(c, KeyOf(before))
  <2>1. r = q
    BY <1>4 DEF SetTroveStatus, KeyOf
  <2>2. /\ Keeps(m, c, {}, {KeyOf(status)})
        /\ c.global[KeyOf(status)] = m.global[KeyOf(status)] + 1
    <3>1. IsStore(m) /\ KeyOf(status) \in GlobalKeys
      BY <1>2, <1>3 DEF Keeps, GlobalKeys
    <3> HIDE DEF m
    <3> QED
      BY <3>1, CounterIncreased
  <2> HIDE DEF c
  <2>3. /\ Keeps(c, q, {}, {KeyOf(before)})
        /\ q.global[KeyOf(before)] = c.global[KeyOf(before)] - 1
    <3>1. IsStore(c) /\ KeyOf(before) \in GlobalKeys
      BY <2>2, <1>3 DEF Keeps, GlobalKeys
    <3> HIDE DEF before
    <3> QED
      BY <3>1, CounterDecreased
  <2> HIDE DEF m, q, r
  <2>4. q.troves = m.troves
    BY <2>2, <2>3 DEF Keeps, StoreFields
  <2>5. \A k \in GlobalKeys : q.global[k] =
           IF k = KeyOf(status) THEN d.global[k] + 1
           ELSE IF k = KeyOf(before) THEN d.global[k] - 1 ELSE d.global[k]
    BY <1>2, <1>3, <1>4, <2>2, <2>3 DEF Keeps
  <2>6. Keeps(d, q, {"troves"}, TroveCounters)
    BY <1>2, <1>3, <2>2, <2>3, <2>5 DEF Keeps
  <2>7. CountersAreNumbers(q)
    BY <2>5 DEF CountersAreNumbers, GlobalKeys
  <2>8. Recounts(d, q, before, status)
    <3>1. q.global.totalNumberOfTroves = d.global.totalNumberOfTroves
      BY <1>3, <2>5 DEF GlobalKeys, TroveCounters
    <3>2. \A s \in Statuses \ {"nonExistent"} :
             q.global[KeyOf(s)] = d.global[KeyOf(s)] + (IF s = status THEN 1 ELSE 0)
                                                     - (IF s = before THEN 1 ELSE 0)
      BY <1>3, <1>4, <2>5 DEF CountersAreNumbers, GlobalKeys
    <3> QED
      BY <1>3, <3>1, <3>2 DEF Recounts, CountersAreNumbers, TroveCounters
  <2> QED
    BY <1>2, <2>1, <2>4, <2>6, <2>7, <2>8 DEF r
<1> QED
  BY <1>1, <1>4

LEMMA LiquidationGot ==
    ASSUME NEW d, NEW e, IsStore(d), HasCalls(d), e.tx # Null,
           d.global.transactionCount \in Nat,
           d.transaction.hash # Null => d.transaction.sequenceNumber = d.global.transactionCount - 1
    PROVE  LET r == GetCurrentLiquidation(d, e)
               F == {"liquidation", "transaction"}
               K == {"transactionCount", "liquidationCount", "currentLiquidation"}
           IN /\ Keeps(d, r, F, K)
              /\ r.global.transactionCount \in Nat
              /\ r.transaction.hash # Null => r.transaction.sequenceNumber = r.global.transactionCount - 1
              /\ d.transaction.hash = e.tx => /\ r.transaction = d.transaction
                                              /\ r.global.transactionCount = d.global.transactionCount
              /\ HasCalls(r)
              /\ r.liquidation.troves = IF d.global.currentLiquidation # Null
                                      THEN d.liquidation.troves ELSE {}
              /\ r.global.currentLiquidation # Null
<1> DEFINE r == GetCurrentLiquidation(d, e)
           F == {"liquidation", "transaction"}
           K == {"transactionCount", "liquidationCount", "currentLiquidation"}
           c == IncreaseCounter(d, "liquidationCount")
           t == GetTransaction(c, e.tx)
           new == [id |-> d.global.liquidationCount, debt |-> 0, collateral |-> 0,
                   troves |-> {}]
           m == [t EXCEPT !.liquidation = new]
           q == [m EXCEPT !.global.currentLiquidation = d.global.liquidationCount]
<1>1. CASE d.global.currentLiquidation # Null
  BY <1>1 DEF GetCurrentLiquidation, Keeps
<1>2. CASE d.global.currentLiquidation = Null
  <2>1. r = q
    BY <1>2 DEF GetCurrentLiquidation
  <2>2. /\ Keeps(d, c, {}, {"liquidationCount"})
        /\ c.global["liquidationCount"] = d.global["liquidationCount"] + 1
    BY CounterIncreased DEF GlobalKeys, OtherKeys
  <2> HIDE DEF c
  <2>3. /\ IsStore(c) /\ c.transaction = d.transaction
        /\ c.global.transactionCount = d.global.transactionCount
    BY <2>2 DEF Keeps, StoreFields, GlobalKeys, ChainKeys
  <2>4. /\ Keeps(c, t, {"transaction"}, {"transactionCount"})
        /\ t.global.transactionCount \in Nat
        /\ t.transaction.hash = e.tx
        /\ t.transaction.sequenceNumber = t.global.transactionCount - 1
    BY <2>3, TransactionFound
  <2>5. d.transaction.hash = e.tx => t = c
    BY <2>3 DEF GetTransaction
  <2> HIDE DEF t
  <2>6. /\ new.troves = {}
        /\ new = [f \in {"id", "debt", "collateral", "troves"} |-> new[f]]
    OBVIOUS
  <2> HIDE DEF new
  <2>7. /\ Keeps(t, m, {"liquidation"}, {}) /\ m.liquidation = new /\ m.global = t.global
    BY <2>4 DEF Keeps, IsStore, StoreFields
  <2> HIDE DEF m
  <2>8. /\ q.global = [m.global EXCEPT !.currentLiquidation = d.global.liquidationCount]
        /\ IsStore(q) /\ \A f \in StoreFields \ {"global"} : q[f] = m[f]
    BY <2>7 DEF Keeps, IsStore, StoreFields
  <2> HIDE DEF q, r
  <2>9. /\ q.global.currentLiquidation = d.global.liquidationCount
        /\ \A k \in GlobalKeys \ {"currentLiquidation"} : q.global[k] = t.global[k]
    BY <2>7, <2>8 DEF Keeps, IsStore, GlobalKeys, OtherKeys
  <2>10. Keeps(d, q, F, K)
    BY <2>2, <2>4, <2>7, <2>8, <2>9 DEF Keeps
  <2>11. /\ q.transaction = t.transaction /\ q.liquidation = new
         /\ q.redemption = d.redemption
         /\ q.global.transactionCount = t.global.transactionCount
         /\ q.global.liquidationCount = d.global.liquidationCount + 1
         /\ q.global.redemptionCount = d.global.redemptionCount
    BY <2>2, <2>4, <2>7, <2>8, <2>9, <2>10 DEF Keeps, StoreFields, GlobalKeys, ChainKeys, OtherKeys
  <2>12. HasCalls(q) /\ d.global.liquidationCount # Null
    BY <2>6, <2>11 DEF HasCalls, Null
  <2> QED
    BY <1>2, <2>1, <2>3, <2>4, <2>5, <2>6, <2>9, <2>10, <2>11, <2>12 DEF r
<1> QED
  BY <1>1, <1>2

LEMMA RedemptionGot ==
    ASSUME NEW d, NEW e, IsStore(d), HasCalls(d), e.tx # Null,
           d.global.transactionCount \in Nat,
           d.transaction.hash # Null => d.transaction.sequenceNumber = d.global.transactionCount - 1
    PROVE  LET r == GetCurrentRedemption(d, e)
               F == {"redemption", "transaction"}
               K == {"transactionCount", "redemptionCount", "currentRedemption"}
           IN /\ Keeps(d, r, F, K)
              /\ r.global.transactionCount \in Nat
              /\ r.transaction.hash # Null => r.transaction.sequenceNumber = r.global.transactionCount - 1
              /\ d.transaction.hash = e.tx => /\ r.transaction = d.transaction
                                              /\ r.global.transactionCount = d.global.transactionCount
              /\ HasCalls(r)
              /\ r.redemption.troves = IF d.global.currentRedemption # Null
                                      THEN d.redemption.troves ELSE {}
              /\ r.global.currentRedemption # Null
<1> DEFINE r == GetCurrentRedemption(d, e)
           F == {"redemption", "transaction"}
           K == {"transactionCount", "redemptionCount", "currentRedemption"}
           c == IncreaseCounter(d, "redemptionCount")
           t == GetTransaction(c, e.tx)
           new == [id |-> d.global.redemptionCount, attempted |-> 0, actual |-> 0,
                   troves |-> {}]
           m == [t EXCEPT !.redemption = new]
           q == [m EXCEPT !.global.currentRedemption = d.global.redemptionCount]
<1>1. CASE d.global.currentRedemption # Null
  BY <1>1 DEF GetCurrentRedemption, Keeps
<1>2. CASE d.global.currentRedemption = Null
  <2>1. r = q
    BY <1>2 DEF GetCurrentRedemption
  <2>2. /\ Keeps(d, c, {}, {"redemptionCount"})
        /\ c.global["redemptionCount"] = d.global["redemptionCount"] + 1
    BY CounterIncreased DEF GlobalKeys, OtherKeys
  <2> HIDE DEF c
  <2>3. /\ IsStore(c) /\ c.transaction = d.transaction
        /\ c.global.transactionCount = d.global.transactionCount
    BY <2>2 DEF Keeps, StoreFields, GlobalKeys, ChainKeys
  <2>4. /\ Keeps(c, t, {"transaction"}, {"transactionCount"})
        /\ t.global.transactionCount \in Nat
        /\ t.transaction.hash = e.tx
        /\ t.transaction.sequenceNumber = t.global.transactionCount - 1
    BY <2>3, TransactionFound
  <2>5. d.transaction.hash = e.tx => t = c
    BY <2>3 DEF GetTransaction
  <2> HIDE DEF t
  <2>6. /\ new.troves = {}
        /\ new = [f \in {"id", "attempted", "actual", "troves"} |-> new[f]]
    OBVIOUS
  <2> HIDE DEF new
  <2>7. /\ Keeps(t, m, {"redemption"}, {}) /\ m.redemption = new /\ m.global = t.global
    BY <2>4 DEF Keeps, IsStore, StoreFields
  <2> HIDE DEF m
  <2>8. /\ q.global = [m.global EXCEPT !.currentRedemption = d.global.redemptionCount]
        /\ IsStore(q) /\ \A f \in StoreFields \ {"global"} : q[f] = m[f]
    BY <2>7 DEF Keeps, IsStore, StoreFields
  <2> HIDE DEF q, r
  <2>9. /\ q.global.currentRedemption = d.global.redemptionCount
        /\ \A k \in GlobalKeys \ {"currentRedemption"} : q.global[k] = t.global[k]
    BY <2>7, <2>8 DEF Keeps, IsStore, GlobalKeys, OtherKeys
  <2>10. Keeps(d, q, F, K)
    BY <2>2, <2>4, <2>7, <2>8, <2>9 DEF Keeps
  <2>11. /\ q.transaction = t.transaction /\ q.redemption = new
         /\ q.liquidation = d.liquidation
         /\ q.global.transactionCount = t.global.transactionCount
         /\ q.global.redemptionCount = d.global.redemptionCount + 1
         /\ q.global.liquidationCount = d.global.liquidationCount
    BY <2>2, <2>4, <2>7, <2>8, <2>9, <2>10 DEF Keeps, StoreFields, GlobalKeys, ChainKeys, OtherKeys
  <2>12. HasCalls(q) /\ d.global.redemptionCount # Null
    BY <2>6, <2>11 DEF HasCalls, Null
  <2> QED
    BY <1>2, <2>1, <2>3, <2>4, <2>5, <2>6, <2>9, <2>10, <2>11, <2>12 DEF r
<1> QED
  BY <1>1, <1>2

LEMMA Linked ==
    ASSUME NEW d, NEW e, NEW op, NEW u, IsStore(d), HasCalls(d), e.tx # Null,
           BegunInv(d, e.tx)
    PROVE  LET r == LinkToCall(d, e, op, u)
           IN /\ Keeps(d, r, {"liquidation", "redemption"}, CallKeys)
              /\ HasCalls(r)
              /\ Links(d, r, op, u)
<1> DEFINE r == LinkToCall(d, e, op, u)
<1>1. CASE ~IsLiquidation(op) /\ ~IsRedemption(op)
  BY <1>1 DEF LinkToCall, Keeps, Links
<1>a. ~(IsLiquidation(op) /\ IsRedemption(op))
  BY DEF IsLiquidation, IsRedemption
<1>2. CASE IsLiquidation(op)
  <2> DEFINE m == GetCurrentLiquidation(d, e)
             q == [m EXCEPT !.liquidation.troves = @ \union {u}]
  <2>1. r = q
    BY <1>2, <1>a DEF LinkToCall
  <2>2. /\ d.global.transactionCount \in Nat
        /\ d.transaction.hash # Null
              => d.transaction.sequenceNumber = d.global.transactionCount - 1
        /\ d.transaction.hash = e.tx
    BY DEF BegunInv
  <2>3. /\ Keeps(d, m, {"liquidation", "transaction"},
                 {"transactionCount", "liquidationCount", "currentLiquidation"})
        /\ m.transaction = d.transaction
        /\ m.global.transactionCount = d.global.transactionCount
        /\ HasCalls(m)
        /\ m.liquidation.troves = IF d.global.currentLiquidation # Null
                                THEN d.liquidation.troves ELSE {}
        /\ m.global.currentLiquidation # Null
    BY <2>2, LiquidationGot
  <2> HIDE DEF m
  <2>4. /\ IsStore(q) /\ q.global = m.global
        /\ q.liquidation = [m.liquidation EXCEPT !.troves = @ \union {u}]
        /\ \A f \in StoreFields \ {"global", "liquidation"} : q[f] = m[f]
    BY <2>3 DEF Keeps, IsStore, StoreFields
  <2> HIDE DEF q, r
  <2>5. q.redemption = d.redemption /\ q.global.currentRedemption = d.global.currentRedemption
    BY <2>3, <2>4 DEF Keeps, StoreFields, GlobalKeys, OtherKeys
  <2>6. HasCalls(q) /\ q.liquidation.troves = m.liquidation.troves \union {u}
    <3>1. q.redemption = m.redemption
      BY <2>4 DEF StoreFields
    <3>2. m.liquidation = [f \in {"id", "debt", "collateral", "troves"} |-> m.liquidation[f]]
      BY <2>3 DEF HasCalls
    <3>3. /\ q.liquidation = [f \in {"id", "debt", "collateral", "troves"} |-> q.liquidation[f]]
          /\ q.liquidation.troves = m.liquidation.troves \union {u}
      BY <3>2, <2>4
    <3>4. HasCalls(q)
      BY <3>1, <3>3, <2>3, <2>4 DEF HasCalls
    <3> QED
      BY <3>3, <3>4
  <2>7. Keeps(d, q, {"liquidation", "redemption"}, CallKeys)
    BY <2>3, <2>4 DEF Keeps, CallKeys, StoreFields
  <2>8. Links(d, q, op, u)
    BY <1>2, <1>a, <2>3, <2>4, <2>5, <2>6 DEF Links
  <2> QED
    BY <2>1, <2>6, <2>7, <2>8 DEF r
<1>3. CASE IsRedemption(op)
  <2> DEFINE m == GetCurrentRedemption(d, e)
             q == [m EXCEPT !.redemption.troves = @ \union {u}]
  <2>1. r = q
    BY <1>3, <1>a DEF LinkToCall
  <2>2. /\ d.global.transactionCount \in Nat
        /\ d.transaction.hash # Null
              => d.transaction.sequenceNumber = d.global.transactionCount - 1
        /\ d.transaction.hash = e.tx
    BY DEF BegunInv
  <2>3. /\ Keeps(d, m, {"redemption", "transaction"},
                 {"transactionCount", "redemptionCount", "currentRedemption"})
        /\ m.transaction = d.transaction
        /\ m.global.transactionCount = d.global.transactionCount
        /\ HasCalls(m)
        /\ m.redemption.troves = IF d.global.currentRedemption # Null
                                THEN d.redemption.troves ELSE {}
        /\ m.global.currentRedemption # Null
    BY <2>2, RedemptionGot
  <2> HIDE DEF m
  <2>4. /\ IsStore(q) /\ q.global = m.global
        /\ q.redemption = [m.redemption EXCEPT !.troves = @ \union {u}]
        /\ \A f \in StoreFields \ {"global", "redemption"} : q[f] = m[f]
    BY <2>3 DEF Keeps, IsStore, StoreFields
  <2> HIDE DEF q, r
  <2>5. q.liquidation = d.liquidation /\ q.global.currentLiquidation = d.global.currentLiquidation
    BY <2>3, <2>4 DEF Keeps, StoreFields, GlobalKeys, OtherKeys
  <2>6. HasCalls(q) /\ q.redemption.troves = m.redemption.troves \union {u}
    <3>1. q.liquidation = m.liquidation
      BY <2>4 DEF StoreFields
    <3>2. q.redemption.troves = m.redemption.troves \union {u}
      BY <2>3, <2>4 DEF HasCalls
    <3>3. q.redemption = [f \in {"id", "attempted", "actual", "troves"} |-> q.redemption[f]]
      BY <2>3, <2>4 DEF HasCalls
    <3>4. HasCalls(q)
      BY <3>1, <3>3, <2>3, <2>4 DEF HasCalls
    <3> QED
      BY <3>2, <3>4
  <2>7. Keeps(d, q, {"liquidation", "redemption"}, CallKeys)
    BY <2>3, <2>4 DEF Keeps, CallKeys, StoreFields
  <2>8. Links(d, q, op, u)
    BY <1>3, <1>a, <2>3, <2>4, <2>5, <2>6 DEF Links
  <2> QED
    BY <2>1, <2>6, <2>7, <2>8 DEF r
<1> QED
  BY <1>1, <1>2, <1>3

LEMMA StatusesAfter ==
    ASSUME NEW op, NEW coll
    PROVE  StatusAfter(op, coll) \in Statuses \ {"nonExistent"}
BY DEF StatusAfter, Statuses, ClosedStatuses

\* An event that changes nothing about a trove that is stored.
LEMMA NoopHandled ==
    ASSUME NEW d, NEW e, NEW op, NEW u \in Users, NEW coll, NEW debt, NEW stake,
           IsStore(d), HasTroves(d), IsNoop(d, u, coll, debt),
           d.troves[u].status # "nonExistent"
    PROVE  UpdateTrove(d, e, op, u, coll, debt, stake) = d
<1>1. GetTrove(d, u) = d
  BY DEF GetTrove
<1>2. UpdateTrove(d, e, op, u, coll, debt, stake)
         = [d EXCEPT !.troves = [d.troves EXCEPT ![u] = d.troves[u]]]
  BY <1>1 DEF UpdateTrove, IsNoop
<1>3. [d.troves EXCEPT ![u] = d.troves[u]] = d.troves
  BY DEF HasTroves
<1> DEFINE t == d.troves
<1>4. [d EXCEPT !.troves = t] = d
  BY DEF IsStore, StoreFields
<1> QED
  BY <1>2, <1>3, <1>4

LEMMA AmountsCount ==
    ASSUME NEW s, NEW op, NEW t, NEW w, NEW coll, NEW debt,
           t.collateral = w.collateral, t.debt = w.debt
    PROVE  StateAfterTroveChange(s, op, t, coll, debt)
              = StateAfterTroveChange(s, op, w, coll, debt)
BY DEF StateAfterTroveChange

LEMMA TroveChanged ==
    ASSUME NEW d, NEW e, NEW op, NEW u \in Users, NEW coll, NEW debt, NEW stake,
           IsStore(d), ChainInv(d), HasTroves(d), HasCalls(d), CountersAreNumbers(d),
           e.tx # Null, ~IsNoop(d, u, coll, debt),
           d.troves[u].status \in ClosedStatuses => StatusAfter(op, coll) = "open"
    PROVE  TroveWritten(d, UpdateTrove(d, e, op, u, coll, debt, stake),
                        op, u, coll, debt, stake)
<1> DEFINE known  == GetTrove(d, u)
           begun  == BeginChange(known, e)
           linked == LinkToCall(begun, e, op, u)
           next   == StateAfterTroveChange(linked.state, op, known.troves[u], coll, debt)
           done   == FinishChange(BumpSystemState(linked, next),
                                  InitChange(begun, e, "trove", u, op))
           fields == TroveFields(known.troves[u], coll, debt, stake, d.global)
           saved  == [done EXCEPT !.troves = [done.troves EXCEPT ![u] = fields]]
           new    == StatusAfter(op, coll)
           r      == SetTroveStatus(saved, u, new)
           status == IF d.troves[u].status = "nonExistent" THEN "open"
                     ELSE d.troves[u].status
<1>1. /\ Keeps(d, known, {"troves"}, {"numberOfOpenTroves", "totalNumberOfTroves"})
      /\ known.troves = [d.troves EXCEPT ![u] = [@ EXCEPT !.status = status]]
      /\ Recounts(d, known, d.troves[u].status, status)
      /\ CountersAreNumbers(known)
  BY TroveGot
<1>2. /\ known.troves[u] = [d.troves[u] EXCEPT !.status = status]
      /\ known.troves[u].collateral = d.troves[u].collateral
      /\ known.troves[u].debt = d.troves[u].debt
      /\ known.troves[u].status = status
      /\ status \in Statuses \ {"nonExistent"}
  <2>1. /\ d.troves[u] = [f \in TroveNames |-> d.troves[u][f]]
        /\ d.troves[u].status \in Statuses
    BY DEF HasTroves
  <2>2. status \in Statuses \ {"nonExistent"}
    BY <2>1 DEF Statuses, ClosedStatuses
  <2> HIDE DEF status
  <2>3. known.troves[u] = [d.troves[u] EXCEPT !.status = status]
    BY <1>1 DEF HasTroves
  <2> HIDE DEF known
  <2> QED
    BY <2>1, <2>2, <2>3 DEF TroveNames
<1>3. UpdateTrove(d, e, op, u, coll, debt, stake) = r
  BY <1>2 DEF UpdateTrove, IsNoop
<1>4. /\ fields.status = status
      /\ fields = [f \in TroveNames |-> fields[f]]
      /\ [fields EXCEPT !.status = new] = Stored(d, new, coll, debt, stake)
  <2> DEFINE t  == known.troves[u]
             g  == d.global
             sc == IF stake = 0 THEN 0 ELSE g.rawTotalRedistributedCollateral
             sd == IF stake = 0 THEN 0 ELSE g.rawTotalRedistributedDebt
             sk == IF stake = 0 THEN 0 ELSE (debt * Scaling) \div stake
                                            - g.rawTotalRedistributedDebt
  <2>1. /\ fields = [t EXCEPT !.collateral = coll, !.debt = debt, !.rawStake = stake,
                       !.snapshotCollateral = sc, !.snapshotDebt = sd, !.sortKey = sk]
        /\ Stored(d, new, coll, debt, stake)
              = [status |-> new, collateral |-> coll, debt |-> debt, rawStake |-> stake,
                 snapshotCollateral |-> sc, snapshotDebt |-> sd, sortKey |-> sk]
    BY DEF TroveFields, Stored
  <2>2. t = [f \in TroveNames |-> t[f]] /\ t.status = status
    BY <1>2 DEF HasTroves, TroveNames
  <2> HIDE DEF t, sc, sd, sk, fields, new, status
  <2>3. fields.status = status /\ fields = [f \in TroveNames |-> fields[f]]
    BY <2>1, <2>2 DEF TroveNames
  <2>4. [fields EXCEPT !.status = new]
           = [status |-> new, collateral |-> coll, debt |-> debt, rawStake |-> stake,
              snapshotCollateral |-> sc, snapshotDebt |-> sd, sortKey |-> sk]
    <3> DEFINE q == [fields EXCEPT !.status = new]
    <3>1. /\ q = [f \in TroveNames |-> q[f]]
          /\ q.status = new /\ q.collateral = coll /\ q.debt = debt /\ q.rawStake = stake
          /\ q.snapshotCollateral = sc /\ q.snapshotDebt = sd /\ q.sortKey = sk
      BY <2>1, <2>2, <2>3 DEF TroveNames
    <3> HIDE DEF q
    <3> QED
      BY <3>1 DEF TroveNames, q
  <2> QED
    BY <2>1, <2>3, <2>4
<1> HIDE DEF known, fields
<1>5. ChainInv(known) /\ IsStore(known)
  <2>1. /\ {"troves"} \intersect {"change", "transaction"} = {}
        /\ {"numberOfOpenTroves", "totalNumberOfTroves"} \intersect ChainKeys = {}
    BY DEF ChainKeys
  <2>2. ChainInv(known)
    BY <1>1, <2>1, ChainKept
  <2> QED
    BY <1>1, <2>2 DEF Keeps
<1>6. /\ Keeps(known, begun, {"state", "transaction"}, ChainKeys)
      /\ BegunInv(begun, e.tx)
  BY <1>5, ChangeBegun
<1> HIDE DEF begun
<1>7. IsStore(begun) /\ HasCalls(begun)
  BY <1>1, <1>6 DEF Keeps, HasCalls, StoreFields, GlobalKeys, OtherKeys, ChainKeys
<1>8. /\ Keeps(begun, linked, {"liquidation", "redemption"}, CallKeys)
      /\ HasCalls(linked)
      /\ Links(begun, linked, op, u)
  BY <1>6, <1>7, Linked
<1> HIDE DEF linked
<1>9. /\ IsStore(linked)
      /\ \A k \in ChainKeys : linked.global[k] = begun.global[k]
      /\ linked.transaction = begun.transaction
  BY <1>8 DEF Keeps, StoreFields, GlobalKeys, ChainKeys, CallKeys
<1> HIDE DEF next
<1>10. /\ Keeps(linked, done, {"state", "change"}, {"systemStateCount", "currentSystemState"})
       /\ ChainInv(done)
       /\ done.change.kind = "trove"
       /\ done.change.owner = u
       /\ done.change.transaction = done.global.transactionCount - 1
  BY <1>6, <1>9, ChangeFinished
<1> HIDE DEF done
<1>11. /\ IsStore(saved) /\ saved.global = done.global
       /\ saved.troves = [done.troves EXCEPT ![u] = fields]
       /\ \A f \in StoreFields \ {"global", "troves"} : saved[f] = done[f]
  BY <1>10 DEF Keeps, IsStore, StoreFields
<1> HIDE DEF saved
<1>12. done.troves = known.troves
  BY <1>6, <1>8, <1>10 DEF Keeps, StoreFields
<1>13. /\ saved.troves = [d.troves EXCEPT ![u] = fields]
       /\ saved.troves[u] = fields
       /\ HasTroves(saved)
  <2>1. saved.troves = [d.troves EXCEPT ![u] = fields]
    <3> DEFINE x == [d.troves[u] EXCEPT !.status = status]
    <3>1. known.troves = [d.troves EXCEPT ![u] = x]
      BY <1>1
    <3> HIDE DEF x
    <3>2. saved.troves = [[d.troves EXCEPT ![u] = x] EXCEPT ![u] = fields]
      BY <3>1, <1>11, <1>12
    <3> QED
      BY <3>2 DEF HasTroves
  <2>2. saved.troves[u] = fields /\ \A v \in Users \ {u} : saved.troves[v] = d.troves[v]
    BY <2>1 DEF HasTroves
  <2>3. saved.troves = [v \in Users |-> saved.troves[v]]
    BY <2>1 DEF HasTroves
  <2> QED
    BY <1>2, <1>4, <2>1, <2>2, <2>3 DEF HasTroves
<1>14. /\ \A k \in TroveCounters : saved.global[k] = known.global[k]
       /\ CountersAreNumbers(saved)
  <2>1. \A k \in TroveCounters : saved.global[k] = known.global[k]
    BY <1>6, <1>8, <1>10, <1>11
       DEF Keeps, GlobalKeys, ChainKeys, TroveCounters, OtherKeys, CallKeys
  <2> QED
    BY <1>1, <2>1 DEF CountersAreNumbers
<1>15. new \in Statuses \ {"nonExistent"} /\ (status = new \/ "open" \in {new, status})
  BY <1>2, StatusesAfter DEF Statuses
<1>16. /\ Keeps(saved, r, {"troves"}, TroveCounters)
       /\ r.troves = [saved.troves EXCEPT ![u] = [@ EXCEPT !.status = new]]
       /\ Recounts(saved, r, status, new)
       /\ CountersAreNumbers(r)
  <2>1. /\ saved.troves[u].status = status
        /\ IsStore(saved) /\ HasTroves(saved) /\ CountersAreNumbers(saved)
        /\ new \in Statuses \ {"nonExistent"}
        /\ status # "nonExistent"
        /\ status = new \/ "open" \in {new, status}
    BY <1>2, <1>4, <1>11, <1>13, <1>14, <1>15
  <2> HIDE DEF new, status
  <2> QED
    BY <2>1, StatusSet
<1> HIDE DEF r, new
<1>17. r.troves = [d.troves EXCEPT ![u] = Stored(d, new, coll, debt, stake)]
  <2>1. r.troves = [saved.troves EXCEPT ![u] = Stored(d, new, coll, debt, stake)]
    BY <1>4, <1>13, <1>16 DEF HasTroves
  <2> QED
    BY <1>13, <2>1 DEF HasTroves
<1>18. HasTroves(r)
  <2>1. \A v \in Users : r.troves[v] = IF v = u THEN Stored(d, new, coll, debt, stake)
                                       ELSE d.troves[v]
    BY <1>17 DEF HasTroves
  <2>2. r.troves = [v \in Users |-> r.troves[v]]
    BY <1>17 DEF HasTroves
  <2>3. /\ Stored(d, new, coll, debt, stake)
             = [f \in TroveNames |-> Stored(d, new, coll, debt, stake)[f]]
        /\ Stored(d, new, coll, debt, stake).status = new
    BY DEF Stored, TroveNames
  <2> QED
    BY <1>15, <2>1, <2>2, <2>3 DEF HasTroves
<1>19. ChainInv(saved) /\ SameChain(done, saved)
  <2>1. saved.global = done.global /\ saved.change = done.change
        /\ saved.transaction = done.transaction
    BY <1>11 DEF StoreFields
  <2>2. ChainInv(done)
    BY <1>10
  <2> HIDE DEF saved, done
  <2> QED
    BY <2>1, <2>2 DEF ChainInv, SameChain
<1>20. ChainInv(r) /\ SameChain(saved, r)
  BY <1>16, <1>19, ChainKept DEF ChainKeys, TroveCounters
<1>21. /\ r.change.kind = "trove"
       /\ r.change.owner = u
       /\ r.change.transaction = r.global.transactionCount - 1
  BY <1>10, <1>19, <1>20 DEF SameChain, ChainKeys
<1>22. Recounts(d, r, d.troves[u].status, new)
  <2>1. \A s \in Statuses \ {"nonExistent"} : KeyOf(s) \in TroveCounters
    BY Keys DEF Statuses, ClosedStatuses, TroveCounters
  <2> DEFINE old == d.troves[u].status
  <2>2. /\ old \in Statuses
        /\ status = IF old = "nonExistent" THEN "open" ELSE old
    BY DEF HasTroves
  <2> HIDE DEF old, status
  <2>3. Recounts(d, known, old, status)
    BY <1>1 DEF old
  <2>4. Recounts(known, r, status, new)
    BY <1>2, <1>14, <1>16, <2>1 DEF Recounts, TroveCounters
  <2>5. r.global.totalNumberOfTroves
           = d.global.totalNumberOfTroves + (IF old = "nonExistent" THEN 1 ELSE 0)
    BY <1>2, <2>3, <2>4 DEF Recounts, CountersAreNumbers, TroveCounters
  <2>6. ASSUME NEW s \in Statuses \ {"nonExistent"}
        PROVE  r.global[KeyOf(s)] = d.global[KeyOf(s)] + (IF s = new THEN 1 ELSE 0)
                                                       - (IF s = old THEN 1 ELSE 0)
    <3>1. /\ known.global[KeyOf(s)] = d.global[KeyOf(s)] + (IF s = status THEN 1 ELSE 0)
                                                         - (IF s = old THEN 1 ELSE 0)
          /\ r.global[KeyOf(s)] = known.global[KeyOf(s)] + (IF s = new THEN 1 ELSE 0)
                                                         - (IF s = status THEN 1 ELSE 0)
      BY <2>3, <2>4 DEF Recounts
    <3>2. d.global[KeyOf(s)] \in Int /\ known.global[KeyOf(s)] \in Int
      BY <1>1, <2>1 DEF CountersAreNumbers
    <3> HIDE DEF new
    <3> QED
      BY <2>2, <3>1, <3>2
  <2> QED
    BY <2>5, <2>6 DEF Recounts, old
<1>23. /\ \A f \in {"liquidation", "redemption"} : r[f] = linked[f] /\ begun[f] = d[f]
       /\ \A k \in CallKeys : r.global[k] = linked.global[k] /\ begun.global[k] = d.global[k]
  BY <1>1, <1>6, <1>10, <1>11, <1>16
     DEF Keeps, StoreFields, GlobalKeys, ChainKeys, TroveCounters, OtherKeys, CallKeys
<1>24. HasCalls(r) /\ Links(d, r, op, u)
  BY <1>8, <1>23 DEF HasCalls, Links, CallKeys
<1>25. Keeps(d, r, {"state", "transaction", "change", "liquidation", "redemption", "troves"},
             ChainKeys \union TroveCounters \union CallKeys)
  <2>1. IsStore(r)
    BY <1>16 DEF Keeps
  <2>2. \A f \in StoreFields \ {"state", "transaction", "change", "liquidation",
                                "redemption", "troves", "global"} : r[f] = d[f]
    BY <1>1, <1>6, <1>8, <1>10, <1>11, <1>16 DEF Keeps
  <2>3. \A k \in GlobalKeys \ (ChainKeys \union TroveCounters \union CallKeys) :
           r.global[k] = d.global[k]
    BY <1>1, <1>6, <1>8, <1>10, <1>11, <1>16 DEF Keeps, ChainKeys, TroveCounters
  <2> QED
    BY <2>1, <2>2, <2>3 DEF Keeps
<1>26. ASSUME HasState(d) PROVE TroveTallied(d, r, op, u, coll, debt)
  <2>1. Steady(d, known)
    BY <1>1, <1>26, StateKept
  <2>2. Steady(known, begun)
    BY <1>5, <2>1, StateBegun DEF Steady, begun
  <2>3. Steady(begun, linked)
    BY <1>8, <2>2, StateKept DEF Steady, CallKeys
  <2>4. IsState(linked.state) /\ SameNumbers(d.state, linked.state)
    BY <2>1, <2>2, <2>3, SteadyTwice DEF Steady, HasState
  <2>5. linked.global.systemStateCount \in Nat
    BY <1>6, <1>9 DEF BegunInv, ChainKeys
  <2>6. IsState(next) => Settles(done, next)
    BY <1>9, <2>5, StateSettled DEF done
  <2>7. r.state = done.state /\ r.global.currentSystemState = done.global.currentSystemState
    BY <1>11, <1>16 DEF Keeps, StoreFields, GlobalKeys, ChainKeys, TroveCounters
  <2>8. next = StateAfterTroveChange(linked.state, op, d.troves[u], coll, debt)
    <3> DEFINE t == known.troves[u]
               w == d.troves[u]
    <3>1. t.collateral = w.collateral /\ t.debt = w.debt
      BY <1>2
    <3> HIDE DEF t, w
    <3>2. StateAfterTroveChange(linked.state, op, t, coll, debt)
             = StateAfterTroveChange(linked.state, op, w, coll, debt)
      BY <3>1, AmountsCount
    <3> QED
      BY <3>2 DEF next, t, w
  <2> HIDE DEF next
  <2> QED
    BY <2>4, <2>6, <2>7, <2>8 DEF TroveTallied, Settles, HasState
<1> QED
  BY <1>3, <1>17, <1>18, <1>16, <1>20, <1>21, <1>22, <1>24, <1>25, <1>26 DEF r, new, TroveWritten

-----------------------------------------------------------------------------
(* The other handlers.                                                      *)

LEMMA OneChange ==
    ASSUME NEW d, NEW e, NEW kind, NEW owner, NEW operation, NEW s,
           IsStore(d), ChainInv(d), e.tx # Null
    PROVE  LET begun == BeginChange(d, e)
               r == FinishChange(BumpSystemState(begun, s),
                                 InitChange(begun, e, kind, owner, operation))
           IN /\ Keeps(d, r, {"state", "transaction", "change"}, ChainKeys)
              /\ ChainInv(r)
<1> DEFINE begun == BeginChange(d, e)
           r == FinishChange(BumpSystemState(begun, s),
                             InitChange(begun, e, kind, owner, operation))
<1>1. /\ Keeps(d, begun, {"state", "transaction"}, ChainKeys)
      /\ BegunInv(begun, e.tx)
  BY ChangeBegun
<1>2. IsStore(begun)
  BY <1>1 DEF Keeps
<1> HIDE DEF begun
<1>3. /\ Keeps(begun, r, {"state", "change"}, {"systemStateCount", "currentSystemState"})
      /\ ChainInv(r)
  BY <1>1, <1>2, ChangeFinished
<1> HIDE DEF r
<1>4. Keeps(d, r, {"state", "transaction", "change"}, ChainKeys)
  BY <1>1, <1>3 DEF Keeps, ChainKeys
<1> QED
  BY <1>3, <1>4 DEF r, begun

LEMMA FeeHandled ==
    ASSUME NEW d, NEW fee, IsStore(d), ChainInv(d)
    PROVE  LET r == SetBorrowingFeeOfLastTroveChange(d, fee)
           IN /\ Keeps(d, r, {"change"}, {"totalBorrowingFeesPaid"})
              /\ ChainInv(r)
<1> DEFINE r == SetBorrowingFeeOfLastTroveChange(d, fee)
           change == [d.change EXCEPT !.borrowingFee = fee]
           m == [d EXCEPT !.change = change]
<1>1. /\ change = [f \in ChangeNames |-> change[f]]
      /\ change.id = d.change.id /\ change.before = d.change.before
      /\ change.after = d.change.after
  BY DEF ChainInv, ChangeNames
<1>2. r = [m EXCEPT !.global.totalBorrowingFeesPaid = @ + fee]
  BY DEF SetBorrowingFeeOfLastTroveChange
<1> HIDE DEF change, r
<1>3. IsStore(m) /\ m.change = change /\ m.global = d.global
      /\ \A f \in StoreFields \ {"change", "global"} : m[f] = d[f]
  BY DEF IsStore, StoreFields
<1> HIDE DEF m
<1>4. /\ r.global = [m.global EXCEPT !.totalBorrowingFeesPaid = @ + fee]
      /\ IsStore(r) /\ \A f \in StoreFields \ {"global"} : r[f] = m[f]
  BY <1>2, <1>3 DEF IsStore, StoreFields
<1>5. \A k \in GlobalKeys \ {"totalBorrowingFeesPaid"} : r.global[k] = d.global[k]
  BY <1>3, <1>4 DEF IsStore
<1>6. Keeps(d, r, {"change"}, {"totalBorrowingFeesPaid"})
  BY <1>3, <1>4, <1>5 DEF Keeps
<1>7. /\ \A k \in ChainKeys : r.global[k] = d.global[k]
      /\ r.transaction = d.transaction /\ r.change = change
  BY <1>3, <1>4, <1>5 DEF StoreFields, GlobalKeys, ChainKeys
<1>8. ChainInv(r)
  BY <1>1, <1>7 DEF ChainInv, ChainKeys
<1> QED
  BY <1>6, <1>8 DEF r

LEMMA TermsHandled ==
    ASSUME NEW d, NEW e, IsStore(d), ChainInv(d)
    PROVE  LET r == UpdateTotalRedistributed(d, e)
           IN /\ Keeps(d, r, {}, {"rawTotalRedistributedCollateral",
                                  "rawTotalRedistributedDebt"})
              /\ ChainInv(r)
              /\ r.global.rawTotalRedistributedCollateral = e.coll
              /\ r.global.rawTotalRedistributedDebt = e.debt
<1> DEFINE r == UpdateTotalRedistributed(d, e)
           m == [d EXCEPT !.global.rawTotalRedistributedCollateral = e.coll]
<1>1. r = [m EXCEPT !.global.rawTotalRedistributedDebt = e.debt]
  BY DEF UpdateTotalRedistributed
<1> HIDE DEF r
<1>2. /\ m.global = [d.global EXCEPT !.rawTotalRedistributedCollateral = e.coll]
      /\ IsStore(m) /\ \A f \in StoreFields \ {"global"} : m[f] = d[f]
  BY DEF IsStore, StoreFields
<1> HIDE DEF m
<1>3. /\ r.global = [m.global EXCEPT !.rawTotalRedistributedDebt = e.debt]
      /\ IsStore(r) /\ \A f \in StoreFields \ {"global"} : r[f] = m[f]
  BY <1>1, <1>2 DEF IsStore, StoreFields
<1>4. /\ m.global.rawTotalRedistributedCollateral = e.coll
      /\ r.global.rawTotalRedistributedCollateral = m.global.rawTotalRedistributedCollateral
      /\ r.global.rawTotalRedistributedDebt = e.debt
  BY <1>2, <1>3 DEF IsStore, GlobalKeys, OtherKeys
<1>5. Keeps(d, r, {}, {"rawTotalRedistributedCollateral", "rawTotalRedistributedDebt"})
  BY <1>2, <1>3 DEF Keeps, IsStore
<1>6. ChainInv(r)
  <2>1. {"rawTotalRedistributedCollateral", "rawTotalRedistributedDebt"}
           \intersect ChainKeys = {}
    BY DEF ChainKeys
  <2> QED
    BY <1>5, <2>1, ChainKept
<1> QED
  BY <1>4, <1>5, <1>6 DEF r

LEMMA LiquidationFinished ==
    ASSUME NEW d, NEW e, IsStore(d), ChainInv(d), HasCalls(d), e.tx # Null
    PROVE  LET r == FinishCurrentLiquidation(d, e)
           IN /\ Keeps(d, r, {"liquidation", "transaction"},
                       {"transactionCount", "liquidationCount", "currentLiquidation"})
              /\ ChainInv(r)
              /\ HasCalls(r)
              /\ r.global.currentLiquidation = Null
              /\ r.liquidation.troves = IF d.global.currentLiquidation # Null
                                      THEN d.liquidation.troves ELSE {}
<1> DEFINE r == FinishCurrentLiquidation(d, e)
           c == GetCurrentLiquidation(d, e)
           new == [[c.liquidation EXCEPT !.debt = e.debt] EXCEPT !.collateral = e.coll]
           m == [c EXCEPT !.liquidation = new]
<1>1. /\ Keeps(d, c, {"liquidation", "transaction"},
               {"transactionCount", "liquidationCount", "currentLiquidation"})
      /\ c.global.transactionCount \in Nat
      /\ c.transaction.hash # Null
            => c.transaction.sequenceNumber = c.global.transactionCount - 1
      /\ HasCalls(c)
      /\ c.liquidation.troves = IF d.global.currentLiquidation # Null
                              THEN d.liquidation.troves ELSE {}
  BY LiquidationGot DEF ChainInv
<1>2. r = [m EXCEPT !.global.currentLiquidation = Null]
  BY DEF FinishCurrentLiquidation
<1> HIDE DEF c, r
<1>3. /\ new.troves = c.liquidation.troves
      /\ new = [f \in {"id", "debt", "collateral", "troves"} |-> new[f]]
  BY <1>1 DEF HasCalls
<1> HIDE DEF new
<1>4. IsStore(m) /\ m.liquidation = new /\ m.global = c.global
      /\ \A f \in StoreFields \ {"liquidation", "global"} : m[f] = c[f]
  BY <1>1 DEF Keeps, IsStore, StoreFields
<1> HIDE DEF m
<1>5. /\ r.global = [m.global EXCEPT !.currentLiquidation = Null]
      /\ IsStore(r) /\ \A f \in StoreFields \ {"global"} : r[f] = m[f]
  BY <1>2, <1>4 DEF IsStore, StoreFields
<1>6. /\ \A k \in GlobalKeys \ {"currentLiquidation"} : r.global[k] = c.global[k]
      /\ r.global.currentLiquidation = Null
  BY <1>4, <1>5 DEF IsStore, GlobalKeys, OtherKeys
<1>7. Keeps(d, r, {"liquidation", "transaction"},
            {"transactionCount", "liquidationCount", "currentLiquidation"})
  BY <1>1, <1>4, <1>5, <1>6 DEF Keeps
<1>8. /\ r.transaction = c.transaction /\ r.liquidation = new
      /\ r.change = d.change /\ r.redemption = c.redemption
      /\ \A k \in ChainKeys : r.global[k] = c.global[k]
      /\ \A k \in ChainKeys \ {"transactionCount"} : c.global[k] = d.global[k]
      /\ r.global.liquidationCount = c.global.liquidationCount
      /\ r.global.redemptionCount = c.global.redemptionCount
  BY <1>1, <1>4, <1>5, <1>6 DEF Keeps, StoreFields, GlobalKeys, ChainKeys, OtherKeys
<1>9. ChainInv(r)
  BY <1>1, <1>8 DEF ChainInv, ChainKeys
<1>10. HasCalls(r)
  BY <1>1, <1>3, <1>8 DEF HasCalls
<1> QED
  BY <1>1, <1>3, <1>6, <1>7, <1>8, <1>9, <1>10 DEF r

LEMMA RedemptionFinished ==
    ASSUME NEW d, NEW e, IsStore(d), ChainInv(d), HasCalls(d), e.tx # Null
    PROVE  LET r == FinishCurrentRedemption(d, e)
           IN /\ Keeps(d, r, {"redemption", "transaction"},
                       {"transactionCount", "redemptionCount", "currentRedemption", "totalRedemptionFeesPaid"})
              /\ ChainInv(r)
              /\ HasCalls(r)
              /\ r.global.currentRedemption = Null
              /\ r.redemption.troves = IF d.global.currentRedemption # Null
                                      THEN d.redemption.troves ELSE {}
<1> DEFINE r == FinishCurrentRedemption(d, e)
           c == GetCurrentRedemption(d, e)
           new == [[c.redemption EXCEPT !.attempted = e.attempted] EXCEPT !.actual = e.actual]
           m == [c EXCEPT !.redemption = new]
<1>1. /\ Keeps(d, c, {"redemption", "transaction"},
               {"transactionCount", "redemptionCount", "currentRedemption"})
      /\ c.global.transactionCount \in Nat
      /\ c.transaction.hash # Null
            => c.transaction.sequenceNumber = c.global.transactionCount - 1
      /\ HasCalls(c)
      /\ c.redemption.troves = IF d.global.currentRedemption # Null
                              THEN d.redemption.troves ELSE {}
  BY RedemptionGot DEF ChainInv
<1>2. r = [[m EXCEPT !.global.currentRedemption = Null]
            EXCEPT !.global.totalRedemptionFeesPaid = @ + e.fee]
  BY DEF FinishCurrentRedemption
<1> HIDE DEF c, r
<1>3. /\ new.troves = c.redemption.troves
      /\ new = [f \in {"id", "attempted", "actual", "troves"} |-> new[f]]
  BY <1>1 DEF HasCalls
<1> HIDE DEF new
<1>4. IsStore(m) /\ m.redemption = new /\ m.global = c.global
      /\ \A f \in StoreFields \ {"redemption", "global"} : m[f] = c[f]
  BY <1>1 DEF Keeps, IsStore, StoreFields
<1> HIDE DEF m
<1>5. /\ r.global = [[m.global EXCEPT !.currentRedemption = Null]
                      EXCEPT !.totalRedemptionFeesPaid = @ + e.fee]
      /\ IsStore(r) /\ \A f \in StoreFields \ {"global"} : r[f] = m[f]
  <2> DEFINE q == [m EXCEPT !.global.currentRedemption = Null]
  <2>1. /\ q.global = [m.global EXCEPT !.currentRedemption = Null]
        /\ IsStore(q) /\ \A f \in StoreFields \ {"global"} : q[f] = m[f]
    BY <1>4 DEF IsStore, StoreFields
  <2>2. r = [q EXCEPT !.global.totalRedemptionFeesPaid = @ + e.fee]
    BY <1>2
  <2> HIDE DEF q
  <2> QED
    BY <2>1, <2>2 DEF IsStore, StoreFields
<1>6. /\ \A k \in GlobalKeys \ {"currentRedemption", "totalRedemptionFeesPaid"} : r.global[k] = c.global[k]
      /\ r.global.currentRedemption = Null
  BY <1>4, <1>5 DEF IsStore, GlobalKeys, OtherKeys
<1>7. Keeps(d, r, {"redemption", "transaction"},
            {"transactionCount", "redemptionCount", "currentRedemption", "totalRedemptionFeesPaid"})
  BY <1>1, <1>4, <1>5, <1>6 DEF Keeps
<1>8. /\ r.transaction = c.transaction /\ r.redemption = new
      /\ r.change = d.change /\ r.liquidation = c.liquidation
      /\ \A k \in ChainKeys : r.global[k] = c.global[k]
      /\ \A k \in ChainKeys \ {"transactionCount"} : c.global[k] = d.global[k]
      /\ r.global.redemptionCount = c.global.redemptionCount
      /\ r.global.liquidationCount = c.global.liquidationCount
  BY <1>1, <1>4, <1>5, <1>6 DEF Keeps, StoreFields, GlobalKeys, ChainKeys, OtherKeys
<1>9. ChainInv(r)
  BY <1>1, <1>8 DEF ChainInv, ChainKeys
<1>10. HasCalls(r)
  BY <1>1, <1>3, <1>8 DEF HasCalls
<1> QED
  BY <1>1, <1>3, <1>6, <1>7, <1>8, <1>9, <1>10 DEF r

LEMMA DepositOperated ==
    ASSUME NEW d, NEW e, NEW operation, NEW amount,
           IsStore(d), ChainInv(d), e.tx # Null
    PROVE  LET r == UpdateStabilityDepositByOperation(d, e, operation, amount)
           IN /\ Keeps(d, r, ChangeFields \union {"deposits"}, ChainKeys)
              /\ ChainInv(r)
              /\ r.deposits = WithAmount(d.deposits, e.user, amount)
<1> DEFINE begun == BeginChange(d, e)
           delta == amount - d.deposits[e.user].amount
           s == IF operation \in {"depositTokens", "withdrawTokens"}
                THEN [begun.state EXCEPT !.tokensInStabilityPool = @ + delta]
                ELSE begun.state
           q == FinishChange(BumpSystemState(begun, s),
                             InitChange(begun, e, "deposit", e.user, operation))
           r == UpdateStabilityDepositByOperation(d, e, operation, amount)
<1>1. r = [q EXCEPT !.deposits = [q.deposits EXCEPT ![e.user] = [@ EXCEPT !.amount = amount]]]
  BY DEF UpdateStabilityDepositByOperation
<1> HIDE DEF s, r
<1>2. Keeps(d, q, ChangeFields, ChainKeys) /\ ChainInv(q)
  BY OneChange DEF ChangeFields
<1> HIDE DEF q
<1>3. /\ IsStore(r) /\ r.global = q.global
      /\ r.deposits = [q.deposits EXCEPT ![e.user] = [@ EXCEPT !.amount = amount]]
      /\ \A f \in StoreFields \ {"global", "deposits"} : r[f] = q[f]
  BY <1>1, <1>2 DEF Keeps, IsStore, StoreFields
<1>4. Keeps(q, r, {"deposits"}, {}) /\ q.deposits = d.deposits
  BY <1>2, <1>3 DEF Keeps, StoreFields, ChangeFields
<1>5. Keeps(d, r, ChangeFields \union {"deposits"}, ChainKeys)
  BY <1>2, <1>4 DEF Keeps
<1>6. ChainInv(r)
  BY <1>2, <1>4, ChainKept
<1> QED
  BY <1>3, <1>4, <1>5, <1>6 DEF r, WithAmount

LEMMA DepositUpdated ==
    ASSUME NEW d, NEW e, NEW amount, e.user \in Users,
           IsStore(d), ChainInv(d), HasAccounts(d), e.tx # Null
    PROVE  LET r == UpdateStabilityDeposit(d, e, amount)
               u == e.user
           IN /\ Keeps(d, r, ChangeFields \union {"deposits"}, ChainKeys)
              /\ ChainInv(r)
              /\ r.deposits = IF amount = d.deposits[u].amount THEN d.deposits
                              ELSE [d.deposits EXCEPT ![u] =
                                      [amount |-> amount, frontend |-> d.users[u].frontend]]
<1> DEFINE u == e.user
           tag == d.users[u].frontend
           tagged == [d EXCEPT !.deposits = [d.deposits EXCEPT ![u] = [@ EXCEPT !.frontend = tag]]]
           op == IF amount > d.deposits[u].amount THEN "depositTokens" ELSE "withdrawTokens"
           q == UpdateStabilityDepositByOperation(tagged, e, op, amount)
           r == UpdateStabilityDeposit(d, e, amount)
<1>1. CASE amount = d.deposits[u].amount
  BY <1>1 DEF UpdateStabilityDeposit, Keeps
<1>2. CASE amount # d.deposits[u].amount
  <2>1. r = q
    BY <1>2 DEF UpdateStabilityDeposit
  <2> HIDE DEF op, tag
  <2>2. /\ IsStore(tagged) /\ tagged.global = d.global
        /\ tagged.deposits = [d.deposits EXCEPT ![u] = [@ EXCEPT !.frontend = tag]]
        /\ \A f \in StoreFields \ {"global", "deposits"} : tagged[f] = d[f]
    BY DEF IsStore, StoreFields
  <2> HIDE DEF tagged, r
  <2>3. Keeps(d, tagged, {"deposits"}, {})
    BY <2>2 DEF Keeps
  <2>4. ChainInv(tagged)
    <3>1. {"deposits"} \intersect {"change", "transaction"} = {} /\ {} \intersect ChainKeys = {}
      OBVIOUS
    <3> QED
      BY <2>3, <3>1, ChainKept
  <2>5. /\ Keeps(tagged, q, ChangeFields \union {"deposits"}, ChainKeys)
        /\ ChainInv(q)
        /\ q.deposits = WithAmount(tagged.deposits, u, amount)
    <3>1. IsStore(tagged) /\ ChainInv(tagged) /\ e.tx # Null
      BY <2>2, <2>4
    <3> QED
      BY <3>1, DepositOperated
  <2> HIDE DEF q
  <2>6. q.deposits = [d.deposits EXCEPT ![u] = [amount |-> amount, frontend |-> tag]]
    <3>1. d.deposits[u] = [amount |-> d.deposits[u].amount, frontend |-> d.deposits[u].frontend]
      BY DEF HasAccounts
    <3>2. tagged.deposits[u] = [amount |-> d.deposits[u].amount, frontend |-> tag]
      BY <2>2, <3>1 DEF HasAccounts
    <3>3. [tagged.deposits[u] EXCEPT !.amount = amount] = [amount |-> amount, frontend |-> tag]
      BY <3>2
    <3> QED
      BY <2>2, <2>5, <3>3 DEF WithAmount
  <2>7. Keeps(d, q, ChangeFields \union {"deposits"}, ChainKeys)
    BY <2>3, <2>5 DEF Keeps
  <2> QED
    BY <1>2, <2>1, <2>5, <2>6, <2>7 DEF r, tag
<1> QED
  BY <1>1, <1>2

LEMMA GainWithdrawn ==
    ASSUME NEW d, NEW e, IsStore(d), ChainInv(d), e.tx # Null
    PROVE  LET r == WithdrawCollateralGainFromStabilityDeposit(d, e)
               u == e.user
           IN /\ Keeps(d, r, ChangeFields \union {"deposits"}, ChainKeys)
              /\ ChainInv(r)
              /\ r.deposits = IF e.gain = 0 /\ e.loss = 0 THEN d.deposits
                              ELSE WithAmount(d.deposits, u, d.deposits[u].amount - e.loss)
<1>1. CASE e.gain = 0 /\ e.loss = 0
  BY <1>1 DEF WithdrawCollateralGainFromStabilityDeposit, Keeps
<1>2. CASE ~(e.gain = 0 /\ e.loss = 0)
  <2> DEFINE amount == d.deposits[e.user].amount - e.loss
             q == UpdateStabilityDepositByOperation(d, e, "withdrawCollateralGain", amount)
  <2>1. WithdrawCollateralGainFromStabilityDeposit(d, e) = q
    BY <1>2 DEF WithdrawCollateralGainFromStabilityDeposit
  <2> HIDE DEF amount
  <2>2. /\ Keeps(d, q, ChangeFields \union {"deposits"}, ChainKeys)
        /\ ChainInv(q)
        /\ q.deposits = WithAmount(d.deposits, e.user, amount)
    BY DepositOperated
  <2> QED
    BY <1>2, <2>1, <2>2 DEF amount
<1> QED
  BY <1>1, <1>2

LEMMA TmpSwapped ==
    ASSUME NEW d, NEW value, IsStore(d), ChainInv(d)
    PROVE  LET r == SwapTmpDepositUpdate(d, value)
           IN /\ Keeps(d, r, {}, {"tmpDepositUpdate"})
              /\ ChainInv(r)
              /\ r.global.tmpDepositUpdate
                    = IF d.global.tmpDepositUpdate = Null THEN value ELSE Null
<1> DEFINE r == SwapTmpDepositUpdate(d, value)
           x == IF d.global.tmpDepositUpdate = Null THEN value ELSE Null
<1>1. r = [d EXCEPT !.global.tmpDepositUpdate = x]
  BY DEF SwapTmpDepositUpdate
<1> HIDE DEF r, x
<1>2. /\ r.global = [d.global EXCEPT !.tmpDepositUpdate = x]
      /\ IsStore(r) /\ \A f \in StoreFields \ {"global"} : r[f] = d[f]
  BY <1>1 DEF IsStore, StoreFields
<1>3. Keeps(d, r, {}, {"tmpDepositUpdate"}) /\ r.global.tmpDepositUpdate = x
  BY <1>2 DEF Keeps, IsStore, GlobalKeys, OtherKeys
<1>4. {"tmpDepositUpdate"} \intersect ChainKeys = {}
  BY DEF ChainKeys
<1>5. ChainInv(r)
  BY <1>3, <1>4, ChainKept
<1> QED
  BY <1>3, <1>5 DEF r, x

LEMMA AccountsKept ==
    ASSUME NEW d, NEW r, HasAccounts(d), NEW F, NEW K, Keeps(d, r, F, K),
           F \intersect {"deposits", "users", "stakes", "token"} = {}
    PROVE  HasAccounts(r)
<1>1. /\ r.deposits = d.deposits /\ r.users = d.users
      /\ r.stakes = d.stakes /\ r.token = d.token
  BY DEF Keeps, StoreFields
<1> QED
  BY <1>1 DEF HasAccounts

LEMMA DepositStays ==
    ASSUME NEW d, NEW r, HasAccounts(d), NEW u \in Users, r.deposits = d.deposits
    PROVE  DepositIs(d, r, u, d.deposits[u].amount, d.deposits[u].frontend)
BY DEF HasAccounts, DepositIs

LEMMA DepositChangedHandled ==
    ASSUME NEW d, NEW e, e.user \in Users, IsStore(d), ChainInv(d), HasAccounts(d), e.tx # Null
    PROVE  LET r == HandleUserDepositChanged(d, e)
               u == e.user
               old == d.deposits[u].amount
           IN /\ Keeps(d, r, ChangeFields \union {"deposits"},
                       ChainKeys \union {"tmpDepositUpdate"})
              /\ ChainInv(r)
              /\ IF d.global.tmpDepositUpdate = Null
                 THEN /\ r.global.tmpDepositUpdate = e.amount
                      /\ DepositIs(d, r, u, old, d.deposits[u].frontend)
                 ELSE /\ r.global.tmpDepositUpdate = Null
                      /\ DepositIs(d, r, u, e.amount, TagFor(d, u, old, e.amount))
<1> DEFINE s == SwapTmpDepositUpdate(d, e.amount)
           r == HandleUserDepositChanged(d, e)
           q == UpdateStabilityDeposit(s, e, e.amount)
<1>1. /\ Keeps(d, s, {}, {"tmpDepositUpdate"})
      /\ ChainInv(s)
      /\ s.global.tmpDepositUpdate
            = IF d.global.tmpDepositUpdate = Null THEN e.amount ELSE Null
  BY TmpSwapped
<1>2. r = IF d.global.tmpDepositUpdate = Null THEN s ELSE q
  BY DEF HandleUserDepositChanged
<1> HIDE DEF s, r
<1>3. /\ IsStore(s) /\ s.deposits = d.deposits /\ s.users = d.users
      /\ s.stakes = d.stakes /\ s.token = d.token
  BY <1>1 DEF Keeps, StoreFields
<1>4. HasAccounts(s)
  BY <1>3 DEF HasAccounts
<1>5. CASE d.global.tmpDepositUpdate = Null
  <2>1. Keeps(d, s, ChangeFields \union {"deposits"}, ChainKeys \union {"tmpDepositUpdate"})
    BY <1>1 DEF Keeps
  <2>2. DepositIs(d, s, e.user, d.deposits[e.user].amount, d.deposits[e.user].frontend)
    BY <1>3, DepositStays
  <2> QED
    BY <1>1, <1>2, <1>5, <2>1, <2>2 DEF r
<1>6. CASE d.global.tmpDepositUpdate # Null
  <2>1. /\ Keeps(s, q, ChangeFields \union {"deposits"}, ChainKeys)
        /\ ChainInv(q)
        /\ q.deposits = IF e.amount = s.deposits[e.user].amount THEN s.deposits
                        ELSE [s.deposits EXCEPT ![e.user] =
                                [amount |-> e.amount, frontend |-> s.users[e.user].frontend]]
    <3>1. IsStore(s) /\ ChainInv(s) /\ HasAccounts(s) /\ e.user \in Users /\ e.tx # Null
      BY <1>1, <1>3, <1>4
    <3> QED
      BY <3>1, DepositUpdated
  <2> HIDE DEF q
  <2>2. Keeps(d, q, ChangeFields \union {"deposits"}, ChainKeys \union {"tmpDepositUpdate"})
    BY <1>1, <2>1 DEF Keeps
  <2>3. q.global.tmpDepositUpdate = Null
    BY <1>1, <1>6, <2>1 DEF Keeps, GlobalKeys, OtherKeys, ChainKeys
  <2>4. DepositIs(d, q, e.user, e.amount,
                  TagFor(d, e.user, d.deposits[e.user].amount, e.amount))
    BY <1>3, <2>1 DEF HasAccounts, DepositIs, TagFor
  <2> QED
    BY <1>2, <1>6, <2>1, <2>2, <2>3, <2>4 DEF r
<1> QED
  BY <1>5, <1>6

LEMMA GainHandled ==
    ASSUME NEW d, NEW e, e.user \in Users, IsStore(d), ChainInv(d), HasAccounts(d), e.tx # Null
    PROVE  LET r == HandleFILGainWithdrawn(d, e)
               u == e.user
               old == d.deposits[u].amount
               left == IF e.gain = 0 /\ e.loss = 0 THEN old ELSE old - e.loss
               update == d.global.tmpDepositUpdate
           IN /\ Keeps(d, r, ChangeFields \union {"deposits"},
                       ChainKeys \union {"tmpDepositUpdate"})
              /\ ChainInv(r)
              /\ IF update = Null
                 THEN /\ r.global.tmpDepositUpdate = 0
                      /\ DepositIs(d, r, u, left, d.deposits[u].frontend)
                 ELSE /\ r.global.tmpDepositUpdate = Null
                      /\ DepositIs(d, r, u, update, TagFor(d, u, left, update))
<1> DEFINE s == SwapTmpDepositUpdate(d, 0)
           w == WithdrawCollateralGainFromStabilityDeposit(s, e)
           u == e.user
           old == d.deposits[u].amount
           left == IF e.gain = 0 /\ e.loss = 0 THEN old ELSE old - e.loss
           update == d.global.tmpDepositUpdate
           q == UpdateStabilityDeposit(w, e, update)
           r == HandleFILGainWithdrawn(d, e)
<1>1. /\ Keeps(d, s, {}, {"tmpDepositUpdate"})
      /\ ChainInv(s)
      /\ s.global.tmpDepositUpdate = IF update = Null THEN 0 ELSE Null
  BY TmpSwapped
<1>2. r = IF update = Null THEN w ELSE q
  BY DEF HandleFILGainWithdrawn
<1> HIDE DEF s, r
<1>3. /\ IsStore(s) /\ s.deposits = d.deposits /\ s.users = d.users
      /\ s.stakes = d.stakes /\ s.token = d.token
  BY <1>1 DEF Keeps, StoreFields
<1>4. /\ Keeps(s, w, ChangeFields \union {"deposits"}, ChainKeys)
      /\ ChainInv(w)
      /\ w.deposits = IF e.gain = 0 /\ e.loss = 0 THEN s.deposits
                      ELSE WithAmount(s.deposits, u, s.deposits[u].amount - e.loss)
  BY <1>1, <1>3, GainWithdrawn
<1> HIDE DEF w
<1>5. DepositIs(d, w, u, left, d.deposits[u].frontend)
  <2>1. CASE e.gain = 0 /\ e.loss = 0
    BY <2>1, <1>3, <1>4, DepositStays
  <2>2. CASE ~(e.gain = 0 /\ e.loss = 0)
    <3>1. d.deposits[u] = [amount |-> old, frontend |-> d.deposits[u].frontend]
      BY DEF HasAccounts
    <3>2. [d.deposits[u] EXCEPT !.amount = left] = [amount |-> left, frontend |-> d.deposits[u].frontend]
      BY <3>1
    <3>3. w.deposits = WithAmount(d.deposits, u, left)
      BY <2>2, <1>3, <1>4
    <3> HIDE DEF left
    <3> QED
      BY <3>2, <3>3 DEF WithAmount, DepositIs
  <2> QED
    BY <2>1, <2>2
<1>6. /\ Keeps(d, w, ChangeFields \union {"deposits"}, ChainKeys \union {"tmpDepositUpdate"})
      /\ w.global.tmpDepositUpdate = s.global.tmpDepositUpdate
  BY <1>1, <1>4 DEF Keeps, GlobalKeys, OtherKeys, ChainKeys
<1>7. CASE update = Null
  BY <1>1, <1>2, <1>4, <1>5, <1>6, <1>7 DEF r
<1>8. CASE update # Null
  <2> HIDE DEF left, update
  <2>1. /\ IsStore(w) /\ w.users = d.users /\ w.stakes = d.stakes /\ w.token = d.token
    BY <1>6 DEF Keeps, StoreFields, ChangeFields
  <2>2. w.deposits = [v \in Users |-> IF v = u
                         THEN [amount |-> left, frontend |-> d.deposits[u].frontend]
                         ELSE d.deposits[v]]
    <3>1. w.deposits = [d.deposits EXCEPT ![u] = [amount |-> left, frontend |-> d.deposits[u].frontend]]
      BY <1>5 DEF DepositIs
    <3>2. d.deposits = [v \in Users |-> d.deposits[v]]
      BY DEF HasAccounts
    <3> QED
      BY <3>1, <3>2
  <2>3. /\ w.deposits[u].amount = left
        /\ w.deposits[u].frontend = d.deposits[u].frontend
        /\ \A v \in Users : w.deposits[v] = [amount   |-> w.deposits[v].amount,
                                             frontend |-> w.deposits[v].frontend]
    <3>1. \A v \in Users : d.deposits[v] = [amount   |-> d.deposits[v].amount,
                                             frontend |-> d.deposits[v].frontend]
      BY DEF HasAccounts
    <3> QED
      BY <2>2, <3>1
  <2>4. HasAccounts(w)
    BY <2>1, <2>2, <2>3 DEF HasAccounts
  <2>5. /\ Keeps(w, q, ChangeFields \union {"deposits"}, ChainKeys)
        /\ ChainInv(q)
        /\ q.deposits = IF update = w.deposits[u].amount THEN w.deposits
                        ELSE [w.deposits EXCEPT ![u] =
                                [amount |-> update, frontend |-> w.users[u].frontend]]
    <3>1. IsStore(w) /\ ChainInv(w) /\ HasAccounts(w) /\ u \in Users /\ e.tx # Null
      BY <1>4, <2>1, <2>4
    <3> QED
      BY <3>1, DepositUpdated
  <2> HIDE DEF q
  <2>6. Keeps(d, q, ChangeFields \union {"deposits"}, ChainKeys \union {"tmpDepositUpdate"})
    BY <1>6, <2>5 DEF Keeps
  <2>7. q.global.tmpDepositUpdate = Null
    BY <1>1, <1>6, <1>8, <2>5 DEF Keeps, GlobalKeys, OtherKeys, ChainKeys
  <2>8. DepositIs(d, q, u, update, TagFor(d, u, left, update))
    <3>1. q.deposits = [v \in Users |-> IF v = u
                          THEN [amount |-> update, frontend |-> TagFor(d, u, left, update)]
                          ELSE d.deposits[v]]
      BY <2>1, <2>2, <2>3, <2>5 DEF TagFor
    <3> QED
      BY <3>1 DEF DepositIs, HasAccounts
  <2> QED
    BY <1>2, <1>8, <2>5, <2>6, <2>7, <2>8 DEF r, left, update
<1> QED
  BY <1>7, <1>8

LEMMA FrontendHandled ==
    ASSUME NEW d, NEW e, IsStore(d), ChainInv(d)
    PROVE  LET r == RegisterFrontend(d, e)
           IN /\ Keeps(d, r, {"frontends"}, {})
              /\ ChainInv(r)
              /\ r.frontends = d.frontends \union {e.user}
<1> DEFINE r == RegisterFrontend(d, e)
<1>1. Keeps(d, r, {"frontends"}, {}) /\ r.frontends = d.frontends \union {e.user}
  BY DEF RegisterFrontend, Keeps, IsStore, StoreFields
<1> HIDE DEF r
<1>2. {"frontends"} \intersect {"change", "transaction"} = {} /\ {} \intersect ChainKeys = {}
  OBVIOUS
<1>3. ChainInv(r)
  BY <1>1, <1>2, ChainKept
<1> QED
  BY <1>1, <1>3 DEF r

LEMMA TagHandled ==
    ASSUME NEW d, NEW e, e.user \in Users, IsStore(d), ChainInv(d), HasAccounts(d)
    PROVE  LET r == AssignFrontendToDepositor(d, e)
               u == e.user
           IN /\ Keeps(d, r, {"users"}, {})
              /\ ChainInv(r)
              /\ r.users = IF e.frontend \in d.frontends
                           THEN [d.users EXCEPT ![u] =
                                   [collSurplus |-> d.users[u].collSurplus,
                                    frontend    |-> e.frontend]]
                           ELSE d.users
<1> DEFINE u == e.user
           users == [d.users EXCEPT ![u] = [@ EXCEPT !.frontend = e.frontend]]
           r == [d EXCEPT !.users = users]
<1>1. CASE e.frontend \notin d.frontends
  BY <1>1 DEF AssignFrontendToDepositor, Keeps
<1>2. CASE e.frontend \in d.frontends
  <2>1. AssignFrontendToDepositor(d, e) = r
    BY <1>2 DEF AssignFrontendToDepositor
  <2>2. users = [d.users EXCEPT ![u] = [collSurplus |-> d.users[u].collSurplus,
                                        frontend    |-> e.frontend]]
    <3>1. d.users[u] = [collSurplus |-> d.users[u].collSurplus,
                        frontend    |-> d.users[u].frontend]
      BY DEF HasAccounts
    <3>2. [d.users[u] EXCEPT !.frontend = e.frontend]
             = [collSurplus |-> d.users[u].collSurplus, frontend |-> e.frontend]
      BY <3>1
    <3> QED
      BY <3>2
  <2> HIDE DEF users
  <2>3. Keeps(d, r, {"users"}, {}) /\ r.users = users
    BY DEF Keeps, IsStore, StoreFields
  <2> HIDE DEF r
  <2>4. {"users"} \intersect {"change", "transaction"} = {} /\ {} \intersect ChainKeys = {}
    OBVIOUS
  <2>5. ChainInv(r)
    BY <2>3, <2>4, ChainKept
  <2> QED
    BY <1>2, <2>1, <2>2, <2>3, <2>5
<1> QED
  BY <1>1, <1>2

LEMMA SurplusHandled ==
    ASSUME NEW d, NEW e, e.user \in Users, IsStore(d), ChainInv(d), HasAccounts(d), e.tx # Null
    PROVE  LET r == UpdateUserClaimColl(d, e)
               u == e.user
           IN /\ Keeps(d, r, ChangeFields \union {"users"}, ChainKeys)
              /\ ChainInv(r)
              /\ r.users = [d.users EXCEPT ![u] = [collSurplus |-> e.amount,
                                                   frontend    |-> d.users[u].frontend]]
<1> DEFINE u == e.user
           begun == BeginChange(d, e)
           s == [begun.state EXCEPT
                   !.collSurplusPoolBalance = @ + (e.amount - d.users[e.user].collSurplus)]
           q == FinishChange(BumpSystemState(begun, s),
                             InitChange(begun, e, "surplus", e.user, "none"))
           users == [d.users EXCEPT ![u] = [collSurplus |-> e.amount,
                                            frontend    |-> d.users[u].frontend]]
           m == [q EXCEPT !.users = users]
<1>1. d.users[u] = [collSurplus |-> d.users[u].collSurplus, frontend |-> d.users[u].frontend]
  BY DEF HasAccounts
<1>2. CASE e.amount = d.users[u].collSurplus
  <2>1. users = d.users
    BY <1>1, <1>2 DEF HasAccounts
  <2> QED
    BY <1>2, <2>1 DEF UpdateUserClaimColl, Keeps
<1>3. CASE e.amount # d.users[u].collSurplus
  <2>1. Keeps(d, q, ChangeFields, ChainKeys) /\ ChainInv(q)
    BY OneChange DEF ChangeFields
  <2>2. UpdateUserClaimColl(d, e)
           = [q EXCEPT !.users = [q.users EXCEPT ![u] = [@ EXCEPT !.collSurplus = e.amount]]]
    BY <1>3 DEF UpdateUserClaimColl
  <2> HIDE DEF q
  <2>3. q.users = d.users
    BY <2>1 DEF Keeps, StoreFields, ChangeFields
  <2>4. [q.users EXCEPT ![u] = [@ EXCEPT !.collSurplus = e.amount]] = users
    <3>1. [d.users[u] EXCEPT !.collSurplus = e.amount]
             = [collSurplus |-> e.amount, frontend |-> d.users[u].frontend]
      BY <1>1
    <3> QED
      BY <2>3, <3>1
  <2>5. UpdateUserClaimColl(d, e) = m
    BY <2>2, <2>4
  <2> HIDE DEF users
  <2>6. Keeps(q, m, {"users"}, {}) /\ m.users = users
    BY <2>1 DEF Keeps, IsStore, StoreFields
  <2> HIDE DEF m
  <2>7. {"users"} \intersect {"change", "transaction"} = {} /\ {} \intersect ChainKeys = {}
    OBVIOUS
  <2>8. ChainInv(m)
    BY <2>1, <2>6, <2>7, ChainKept
  <2>9. Keeps(d, m, ChangeFields \union {"users"}, ChainKeys)
    BY <2>1, <2>6 DEF Keeps
  <2> QED
    BY <2>5, <2>6, <2>8, <2>9 DEF users
<1> QED
  BY <1>2, <1>3

LEMMA StakeHandled ==
    ASSUME NEW d, NEW e, e.user \in Users, NEW operation, NEW amount,
           IsStore(d), ChainInv(d), e.tx # Null
    PROVE  LET r == StakeChange(d, e, operation, amount)
           IN /\ Keeps(d, r, ChangeFields \union {"stakes"}, ChainKeys)
              /\ ChainInv(r)
              /\ StakeIs(d, r, e.user, amount)
<1> DEFINE begun == BeginChange(d, e)
           s == [begun.state EXCEPT
                   !.totalProtocolTokensStaked = @ + (amount - d.stakes[e.user].amount)]
           q == FinishChange(BumpSystemState(begun, s),
                             InitChange(begun, e, "stake", e.user, operation))
           stakes == [q.stakes EXCEPT ![e.user] = [amount |-> amount, exists |-> TRUE]]
           m == [q EXCEPT !.stakes = stakes]
<1>1. StakeChange(d, e, operation, amount) = m
  BY DEF StakeChange
<1>2. Keeps(d, q, ChangeFields, ChainKeys) /\ ChainInv(q)
  BY OneChange DEF ChangeFields
<1> HIDE DEF q
<1>3. q.stakes = d.stakes
  BY <1>2 DEF Keeps, StoreFields, ChangeFields
<1>4. Keeps(q, m, {"stakes"}, {}) /\ m.stakes = stakes
  <2> HIDE DEF stakes
  <2> QED
    BY <1>2 DEF Keeps, IsStore, StoreFields
<1> HIDE DEF m
<1>5. {"stakes"} \intersect {"change", "transaction"} = {} /\ {} \intersect ChainKeys = {}
  OBVIOUS
<1>6. ChainInv(m)
  BY <1>2, <1>4, <1>5, ChainKept
<1>7. Keeps(d, m, ChangeFields \union {"stakes"}, ChainKeys)
  BY <1>2, <1>4 DEF Keeps
<1> QED
  BY <1>1, <1>3, <1>4, <1>6, <1>7 DEF StakeIs

LEMMA StakeCounted ==
    ASSUME NEW d, NEW u, NEW old, NEW new, IsStore(d), d.stakes[u].exists \in BOOLEAN,
           \A k \in StakeCounters : d.global[k] \in Int
    PROVE  LET r == CountStake(d, u, GetOperationType(old, new))
           IN Keeps(d, r, {}, StakeCounters) /\ StakeRecounts(d, r, u, old, new)
<1> DEFINE operation == GetOperationType(old, new)
           K1 == "totalNumberOfProtocolTokenStakes"
           K2 == "numberOfActiveProtocolTokenStakes"
           r == CountStake(d, u, operation)
<1>0. {K1, K2} \subseteq GlobalKeys /\ K1 # K2 /\ StakeCounters = {K1, K2}
  BY DEF GlobalKeys, OtherKeys, StakeCounters
<1>1. CASE operation = "stakeCreated" /\ ~d.stakes[u].exists
  <2> DEFINE c == IncreaseCounter(d, K1)
             q == IncreaseCounter(c, K2)
  <2>1. r = q
    BY <1>1 DEF CountStake
  <2>2. Keeps(d, c, {}, {K1}) /\ c.global[K1] = d.global[K1] + 1
    BY <1>0, CounterIncreased
  <2> HIDE DEF c
  <2>3. Keeps(c, q, {}, {K2}) /\ q.global[K2] = c.global[K2] + 1
    BY <1>0, <2>2, CounterIncreased DEF Keeps
  <2> HIDE DEF q, r
  <2>4. Keeps(d, q, {}, StakeCounters)
    BY <1>0, <2>2, <2>3 DEF Keeps
  <2>5. q.global[K1] = d.global[K1] + 1 /\ q.global[K2] = d.global[K2] + 1
    BY <1>0, <2>2, <2>3 DEF Keeps
  <2> QED
    BY <1>0, <1>1, <2>1, <2>4, <2>5 DEF StakeRecounts, r
<1>2. CASE operation = "stakeCreated" /\ d.stakes[u].exists
  <2> DEFINE q == IncreaseCounter(d, K2)
  <2>1. r = q
    <3>1. ~(operation = "stakeCreated" /\ ~d.stakes[u].exists)
      BY <1>2
    <3> QED
      BY <1>2, <3>1 DEF CountStake
  <2>2. Keeps(d, q, {}, {K2}) /\ q.global[K2] = d.global[K2] + 1
    BY <1>0, CounterIncreased
  <2> HIDE DEF q, r
  <2>3. Keeps(d, q, {}, StakeCounters) /\ q.global[K1] = d.global[K1]
    BY <1>0, <2>2 DEF Keeps
  <2> QED
    BY <1>0, <1>2, <2>1, <2>2, <2>3 DEF StakeRecounts, r
<1>3. CASE operation = "stakeRemoved"
  <2> DEFINE q == DecreaseCounter(d, K2)
  <2>1. r = q
    BY <1>3 DEF CountStake
  <2>2. Keeps(d, q, {}, {K2}) /\ q.global[K2] = d.global[K2] - 1
    BY <1>0, CounterDecreased
  <2> HIDE DEF q, r
  <2>3. Keeps(d, q, {}, StakeCounters) /\ q.global[K1] = d.global[K1]
    BY <1>0, <2>2 DEF Keeps
  <2> QED
    BY <1>0, <1>3, <2>1, <2>2, <2>3 DEF StakeRecounts, r
<1>4. CASE operation \notin {"stakeCreated", "stakeRemoved"}
  <2>1. r = d
    BY <1>4 DEF CountStake
  <2> QED
    BY <1>0, <1>4, <2>1 DEF Keeps, StakeRecounts
<1> QED
  BY <1>1, <1>2, <1>3, <1>4

LEMMA StakeUpdated ==
    ASSUME NEW d, NEW e, e.user \in Users, IsStore(d), ChainInv(d), e.tx # Null,
           d.stakes[e.user].exists \in BOOLEAN,
           \A k \in StakeCounters : d.global[k] \in Int
    PROVE  LET r == UpdateStake(d, e)
               u == e.user
           IN /\ Keeps(d, r, ChangeFields \union {"stakes"}, ChainKeys \union StakeCounters)
              /\ ChainInv(r)
              /\ StakeIs(d, r, u, e.amount)
              /\ StakeRecounts(d, r, u, d.stakes[u].amount, e.amount)
<1> DEFINE operation == GetOperationType(d.stakes[e.user].amount, e.amount)
           c == CountStake(d, e.user, operation)
           r == StakeChange(c, e, operation, e.amount)
<1>1. UpdateStake(d, e) = r
  BY DEF UpdateStake
<1> HIDE DEF operation
<1>2. Keeps(d, c, {}, StakeCounters) /\ StakeRecounts(d, c, e.user, d.stakes[e.user].amount, e.amount)
  BY StakeCounted DEF operation
<1> HIDE DEF c
<1>3. {} \intersect {"change", "transaction"} = {} /\ StakeCounters \intersect ChainKeys = {}
  BY DEF StakeCounters, ChainKeys
<1>4. ChainInv(c) /\ IsStore(c) /\ c.stakes = d.stakes
  <2>1. ChainInv(c)
    BY <1>2, <1>3, ChainKept
  <2> QED
    BY <1>2, <2>1 DEF Keeps, StoreFields
<1>5. /\ Keeps(c, r, ChangeFields \union {"stakes"}, ChainKeys)
      /\ ChainInv(r)
      /\ StakeIs(c, r, e.user, e.amount)
  BY <1>4, StakeHandled
<1> HIDE DEF r
<1>6. Keeps(d, r, ChangeFields \union {"stakes"}, ChainKeys \union StakeCounters)
  BY <1>2, <1>5 DEF Keeps
<1>7. /\ r.global.totalNumberOfProtocolTokenStakes = c.global.totalNumberOfProtocolTokenStakes
      /\ r.global.numberOfActiveProtocolTokenStakes = c.global.numberOfActiveProtocolTokenStakes
  BY <1>5 DEF Keeps, GlobalKeys, OtherKeys, ChainKeys
<1> QED
  BY <1>1, <1>2, <1>4, <1>5, <1>6, <1>7 DEF StakeRecounts, StakeIs

LEMMA StakeGainsHandled ==
    ASSUME NEW d, NEW e, e.user \in Users, IsStore(d), ChainInv(d), e.tx # Null
    PROVE  LET r == WithdrawStakeGains(d, e)
               u == e.user
           IN /\ Keeps(d, r, ChangeFields \union {"stakes"}, ChainKeys)
              /\ ChainInv(r)
              /\ IF e.gain = 0 THEN r.stakes = d.stakes
                 ELSE StakeIs(d, r, u, d.stakes[u].amount)
<1>1. CASE e.gain = 0
  BY <1>1 DEF WithdrawStakeGains, Keeps
<1>2. CASE e.gain # 0
  <2> DEFINE amount == d.stakes[e.user].amount
             q == StakeChange(d, e, "gainsWithdrawn", amount)
  <2>1. WithdrawStakeGains(d, e) = q
    BY <1>2 DEF WithdrawStakeGains
  <2> HIDE DEF amount
  <2>2. /\ Keeps(d, q, ChangeFields \union {"stakes"}, ChainKeys)
        /\ ChainInv(q)
        /\ StakeIs(d, q, e.user, amount)
    BY StakeHandled
  <2> QED
    BY <1>2, <2>1, <2>2 DEF amount
<1> QED
  BY <1>1, <1>2

LEMMA TransferHandled ==
    ASSUME NEW d, NEW e, IsStore(d), ChainInv(d), HasAccounts(d)
    PROVE  LET r == UpdateBalance(d, e)
           IN /\ Keeps(d, r, {"token"}, {})
              /\ ChainInv(r)
              /\ r.token = [totalSupply |-> d.token.totalSupply
                                               + (IF e.from = Nobody THEN e.value ELSE 0)
                                               - (IF e.to = Nobody THEN e.value ELSE 0),
                            balances |-> Credit(Debit(d.token.balances, e.from, e.value),
                                                e.to, e.value),
                            allowances |-> d.token.allowances]
<1> DEFINE supply == d.token.totalSupply + (IF e.from = Nobody THEN e.value ELSE 0)
                                         - (IF e.to = Nobody THEN e.value ELSE 0)
           balances == Credit(Debit(d.token.balances, e.from, e.value), e.to, e.value)
           token == [[d.token EXCEPT !.totalSupply = supply] EXCEPT !.balances = balances]
           r == [d EXCEPT !.token = token]
<1>1. UpdateBalance(d, e) = r
  <2>1. [d.token EXCEPT !.totalSupply = supply].balances = d.token.balances
    BY DEF HasAccounts
  <2> HIDE DEF supply
  <2>2. token = [d.token EXCEPT !.totalSupply = supply, !.balances = balances]
    BY <2>1
  <2>3. UpdateBalance(d, e)
           = [d EXCEPT !.token = [d.token EXCEPT !.totalSupply = supply, !.balances = balances]]
    BY <2>1 DEF UpdateBalance, IsStore, StoreFields, supply
  <2> QED
    BY <2>2, <2>3
<1> HIDE DEF supply, balances
<1>2. token = [totalSupply |-> supply, balances |-> balances,
               allowances |-> d.token.allowances]
  <2>1. [d.token EXCEPT !.totalSupply = supply]
           = [totalSupply |-> supply, balances |-> d.token.balances,
              allowances |-> d.token.allowances]
    BY DEF HasAccounts
  <2> DEFINE t == [d.token EXCEPT !.totalSupply = supply]
  <2>2. token = [t EXCEPT !.balances = balances]
    OBVIOUS
  <2>3. t = [totalSupply |-> supply, balances |-> d.token.balances,
             allowances |-> d.token.allowances]
    BY <2>1
  <2> HIDE DEF t, token
  <2> QED
    BY <2>2, <2>3
<1> HIDE DEF token
<1>3. Keeps(d, r, {"token"}, {}) /\ r.token = token
  BY DEF Keeps, IsStore, StoreFields
<1> HIDE DEF r
<1>4. {"token"} \intersect {"change", "transaction"} = {} /\ {} \intersect ChainKeys = {}
  OBVIOUS
<1>5. ChainInv(r)
  BY <1>3, <1>4, ChainKept
<1> QED
  BY <1>1, <1>2, <1>3, <1>5 DEF supply, balances

LEMMA ApprovalHandled ==
    ASSUME NEW d, NEW e, IsStore(d), ChainInv(d), HasAccounts(d)
    PROVE  LET r == UpdateAllowance(d, e)
           IN /\ Keeps(d, r, {"token"}, {})
              /\ ChainInv(r)
              /\ r.token.totalSupply = d.token.totalSupply
              /\ r.token.balances = d.token.balances
              /\ r.token = [totalSupply |-> r.token.totalSupply,
                            balances |-> r.token.balances,
                            allowances |-> r.token.allowances]
<1> DEFINE allowances == [d.token.allowances EXCEPT ![<<e.owner, e.spender>>] = e.value]
           token == [d.token EXCEPT !.allowances = allowances]
           r == [d EXCEPT !.token = token]
<1>1. UpdateAllowance(d, e) = r
  BY DEF UpdateAllowance
<1> HIDE DEF allowances
<1>2. token = [totalSupply |-> d.token.totalSupply, balances |-> d.token.balances,
               allowances |-> allowances]
  BY DEF HasAccounts
<1> HIDE DEF token
<1>3. Keeps(d, r, {"token"}, {}) /\ r.token = token
  BY DEF Keeps, IsStore, StoreFields
<1> HIDE DEF r
<1>4. {"token"} \intersect {"change", "transaction"} = {} /\ {} \intersect ChainKeys = {}
  OBVIOUS
<1>5. ChainInv(r)
  BY <1>3, <1>4, ChainKept
<1> QED
  BY <1>1, <1>2, <1>3, <1>5

-----------------------------------------------------------------------------
(* The numbers that the handlers of accounts move.                          *)

LEMMA MovesAfter ==
    ASSUME NEW d, NEW m, NEW r, NEW n, Steady(d, m), Moves(m, r, n)
    PROVE  Moves(d, r, n)
BY DEF Steady, SameNumbers, Moves

LEMMA NothingMoves ==
    ASSUME NEW d, NEW r, NEW f, HasState(d), Moves(d, r, Only(f, 0))
    PROVE  Steady(d, r)
<1>1. \A g \in TallyNames : Only(f, 0)[g] = 0 /\ d.state[g] \in Int
  BY DEF Only, HasState, IsState
<1> QED
  BY <1>1 DEF Moves, Steady, SameNumbers

LEMMA OneChangeMoves ==
    ASSUME NEW d, NEW e, NEW kind, NEW owner, NEW operation, NEW f \in TallyNames, NEW n \in Int,
           IsStore(d), ChainInv(d), HasState(d), e.tx # Null,
           NEW r, NEW s, r.state = s.state, r.global = s.global,
           LET begun == BeginChange(d, e)
           IN s = FinishChange(BumpSystemState(begun, [begun.state EXCEPT ![f] = @ + n]),
                               InitChange(begun, e, kind, owner, operation))
    PROVE  Moves(d, r, Only(f, n))
<1> DEFINE begun == BeginChange(d, e)
           next  == [begun.state EXCEPT ![f] = @ + n]
<1>1. Steady(d, begun)
  BY StateBegun
<1>2. IsState(next) /\ (Settles(s, next) => Moves(d, s, Only(f, n)))
  <2> HIDE DEF begun
  <2> QED
    BY <1>1, NumberMoved
<1>3. Settles(s, next)
  <2> HIDE DEF next
  <2> QED
    BY <1>2, OneChangeSettles DEF next
<1> QED
  BY <1>2, <1>3 DEF Moves, HasState

LEMMA DepositMoves ==
    ASSUME NEW d, NEW e, NEW operation \in {"depositTokens", "withdrawTokens"}, NEW amount \in Int,
           d.deposits[e.user].amount \in Int,
           IsStore(d), ChainInv(d), HasState(d), e.tx # Null
    PROVE  Moves(d, UpdateStabilityDepositByOperation(d, e, operation, amount),
                 Pooled(amount - d.deposits[e.user].amount))
<1> DEFINE n == amount - d.deposits[e.user].amount
           begun == BeginChange(d, e)
           s == FinishChange(BumpSystemState(begun, [begun.state EXCEPT !.tokensInStabilityPool = @ + n]),
                             InitChange(begun, e, "deposit", e.user, operation))
           deposits == [s.deposits EXCEPT ![e.user] = [@ EXCEPT !.amount = amount]]
           r == [s EXCEPT !.deposits = deposits]
<1>1. UpdateStabilityDepositByOperation(d, e, operation, amount) = r
  BY DEF UpdateStabilityDepositByOperation
<1>2. IsStore(s)
  BY OneChange DEF Keeps
<1>3. r.state = s.state /\ r.global = s.global
  <2> HIDE DEF s, deposits
  <2> QED
    BY <1>2 DEF IsStore, StoreFields
<1>4. n \in Int /\ "tokensInStabilityPool" \in TallyNames
  BY DEF TallyNames
<1> HIDE DEF n, r
<1> QED
  BY <1>1, <1>3, <1>4, OneChangeMoves DEF Pooled, n

LEMMA GainSteady ==
    ASSUME NEW d, NEW e, IsStore(d), ChainInv(d), HasState(d), e.tx # Null
    PROVE  Steady(d, WithdrawCollateralGainFromStabilityDeposit(d, e))
<1> DEFINE amount == d.deposits[e.user].amount - e.loss
           begun == BeginChange(d, e)
           s == FinishChange(BumpSystemState(begun, begun.state),
                             InitChange(begun, e, "deposit", e.user, "withdrawCollateralGain"))
           deposits == [s.deposits EXCEPT ![e.user] = [@ EXCEPT !.amount = amount]]
           r == [s EXCEPT !.deposits = deposits]
<1>1. WithdrawCollateralGainFromStabilityDeposit(d, e) \in {d, r}
  BY DEF WithdrawCollateralGainFromStabilityDeposit, UpdateStabilityDepositByOperation
<1>2. IsStore(s)
  BY OneChange DEF Keeps
<1>3. r.state = s.state /\ r.global = s.global
  <2> HIDE DEF s, deposits
  <2> QED
    BY <1>2 DEF IsStore, StoreFields
<1>4. Steady(d, begun)
  BY StateBegun
<1>5. Settles(s, begun.state)
  BY <1>4, OneChangeSettles DEF Steady, HasState
<1>6. Steady(d, d)
  BY DEF Steady, SameNumbers
<1> HIDE DEF r, s, begun
<1> QED
  BY <1>1, <1>3, <1>4, <1>5, <1>6 DEF Steady, Settles, SameNumbers, HasState

LEMMA UpdateMoves ==
    ASSUME NEW d, NEW e, NEW amount \in Int, d.deposits[e.user].amount \in Int, e.user \in Users,
           IsStore(d), ChainInv(d), HasAccounts(d), HasState(d), e.tx # Null
    PROVE  Moves(d, UpdateStabilityDeposit(d, e, amount),
                 Pooled(amount - d.deposits[e.user].amount))
<1> DEFINE old == d.deposits[e.user].amount
           tag == d.users[e.user].frontend
           deposits == [d.deposits EXCEPT ![e.user] = [@ EXCEPT !.frontend = tag]]
           tagged == [d EXCEPT !.deposits = deposits]
           op == IF amount > old THEN "depositTokens" ELSE "withdrawTokens"
<1>1. CASE amount = old
  <2>1. UpdateStabilityDeposit(d, e, amount) = d /\ amount - old = 0
    BY <1>1 DEF UpdateStabilityDeposit
  <2>2. Steady(d, d)
    BY DEF Steady, SameNumbers
  <2> QED
    BY <2>1, <2>2, SteadyMoves DEF Pooled
<1>2. CASE amount # old
  <2>1. UpdateStabilityDeposit(d, e, amount)
           = UpdateStabilityDepositByOperation(tagged, e, op, amount)
    BY <1>2 DEF UpdateStabilityDeposit
  <2>2. op \in {"depositTokens", "withdrawTokens"}
    OBVIOUS
  <2>3. deposits[e.user].amount = old
    <3>1. d.deposits[e.user] = [amount |-> old, frontend |-> d.deposits[e.user].frontend]
      BY DEF HasAccounts
    <3> HIDE DEF tag, old
    <3>2. deposits[e.user] = [d.deposits[e.user] EXCEPT !.frontend = tag]
      BY DEF HasAccounts
    <3> QED
      BY <3>1, <3>2
  <2> HIDE DEF deposits, op
  <2>4. Keeps(d, tagged, {"deposits"}, {}) /\ tagged.deposits = deposits
    BY DEF Keeps, IsStore, StoreFields
  <2> HIDE DEF tagged
  <2>5. Steady(d, tagged)
    BY <2>4, StateKept
  <2>6. ChainInv(tagged) /\ IsStore(tagged)
    <3>1. {"deposits"} \intersect {"change", "transaction"} = {} /\ {} \intersect ChainKeys = {}
      OBVIOUS
    <3> QED
      BY <2>4, <3>1, ChainKept DEF Keeps
  <2>7. Moves(tagged, UpdateStabilityDepositByOperation(tagged, e, op, amount),
              Pooled(amount - old))
    BY <2>2, <2>3, <2>4, <2>5, <2>6, DepositMoves DEF Steady
  <2> QED
    BY <2>1, <2>5, <2>7, MovesAfter
<1> QED
  BY <1>1, <1>2

LEMMA TmpSteady ==
    ASSUME NEW d, NEW value, IsStore(d), ChainInv(d), HasAccounts(d), HasState(d)
    PROVE  LET s == SwapTmpDepositUpdate(d, value)
           IN /\ IsStore(s) /\ ChainInv(s) /\ HasAccounts(s) /\ HasState(s) /\ Steady(d, s)
              /\ s.deposits = d.deposits
<1> DEFINE s == SwapTmpDepositUpdate(d, value)
<1>1. Keeps(d, s, {}, {"tmpDepositUpdate"}) /\ ChainInv(s)
  BY TmpSwapped
<1> HIDE DEF s
<1>2. Steady(d, s)
  BY <1>1, StateKept
<1>3. HasAccounts(s)
  BY <1>1, AccountsKept
<1> QED
  BY <1>1, <1>2, <1>3 DEF Keeps, StoreFields, Steady, s

LEMMA DepositChangedMoves ==
    ASSUME NEW d, NEW e, e.user \in Users, e.amount \in Int, d.deposits[e.user].amount \in Int,
           IsStore(d), ChainInv(d), HasAccounts(d), HasState(d), e.tx # Null
    PROVE  Moves(d, HandleUserDepositChanged(d, e),
                 Pooled(IF d.global.tmpDepositUpdate = Null THEN 0
                        ELSE e.amount - d.deposits[e.user].amount))
<1> DEFINE s == SwapTmpDepositUpdate(d, e.amount)
<1>1. /\ IsStore(s) /\ ChainInv(s) /\ HasAccounts(s) /\ HasState(s) /\ Steady(d, s)
      /\ s.deposits = d.deposits
  BY TmpSteady
<1>2. HandleUserDepositChanged(d, e) = IF d.global.tmpDepositUpdate = Null THEN s
                                       ELSE UpdateStabilityDeposit(s, e, e.amount)
  BY DEF HandleUserDepositChanged
<1> HIDE DEF s
<1>3. Moves(d, s, Pooled(0))
  BY <1>1, SteadyMoves DEF Pooled
<1>4. Moves(s, UpdateStabilityDeposit(s, e, e.amount), Pooled(e.amount - s.deposits[e.user].amount))
  BY <1>1, UpdateMoves
<1> QED
  BY <1>1, <1>2, <1>3, <1>4, MovesAfter

LEMMA GainMoves ==
    ASSUME NEW d, NEW e, e.user \in Users, d.deposits[e.user].amount \in Int, e.loss \in Int,
           d.global.tmpDepositUpdate \in Int,
           IsStore(d), ChainInv(d), HasAccounts(d), HasState(d), e.tx # Null
    PROVE  LET old == d.deposits[e.user].amount
               update == d.global.tmpDepositUpdate
               left == IF e.gain = 0 /\ e.loss = 0 THEN old ELSE old - e.loss
           IN Moves(d, HandleFILGainWithdrawn(d, e),
                    Pooled(IF update = Null THEN 0 ELSE update - left))
<1> DEFINE s == SwapTmpDepositUpdate(d, 0)
           w == WithdrawCollateralGainFromStabilityDeposit(s, e)
           u == e.user
           old == d.deposits[u].amount
           update == d.global.tmpDepositUpdate
           left == IF e.gain = 0 /\ e.loss = 0 THEN old ELSE old - e.loss
<1>1. /\ IsStore(s) /\ ChainInv(s) /\ HasAccounts(s) /\ HasState(s) /\ Steady(d, s)
      /\ s.deposits = d.deposits
  BY TmpSteady
<1>2. HandleFILGainWithdrawn(d, e) = IF update = Null THEN w ELSE UpdateStabilityDeposit(w, e, update)
  BY DEF HandleFILGainWithdrawn
<1> HIDE DEF s
<1>3. Steady(s, w)
  BY <1>1, GainSteady
<1>4. /\ Keeps(s, w, ChangeFields \union {"deposits"}, ChainKeys) /\ ChainInv(w)
      /\ w.deposits = IF e.gain = 0 /\ e.loss = 0 THEN s.deposits
                      ELSE WithAmount(s.deposits, u, s.deposits[u].amount - e.loss)
  BY <1>1, GainWithdrawn
<1> HIDE DEF w
<1>5. Steady(d, w) /\ HasState(w)
  BY <1>1, <1>3, SteadyTwice DEF Steady
<1>6. w.deposits = IF e.gain = 0 /\ e.loss = 0 THEN d.deposits ELSE WithAmount(d.deposits, u, left)
  BY <1>1, <1>4
<1>7. d.deposits = [v \in Users |-> [amount |-> d.deposits[v].amount,
                                     frontend |-> d.deposits[v].frontend]]
  BY DEF HasAccounts
<1>8. HasAccounts(w) /\ w.deposits[u].amount = left
  <2>1. w.users = s.users /\ w.stakes = s.stakes /\ w.token = s.token
    BY <1>4 DEF Keeps, StoreFields, ChangeFields
  <2>2. CASE e.gain = 0 /\ e.loss = 0
    BY <1>1, <1>6, <2>1, <2>2 DEF HasAccounts
  <2>3. CASE ~(e.gain = 0 /\ e.loss = 0)
    <3> DEFINE x == [amount |-> left, frontend |-> d.deposits[u].frontend]
    <3>1. w.deposits = [d.deposits EXCEPT ![u] = [d.deposits[u] EXCEPT !.amount = left]]
      BY <1>6, <2>3 DEF WithAmount
    <3>2. d.deposits[u] = [amount |-> old, frontend |-> d.deposits[u].frontend]
      BY <1>7
    <3> HIDE DEF left, old
    <3>3. [d.deposits[u] EXCEPT !.amount = left] = x
      BY <3>2
    <3>4. w.deposits = [d.deposits EXCEPT ![u] = x] /\ x.amount = left
      BY <3>1, <3>3
    <3>5. \A v \in Users : w.deposits[v] = [amount |-> w.deposits[v].amount,
                                            frontend |-> w.deposits[v].frontend]
      <4>1. \A v \in Users : w.deposits[v] = IF v = u THEN x ELSE d.deposits[v]
        BY <1>7, <3>4
      <4>2. \A v \in Users : d.deposits[v] = [amount |-> d.deposits[v].amount,
                                              frontend |-> d.deposits[v].frontend]
        BY <1>7
      <4>3. x = [amount |-> x.amount, frontend |-> x.frontend]
        OBVIOUS
      <4> HIDE DEF x
      <4> QED
        BY <4>1, <4>2, <4>3
    <3> HIDE DEF x
    <3>6. w.deposits = [v \in Users |-> w.deposits[v]] /\ w.deposits[u] = x
      BY <1>7, <3>4
    <3>7. w.deposits = [v \in Users |-> [amount |-> w.deposits[v].amount,
                                         frontend |-> w.deposits[v].frontend]]
      BY <3>5, <3>6
    <3> QED
      BY <1>1, <2>1, <3>4, <3>6, <3>7 DEF HasAccounts
  <2> QED
    BY <2>2, <2>3
<1>9. Moves(d, w, Pooled(0))
  BY <1>5, SteadyMoves DEF Pooled
<1>10. update # Null => Moves(w, UpdateStabilityDeposit(w, e, update), Pooled(update - left))
  <2>1. left \in Int /\ IsStore(w)
    BY <1>4 DEF Keeps
  <2> HIDE DEF left
  <2> QED
    BY <1>4, <1>5, <1>8, <2>1, UpdateMoves
<1> HIDE DEF left
<1> QED
  BY <1>2, <1>5, <1>9, <1>10, MovesAfter DEF left

LEMMA SurplusMoves ==
    ASSUME NEW d, NEW e, e.amount \in Int, d.users[e.user].collSurplus \in Int,
           IsStore(d), ChainInv(d), HasState(d), e.tx # Null
    PROVE  Moves(d, UpdateUserClaimColl(d, e),
                 Only("collSurplusPoolBalance", e.amount - d.users[e.user].collSurplus))
<1> DEFINE n == e.amount - d.users[e.user].collSurplus
           begun == BeginChange(d, e)
           s == FinishChange(BumpSystemState(begun, [begun.state EXCEPT !.collSurplusPoolBalance = @ + n]),
                             InitChange(begun, e, "surplus", e.user, "none"))
           users == [s.users EXCEPT ![e.user] = [@ EXCEPT !.collSurplus = e.amount]]
           r == [s EXCEPT !.users = users]
<1>1. UpdateUserClaimColl(d, e) = IF e.amount = d.users[e.user].collSurplus THEN d ELSE r
  BY DEF UpdateUserClaimColl
<1>2. IsStore(s)
  BY OneChange DEF Keeps
<1>3. r.state = s.state /\ r.global = s.global
  <2> HIDE DEF s, users
  <2> QED
    BY <1>2 DEF IsStore, StoreFields
<1>4. n \in Int /\ (e.amount = d.users[e.user].collSurplus => n = 0)
  OBVIOUS
<1>5. Moves(d, d, Only("collSurplusPoolBalance", 0))
  BY SteadyMoves DEF Steady, SameNumbers
<1>6. Moves(d, r, Only("collSurplusPoolBalance", n))
  <2>1. "collSurplusPoolBalance" \in TallyNames
    BY DEF TallyNames
  <2> HIDE DEF n, r
  <2> QED
    BY <1>3, <1>4, <2>1, OneChangeMoves DEF n
<1> HIDE DEF n, r
<1> QED
  BY <1>1, <1>4, <1>5, <1>6 DEF n

LEMMA StakeChangeMoves ==
    ASSUME NEW d, NEW e, NEW operation, NEW amount \in Int, d.stakes[e.user].amount \in Int,
           IsStore(d), ChainInv(d), HasState(d), e.tx # Null
    PROVE  Moves(d, StakeChange(d, e, operation, amount),
                 Staked(amount - d.stakes[e.user].amount))
<1> DEFINE n == amount - d.stakes[e.user].amount
           begun == BeginChange(d, e)
           s == FinishChange(BumpSystemState(begun, [begun.state EXCEPT !.totalProtocolTokensStaked = @ + n]),
                             InitChange(begun, e, "stake", e.user, operation))
           stakes == [s.stakes EXCEPT ![e.user] = [amount |-> amount, exists |-> TRUE]]
           r == [s EXCEPT !.stakes = stakes]
<1>1. StakeChange(d, e, operation, amount) = r
  BY DEF StakeChange
<1>2. IsStore(s)
  BY OneChange DEF Keeps
<1>3. r.state = s.state /\ r.global = s.global
  <2> HIDE DEF s, stakes
  <2> QED
    BY <1>2 DEF IsStore, StoreFields
<1>4. n \in Int /\ "totalProtocolTokensStaked" \in TallyNames
  BY DEF TallyNames
<1> HIDE DEF n, r
<1> QED
  BY <1>1, <1>3, <1>4, OneChangeMoves DEF Staked, n

LEMMA StakeMoves ==
    ASSUME NEW d, NEW e, e.amount \in Int, d.stakes[e.user].amount \in Int,
           d.stakes[e.user].exists \in BOOLEAN, \A k \in StakeCounters : d.global[k] \in Int,
           IsStore(d), ChainInv(d), HasState(d), e.tx # Null
    PROVE  Moves(d, UpdateStake(d, e), Staked(e.amount - d.stakes[e.user].amount))
<1> DEFINE operation == GetOperationType(d.stakes[e.user].amount, e.amount)
           c == CountStake(d, e.user, operation)
<1>1. UpdateStake(d, e) = StakeChange(c, e, operation, e.amount)
  BY DEF UpdateStake
<1> HIDE DEF operation
<1>2. Keeps(d, c, {}, StakeCounters)
  BY StakeCounted DEF operation
<1> HIDE DEF c
<1>3. StakeCounters \intersect ChainKeys = {} /\ "currentSystemState" \notin StakeCounters
  BY DEF StakeCounters, ChainKeys
<1>4. Steady(d, c)
  BY <1>2, <1>3, StateKept
<1>5. ChainInv(c) /\ IsStore(c) /\ c.stakes = d.stakes
  <2>1. ChainInv(c)
    BY <1>2, <1>3, ChainKept
  <2> QED
    BY <1>2, <2>1 DEF Keeps, StoreFields
<1>6. Moves(c, StakeChange(c, e, operation, e.amount), Staked(e.amount - d.stakes[e.user].amount))
  BY <1>4, <1>5, StakeChangeMoves DEF Steady
<1> QED
  BY <1>1, <1>4, <1>6, MovesAfter

LEMMA StakeGainsMove ==
    ASSUME NEW d, NEW e, d.stakes[e.user].amount \in Int,
           IsStore(d), ChainInv(d), HasState(d), e.tx # Null
    PROVE  Moves(d, WithdrawStakeGains(d, e), Staked(0))
<1> DEFINE amount == d.stakes[e.user].amount
           r == StakeChange(d, e, "gainsWithdrawn", amount)
<1>1. WithdrawStakeGains(d, e) = IF e.gain = 0 THEN d ELSE r
  BY DEF WithdrawStakeGains
<1>2. Moves(d, r, Staked(amount - amount)) /\ amount - amount = 0
  BY StakeChangeMoves
<1>3. Moves(d, d, Staked(0))
  BY SteadyMoves DEF Steady, SameNumbers, Staked
<1> HIDE DEF r, amount
<1> QED
  BY <1>1, <1>2, <1>3

-----------------------------------------------------------------------------
(* Sums over a finite set.  FoldFunctionOnSet() takes one element after the *)
(* other off the set; that there is a function that does so, on all of its  *)
(* subsets, is what gives the sum a value.                                  *)

LEMMA LeastNumber ==
    ASSUME NEW T, T \subseteq Nat, T # {}
    PROVE  \E m \in T : \A k \in T : ~(k < m)
<1>1. PICK m \in T : \A k \in T : <<k, m>> \notin OpToRel(<, Nat)
  BY NatLessThanWellFounded, WFMin
<1>2. ASSUME NEW k \in T, k < m PROVE FALSE
  <2>1. <<k, m>> \in OpToRel(<, Nat)
    BY <1>2 DEF OpToRel
  <2> QED
    BY <1>1, <2>1
<1> QED
  BY <1>2

LEMMA OneTaken ==
    ASSUME NEW S, IsFiniteSet(S), NEW s \in SUBSET S, s # {}
    PROVE  /\ Pick(s) \in s
           /\ s \ {Pick(s)} \in SUBSET S
           /\ Cardinality(s) \in Nat /\ Cardinality(s) > 0
           /\ Cardinality(s \ {Pick(s)}) = Cardinality(s) - 1
<1>1. Pick(s) \in s
  BY DEF Pick
<1>2. IsFiniteSet(s) /\ Cardinality(s) \in Nat
  BY FS_Subset, FS_CardinalityType
<1> QED
  BY <1>1, <1>2, FS_RemoveElement, FS_EmptySet

LEMMA SumExists ==
    ASSUME NEW S, IsFiniteSet(S), NEW f
    PROVE  \E g : Sums(g, f, SUBSET S)
<1> DEFINE Bad == {n \in Nat : ~\E g : Sums(g, f, AtMost(S, n))}
<1>1. Bad = {}
  <2> SUFFICES ASSUME Bad # {} PROVE FALSE
    OBVIOUS
  <2>1. PICK n \in Bad : \A k \in Bad : ~(k < n)
    BY LeastNumber
  <2>2. n \in Nat /\ ~\E g : Sums(g, f, AtMost(S, n))
    OBVIOUS
  <2>3. CASE n = 0
    <3> DEFINE g == [s \in AtMost(S, 0) |-> 0]
    <3>1. \A s \in AtMost(S, 0) : s = {}
      BY FS_Subset, FS_CardinalityType, FS_EmptySet DEF AtMost
    <3>2. Sums(g, f, AtMost(S, 0))
      BY <3>1 DEF Sums, Summed
    <3> QED
      BY <2>2, <2>3, <3>2
  <2>4. CASE n # 0
    <3>1. n - 1 \in Nat /\ n - 1 \notin Bad
      BY <2>1, <2>2, <2>4
    <3>2. PICK h : Sums(h, f, AtMost(S, n - 1))
      BY <3>1
    <3> DEFINE g == [s \in AtMost(S, n) |-> Summed(h, f, s)]
    <3>3. ASSUME NEW s \in AtMost(S, n), s # {}
          PROVE  /\ s \ {Pick(s)} \in AtMost(S, n - 1)
                 /\ s \ {Pick(s)} \in AtMost(S, n)
      BY <2>2, <3>3, OneTaken DEF AtMost
    <3>4. ASSUME NEW s \in AtMost(S, n - 1) PROVE g[s] = h[s]
      <4>1. s \in AtMost(S, n)
        <5>1. IsFiniteSet(s) /\ Cardinality(s) \in Nat
          BY FS_Subset, FS_CardinalityType DEF AtMost
        <5> QED
          BY <2>2, <5>1 DEF AtMost
      <4> QED
        BY <3>2, <4>1 DEF Sums
    <3>5. ASSUME NEW s \in AtMost(S, n) PROVE Summed(h, f, s) = Summed(g, f, s)
      <4> HIDE DEF g
      <4> QED
        BY <3>3, <3>4 DEF Summed
    <3>6. Sums(g, f, AtMost(S, n))
      BY <3>5 DEF Sums
    <3> QED
      BY <2>2, <3>6
  <2> QED
    BY <2>3, <2>4
<1>2. Cardinality(S) \in Nat
  BY FS_CardinalityType
<1>3. AtMost(S, Cardinality(S)) = SUBSET S
  BY FS_Subset DEF AtMost
<1>4. \E g : Sums(g, f, AtMost(S, Cardinality(S)))
  BY <1>1, <1>2
<1> QED
  BY <1>3, <1>4

LEMMA TotalUnfolds ==
    ASSUME NEW S, IsFiniteSet(S), NEW f
    PROVE  /\ Total(f, S) = SumsOn(f, S)[S]
           /\ Sums(SumsOn(f, S), f, SUBSET S)
<1>1. Sums(SumsOn(f, S), f, SUBSET S)
  BY SumExists DEF SumsOn
<1>2. Total(f, S) = SumsOn(f, S)[S]
  BY DEF Total, FoldFunctionOnSet, MapThenFoldSet, SumsOn, Sums, Summed, Pick
<1> QED
  BY <1>1, <1>2

\* Any solution of the recursion has integers as values when the terms are.
LEMMA SumsAreNumbers ==
    ASSUME NEW S, IsFiniteSet(S), NEW f, NEW N \in {Int, Nat, {0}}, \A x \in S : f[x] \in N,
           NEW g, Sums(g, f, SUBSET S)
    PROVE  \A s \in SUBSET S : g[s] \in N
<1> DEFINE Bad == {n \in Nat : \E s \in SUBSET S : Cardinality(s) = n /\ g[s] \notin N}
<1>1. ASSUME NEW s \in SUBSET S, g[s] \notin N PROVE FALSE
  <2>1. Cardinality(s) \in Nat
    BY FS_Subset, FS_CardinalityType
  <2>2. Bad # {}
    BY <1>1, <2>1
  <2>3. PICK n \in Bad : \A k \in Bad : ~(k < n)
    BY <2>2, LeastNumber
  <2>4. PICK t \in SUBSET S : Cardinality(t) = n /\ g[t] \notin N
    OBVIOUS
  <2>5. g[t] = Summed(g, f, t)
    BY DEF Sums
  <2>6. t # {}
    BY <2>4, <2>5 DEF Summed
  <2>7. /\ Pick(t) \in S /\ t \ {Pick(t)} \in SUBSET S
        /\ Cardinality(t \ {Pick(t)}) = n - 1 /\ n - 1 \in Nat
    <3>1. /\ Pick(t) \in t
          /\ t \ {Pick(t)} \in SUBSET S
          /\ Cardinality(t) \in Nat /\ Cardinality(t) > 0
          /\ Cardinality(t \ {Pick(t)}) = Cardinality(t) - 1
      BY <2>6, OneTaken
    <3>2. n \in Nat /\ n > 0
      BY <2>4, <3>1
    <3> QED
      BY <2>4, <3>1, <3>2
  <2>8. g[t \ {Pick(t)}] \in N
    BY <2>3, <2>7
  <2>9. f[Pick(t)] + g[t \ {Pick(t)}] \in N
    BY <2>7, <2>8
  <2> QED
    BY <2>4, <2>5, <2>6, <2>9 DEF Summed
<1> QED
  BY <1>1

\* A term that changes changes the sum by as much.
LEMMA TotalMoves ==
    ASSUME NEW S, IsFiniteSet(S), NEW f, NEW h, NEW u \in S,
           \A x \in S : f[x] \in Int, h[u] \in Int, \A x \in S \ {u} : h[x] = f[x]
    PROVE  Total(h, S) = Total(f, S) + (h[u] - f[u])
<1> DEFINE g == SumsOn(f, S)
           k == SumsOn(h, S)
           More(s) == IF u \in s THEN h[u] - f[u] ELSE 0
           Bad == {n \in Nat : \E s \in SUBSET S : Cardinality(s) = n /\ k[s] # g[s] + More(s)}
<1>1. Sums(g, f, SUBSET S) /\ Sums(k, h, SUBSET S)
  BY TotalUnfolds
<1>2. Total(f, S) = g[S] /\ Total(h, S) = k[S]
  BY TotalUnfolds
<1> HIDE DEF g, k
<1>3. \A s \in SUBSET S : g[s] \in Int
  BY <1>1, SumsAreNumbers
<1>4. ASSUME NEW s \in SUBSET S, k[s] # g[s] + More(s) PROVE FALSE
  <2>1. Cardinality(s) \in Nat
    BY FS_Subset, FS_CardinalityType
  <2>2. Bad # {}
    BY <1>4, <2>1
  <2>3. PICK n \in Bad : \A j \in Bad : ~(j < n)
    BY <2>2, LeastNumber
  <2>4. PICK t \in SUBSET S : Cardinality(t) = n /\ k[t] # g[t] + More(t)
    OBVIOUS
  <2>5. g[t] = Summed(g, f, t) /\ k[t] = Summed(k, h, t)
    BY <1>1 DEF Sums
  <2>6. t # {}
    BY <2>4, <2>5 DEF Summed
  <2> DEFINE x == Pick(t)
             r == t \ {x}
  <2>7. /\ x \in t /\ x \in S /\ r \in SUBSET S
        /\ Cardinality(r) = n - 1 /\ n - 1 \in Nat /\ n - 1 < n
    <3>1. /\ Pick(t) \in t
          /\ t \ {Pick(t)} \in SUBSET S
          /\ Cardinality(t) \in Nat /\ Cardinality(t) > 0
          /\ Cardinality(t \ {Pick(t)}) = Cardinality(t) - 1
      BY <2>6, OneTaken
    <3>2. n \in Nat /\ n > 0
      BY <2>4, <3>1
    <3> QED
      BY <2>4, <3>1, <3>2
  <2>8. g[t] = f[x] + g[r] /\ k[t] = h[x] + k[r]
    BY <2>5, <2>6 DEF Summed
  <2>9. k[r] = g[r] + More(r)
    <3>1. n - 1 \notin Bad
      BY <2>3, <2>7
    <3> QED
      BY <2>7, <3>1
  <2>10. g[r] \in Int /\ f[x] \in Int /\ f[u] \in Int
    BY <1>3, <2>7
  <2>11. CASE x = u
    <3>1. More(r) = 0 /\ More(t) = h[u] - f[u]
      BY <2>7, <2>11
    <3> HIDE DEF More, r
    <3> QED
      BY <2>4, <2>8, <2>9, <2>10, <2>11, <3>1
  <2>12. CASE x # u
    <3>1. More(r) = More(t) /\ More(r) \in Int
      BY <2>10, <2>12
    <3>2. h[x] = f[x]
      BY <2>7, <2>12
    <3> HIDE DEF More, r, x
    <3> QED
      BY <2>4, <2>8, <2>9, <2>10, <3>1, <3>2
  <2> QED
    BY <2>11, <2>12
<1>5. k[S] = g[S] + More(S)
  BY <1>4
<1> QED
  BY <1>2, <1>5

LEMMA TotalIsANumber ==
    ASSUME NEW S, IsFiniteSet(S), NEW f, NEW N \in {Int, Nat, {0}}, \A x \in S : f[x] \in N
    PROVE  Total(f, S) \in N
<1> DEFINE g == SumsOn(f, S)
<1>1. Total(f, S) = g[S] /\ Sums(g, f, SUBSET S)
  BY TotalUnfolds
<1> HIDE DEF g
<1>2. \A s \in SUBSET S : g[s] \in N
  BY <1>1, SumsAreNumbers
<1> QED
  BY <1>1, <1>2

\* A sum over a part of S is the recursion's value there.
LEMMA TotalWithin ==
    ASSUME NEW S, IsFiniteSet(S), NEW f, NEW s \in SUBSET S
    PROVE  Total(f, s) = SumsOn(f, S)[s]
<1> DEFINE g == SumsOn(f, s)
           k == SumsOn(f, S)
           Bad == {n \in Nat : \E t \in SUBSET s : Cardinality(t) = n /\ g[t] # k[t]}
<1>1. IsFiniteSet(s)
  BY FS_Subset
<1>2. /\ Total(f, s) = g[s]
      /\ Sums(g, f, SUBSET s) /\ Sums(k, f, SUBSET S)
  BY <1>1, TotalUnfolds
<1> HIDE DEF g, k
<1>3. ASSUME g[s] # k[s] PROVE FALSE
  <2>1. Cardinality(s) \in Nat
    BY <1>1, FS_CardinalityType
  <2>2. PICK n \in Bad : \A j \in Bad : ~(j < n)
    BY <1>3, <2>1, LeastNumber
  <2>3. PICK t \in SUBSET s : Cardinality(t) = n /\ g[t] # k[t]
    OBVIOUS
  <2>4. g[t] = Summed(g, f, t) /\ k[t] = Summed(k, f, t)
    BY <1>2, <2>3 DEF Sums
  <2>5. t # {}
    BY <2>3, <2>4 DEF Summed
  <2>6. /\ t \ {Pick(t)} \in SUBSET s
        /\ Cardinality(t) \in Nat /\ Cardinality(t) > 0
        /\ Cardinality(t \ {Pick(t)}) = Cardinality(t) - 1
    BY <1>1, <2>5, OneTaken
  <2>7. n - 1 \in Nat /\ n - 1 < n /\ n - 1 \notin Bad
    BY <2>2, <2>3, <2>6
  <2>8. g[t \ {Pick(t)}] = k[t \ {Pick(t)}]
    BY <2>3, <2>6, <2>7
  <2> QED
    BY <2>3, <2>4, <2>5, <2>8 DEF Summed
<1> QED
  BY <1>2, <1>3 DEF k

LEMMA TotalTaken ==
    ASSUME NEW S, IsFiniteSet(S), NEW f, \A x \in S : f[x] \in Int, NEW x \in S
    PROVE  Total(f, S) = f[x] + Total(f, S \ {x})
<1> DEFINE g == SumsOn(f, S)
           Splits(t, y) == g[t] = f[y] + g[t \ {y}]
           Bad == {n \in Nat : \E t \in SUBSET S, y \in S :
                                  y \in t /\ Cardinality(t) = n /\ ~Splits(t, y)}
<1>1. Total(f, S) = g[S] /\ Total(f, S \ {x}) = g[S \ {x}] /\ Sums(g, f, SUBSET S)
  BY TotalUnfolds, TotalWithin
<1> HIDE DEF g
<1>2. \A t \in SUBSET S : g[t] \in Int
  BY <1>1, SumsAreNumbers
<1>3. ASSUME ~Splits(S, x) PROVE FALSE
  <2>1. Cardinality(S) \in Nat
    BY FS_CardinalityType
  <2>2. Bad # {}
    BY <1>3, <2>1
  <2>3. PICK n \in Bad : \A j \in Bad : ~(j < n)
    BY <2>2, LeastNumber
  <2>4. PICK t \in SUBSET S, y \in S : y \in t /\ Cardinality(t) = n /\ ~Splits(t, y)
    OBVIOUS
  <2> DEFINE z == Pick(t)
             r == t \ {z}
             s == t \ {y}
  <2>5. /\ z \in t /\ r \in SUBSET S
        /\ Cardinality(t) \in Nat /\ Cardinality(t) > 0
        /\ Cardinality(r) = Cardinality(t) - 1
    BY <2>4, OneTaken
  <2>6. g[t] = f[z] + g[r]
    BY <1>1, <2>4 DEF Sums, Summed
  <2>7. z # y
    BY <2>4, <2>6
  <2>8. Cardinality(s) = n - 1
    BY <2>4, <2>5, FS_Subset, FS_RemoveElement
  <2>9. n - 1 \in Nat /\ n - 1 \notin Bad
    <3>1. n - 1 \in Nat /\ n - 1 < n
      BY <2>4, <2>5
    <3> HIDE DEF Bad
    <3> QED
      BY <2>3, <3>1
  <2>10. Splits(r, y) /\ Splits(s, z)
    <3>1. y \in r /\ z \in s /\ s \in SUBSET S /\ z \in S
      BY <2>4, <2>5, <2>7
    <3> HIDE DEF r, s, z, Splits
    <3> QED
      BY <2>4, <2>5, <2>8, <2>9, <3>1
  <2>11. r \ {y} = s \ {z} /\ s \in SUBSET S /\ s \ {z} \in SUBSET S
    OBVIOUS
  <2>12. f[z] \in Int /\ f[y] \in Int /\ g[r] \in Int /\ g[s] \in Int /\ g[s \ {z}] \in Int
    BY <1>2, <2>4, <2>5, <2>11
  <2>13. g[t] # f[y] + g[s]
    BY <2>4
  <2>14. g[r] = f[y] + g[r \ {y}] /\ g[s] = f[z] + g[s \ {z}]
    BY <2>10
  <2>15. PICK rest \in Int : rest = g[r \ {y}] /\ rest = g[s \ {z}]
    BY <2>11, <2>12
  <2> HIDE DEF r, s, z
  <2>16. g[t] = f[z] + (f[y] + rest) /\ g[s] = f[z] + rest
    BY <2>6, <2>14, <2>15
  <2> QED
    BY <2>12, <2>13, <2>15, <2>16
<1> QED
  BY <1>1, <1>3

LEMMA TotalOfNone == ASSUME NEW f PROVE Total(f, {}) = 0
<1>1. SumsOn(f, {})[{}] = Summed(SumsOn(f, {}), f, {})
  BY FS_EmptySet, TotalUnfolds DEF Sums
<1> QED
  BY <1>1, FS_EmptySet, TotalUnfolds DEF Summed

\* A sum of sums, and of multiples.
LEMMA TotalAdds ==
    ASSUME NEW S, IsFiniteSet(S), NEW f, NEW w, NEW h, NEW k \in Int,
           \A x \in S : f[x] \in Int /\ w[x] \in Int /\ h[x] = f[x] + k * w[x]
    PROVE  Total(h, S) = Total(f, S) + k * Total(w, S)
<1> DEFINE Linear(t) == Total(h, t) = Total(f, t) + k * Total(w, t)
           Bad == {n \in Nat : \E t \in SUBSET S : Cardinality(t) = n /\ ~Linear(t)}
<1>1. ASSUME ~Linear(S) PROVE FALSE
  <2>1. Cardinality(S) \in Nat
    BY FS_CardinalityType
  <2>2. Bad # {}
    BY <1>1, <2>1
  <2>3. PICK n \in Bad : \A j \in Bad : ~(j < n)
    BY <2>2, LeastNumber
  <2>4. PICK t \in SUBSET S : Cardinality(t) = n /\ ~Linear(t)
    OBVIOUS
  <2>5. t # {}
    <3>1. 0 = 0 + k * 0
      OBVIOUS
    <3> QED
      BY <2>4, <3>1, TotalOfNone
  <2> DEFINE x == Pick(t)
             r == t \ {x}
  <2>6. /\ x \in t /\ r \in SUBSET S
        /\ Cardinality(t) \in Nat /\ Cardinality(t) > 0
        /\ Cardinality(r) = Cardinality(t) - 1
    BY <2>5, OneTaken
  <2>7. IsFiniteSet(t) /\ IsFiniteSet(r)
    BY <2>6, FS_Subset
  <2>8. x \in S
    BY <2>6
  <2>9. \A y \in t : f[y] \in Int /\ w[y] \in Int /\ h[y] \in Int
    OBVIOUS
  <2>10. \A y \in r : f[y] \in Int /\ w[y] \in Int /\ h[y] \in Int
    BY <2>9
  <2> HIDE DEF x, Linear
  <2>11. /\ Total(f, t) = f[x] + Total(f, r)
         /\ Total(w, t) = w[x] + Total(w, r)
         /\ Total(h, t) = h[x] + Total(h, r)
    BY <2>6, <2>7, <2>9, TotalTaken
  <2>12. n - 1 \in Nat /\ n - 1 < n /\ n - 1 \notin Bad
    BY <2>3, <2>4, <2>6
  <2>13. Linear(r)
    BY <2>4, <2>6, <2>12
  <2> HIDE DEF r
  <2>14. Total(f, r) \in Int /\ Total(w, r) \in Int /\ Total(h, r) \in Int
    BY <2>7, <2>10, TotalIsANumber
  <2> DEFINE F == Total(f, r)
             W == Total(w, r)
  <2>15. Total(h, r) = F + k * W
    BY <2>13 DEF Linear
  <2>16. f[x] \in Int /\ w[x] \in Int /\ h[x] = f[x] + k * w[x]
    BY <2>8
  <2>17. k * (w[x] + W) = k * w[x] + k * W
    <3>1. \A p, q \in Int : k * (p + q) = k * p + k * q
      OBVIOUS
    <3> HIDE DEF W
    <3> QED
      BY <2>14, <2>16, <3>1 DEF W
  <2>18. k * w[x] \in Int /\ k * W \in Int /\ F \in Int
    BY <2>14, <2>16
  <2> HIDE DEF F, W
  <2>19. Total(h, t) = (f[x] + F) + (k * w[x] + k * W)
    BY <2>11, <2>15, <2>16, <2>18
  <2>20. Linear(t)
    BY <2>11, <2>17, <2>19 DEF Linear, F, W
  <2> QED
    BY <2>4, <2>20
<1> QED
  BY <1>1

\* Terms of zero may be left out.
LEMMA TotalWithoutZeros ==
    ASSUME NEW S, IsFiniteSet(S), NEW f, \A x \in S : f[x] \in Int,
           NEW A \in SUBSET S, \A x \in S \ A : f[x] = 0
    PROVE  Total(f, S) = Total(f, A)
<1> DEFINE Same(t) == Total(f, t) = Total(f, t \intersect A)
           Bad == {n \in Nat : \E t \in SUBSET S : Cardinality(t) = n /\ ~Same(t)}
<1>1. ASSUME ~Same(S) PROVE FALSE
  <2>1. Cardinality(S) \in Nat
    BY FS_CardinalityType
  <2>2. Bad # {}
    BY <1>1, <2>1
  <2>3. PICK n \in Bad : \A j \in Bad : ~(j < n)
    BY <2>2, LeastNumber
  <2>4. PICK t \in SUBSET S : Cardinality(t) = n /\ ~Same(t)
    OBVIOUS
  <2>5. t # {}
    BY <2>4
  <2> DEFINE x == Pick(t)
             r == t \ {x}
  <2>6. /\ x \in t /\ r \in SUBSET S
        /\ Cardinality(t) \in Nat /\ Cardinality(t) > 0
        /\ Cardinality(r) = Cardinality(t) - 1
    BY <2>5, OneTaken
  <2> HIDE DEF x
  <2>7. n - 1 \in Nat /\ n - 1 < n /\ n - 1 \notin Bad
    BY <2>3, <2>4, <2>6
  <2>8. Same(r)
    <3> HIDE DEF Same, r
    <3> QED
      BY <2>4, <2>6, <2>7
  <2>9. Total(f, t) = f[x] + Total(f, r) /\ Total(f, r) \in Int /\ f[x] \in Int
    <3>1. IsFiniteSet(t) /\ IsFiniteSet(r)
      BY <2>6, FS_Subset
    <3>2. \A y \in t : f[y] \in Int
      OBVIOUS
    <3> QED
      BY <2>6, <3>1, <3>2, TotalTaken, TotalIsANumber
  <2>10. CASE x \in A
    <3>1. /\ x \in t \intersect A
          /\ (t \intersect A) \ {x} = r \intersect A
          /\ IsFiniteSet(t \intersect A)
      BY <2>6, <2>10, FS_Subset
    <3>2. Total(f, t \intersect A) = f[x] + Total(f, r \intersect A)
      <4>1. Total(f, t \intersect A) = f[x] + Total(f, (t \intersect A) \ {x})
        BY <3>1, TotalTaken
      <4> QED
        BY <3>1, <4>1
    <3> QED
      BY <2>4, <2>8, <2>9, <3>2
  <2>11. CASE x \notin A
    <3>1. t \intersect A = r \intersect A /\ f[x] = 0
      BY <2>6, <2>11
    <3>2. Total(f, t) = Total(f, r)
      BY <2>9, <3>1
    <3>3. Total(f, r) = Total(f, r \intersect A)
      BY <2>8
    <3>4. Same(t)
      BY <3>1, <3>2, <3>3, Zenon
    <3> QED
      BY <2>4, <3>4
  <2> QED
    BY <2>10, <2>11
<1>2. S \intersect A = A
  OBVIOUS
<1> QED
  BY <1>1, <1>2

-----------------------------------------------------------------------------
(* The totals: each is the sum of what the users have a part in.  While a   *)
(* liquidation goes through its troves, what it will redistribute, owed to  *)
(* nobody yet, is in the totals as well.                                    *)

\* Nothing moves.
LEMMA SameParts ==
    ASSUME NEW b, NEW c, c.troves = b.troves, c.lColl = b.lColl, c.lDebt = b.lDebt,
           c.deposits = b.deposits, c.losses = b.losses, c.surplus = b.surplus,
           c.staked = b.staked
    PROVE  Parts(c) = Parts(b)
BY DEF Parts, Entire, Compounded

LEMMA TallyStays ==
    ASSUME NEW d, NEW b, NEW x, NEW y, Tallied(d, b, x, y), NEW r, HasState(r),
           \A f \in TallyNames : r.state[f] = d.state[f],
           \A u \in Users : r.users[u].collSurplus = d.users[u].collSurplus,
           NEW c, Parts(c) = Parts(b), c.surplus = b.surplus
    PROVE  Tallied(r, c, x, y)
BY DEF Tallied

LEMMA TallyKept ==
    ASSUME NEW d, NEW b, NEW x, NEW y, Tallied(d, b, x, y),
           NEW r, NEW F, NEW K, Keeps(d, r, F, K),
           {"state", "users"} \intersect F = {}, "currentSystemState" \notin K
    PROVE  Tallied(r, b, x, y)
<1>1. Steady(d, r)
  BY StateKept DEF Tallied
<1>2. r.users = d.users
  BY DEF Keeps, StoreFields
<1> QED
  BY <1>1, <1>2, TallyStays DEF Steady, SameNumbers

\* The parts of one user move, and the totals with them.
LEMMA TallyMoves ==
    ASSUME NEW d, NEW b, NEW x \in Int, NEW y \in Int, Tallied(d, b, x, y),
           NEW r, NEW n, Moves(d, r, n), NEW c, c.surplus \in [Users -> Int],
           \A v \in Users : r.users[v].collSurplus = c.surplus[v], NEW u \in Users,
           \A f \in TallyNames, v \in Users :
              Parts(c)[f][v] = Parts(b)[f][v] + (IF v = u THEN n[f] ELSE 0)
    PROVE  Tallied(r, c, x, y)
<1>1. ASSUME NEW f \in TallyNames
      PROVE  /\ \A v \in Users : Parts(c)[f][v] \in Int
             /\ r.state[f] = Total(Parts(c)[f], Users) + Moved(x, y)[f]
  <2> DEFINE g == Parts(b)[f]
             h == Parts(c)[f]
  <2>1. /\ \A v \in Users : g[v] \in Int
        /\ d.state[f] = Total(g, Users) + Moved(x, y)[f]
    BY DEF Tallied
  <2>2. n[f] \in Int /\ r.state[f] = d.state[f] + n[f]
    BY DEF Moves
  <2>3. \A v \in Users : h[v] = g[v] + (IF v = u THEN n[f] ELSE 0)
    OBVIOUS
  <2>4. Moved(x, y)[f] \in Int
    BY DEF Moved
  <2> HIDE DEF g, h
  <2>5. \A v \in Users : h[v] \in Int /\ (v # u => h[v] = g[v])
    BY <2>1, <2>2, <2>3
  <2>6. Total(h, Users) = Total(g, Users) + (h[u] - g[u])
    BY <2>1, <2>5, TotalMoves, SubgraphAssumption
  <2>7. Total(g, Users) \in Int /\ g[u] \in Int /\ h[u] = g[u] + n[f]
    BY <2>1, <2>3, TotalIsANumber, SubgraphAssumption
  <2> QED
    BY <2>1, <2>2, <2>4, <2>5, <2>6, <2>7 DEF h
<1> QED
  BY <1>1 DEF Tallied, Moves

LEMMA OnePartMoves ==
    ASSUME NEW d, NEW b, Tallied(d, b, 0, 0), NEW f \in TallyNames, NEW k \in Int,
           NEW r, Moves(d, r, Only(f, k)), NEW c, c.surplus \in [Users -> Int],
           \A v \in Users : r.users[v].collSurplus = c.surplus[v], NEW u \in Users,
           \A g \in TallyNames \ {f} : Parts(c)[g] = Parts(b)[g],
           \A v \in Users : Parts(c)[f][v] = Parts(b)[f][v] + (IF v = u THEN k ELSE 0)
    PROVE  Tallied(r, c, 0, 0)
<1> DEFINE n == Only(f, k)
<1>1. \A g \in TallyNames : n[g] = IF g = f THEN k ELSE 0
  BY DEF Only
<1>2. \A g \in TallyNames, v \in Users : Parts(b)[g][v] \in Int
  BY DEF Tallied
<1>3. \A g \in TallyNames, v \in Users :
         Parts(c)[g][v] = Parts(b)[g][v] + (IF v = u THEN n[g] ELSE 0)
  <2> HIDE DEF n
  <2> QED
    BY <1>1, <1>2
<1> QED
  BY <1>3, TallyMoves

-----------------------------------------------------------------------------
(* Queues of events, and the stores on the way from one to another.         *)

LEMMA NoEvents ==
    ASSUME NEW s, s = <<>>
    PROVE  Len(s) = 0 /\ IsSeq(s)
<1>1. s \in Seq({})
  OBVIOUS
<1>2. IsSeq(s)
  BY <1>1 DEF IsSeq
<1>3. Len(s) = 0
  OBVIOUS
<1> QED
  BY <1>2, <1>3, Zenon

LEMMA OneSeq ==
    ASSUME NEW e
    PROVE  /\ IsSeq(<<e>>) /\ Len(<<e>>) = 1 /\ <<e>>[1] = e /\ <<e>> # <<>>
<1>1. <<e>> \in Seq({e})
  OBVIOUS
<1> QED
  BY <1>1 DEF IsSeq

LEMMA ConcatSeq ==
    ASSUME NEW s, NEW t, IsSeq(s), IsSeq(t)
    PROVE  /\ IsSeq(s \o t)
           /\ {Len(s), Len(t)} \subseteq Nat
           /\ Len(s \o t) = Len(s) + Len(t)
           /\ \A i \in 1 .. Len(s) : (s \o t)[i] = s[i]
           /\ \A i \in 1 .. Len(t) : (s \o t)[Len(s) + i] = t[i]
<1>1. PICK S : s \in Seq(S)
  BY DEF IsSeq
<1>2. PICK T : t \in Seq(T)
  BY DEF IsSeq
<1>3. s \in Seq(S \union T) /\ t \in Seq(S \union T)
  BY <1>1, <1>2
<1>4. s \o t \in Seq(S \union T)
  BY <1>3
<1> QED
  BY <1>3, <1>4 DEF IsSeq

LEMMA TailSeq ==
    ASSUME NEW s, IsSeq(s), s # <<>>
    PROVE  /\ IsSeq(Tail(s))
           /\ Len(s) \in Nat \ {0}
           /\ Len(Tail(s)) = Len(s) - 1
           /\ Head(s) = s[1]
           /\ \A i \in 1 .. Len(Tail(s)) : Tail(s)[i] = s[i + 1]
<1>1. PICK S : s \in Seq(S)
  BY DEF IsSeq
<1>2. Tail(s) \in Seq(S)
  BY <1>1
<1> QED
  BY <1>1, <1>2 DEF IsSeq

LEMMA NothingReplayed == ASSUME NEW d PROVE Replays(d, <<>>, d)
<1> DEFINE trail == [i \in {0} |-> d]
           s == <<>>
<1>1. trail[0] = d
  OBVIOUS
<1>2. Len(s) = 0 /\ IsSeq(s)
  BY NoEvents, Zenon DEF s
<1> HIDE DEF trail, s
<1>3. \A i \in 1 .. Len(s) : /\ Fits(trail[i - 1], s[i])
                             /\ trail[i] = Handle(trail[i - 1], s[i])
  BY <1>2
<1>4. Replays(d, s, d)
  BY <1>1, <1>2, <1>3 DEF Replays
<1> QED
  BY <1>4 DEF s

LEMMA NothingLeft == ASSUME NEW d, NEW s, NEW r, s = <<>>, Replays(d, s, r) PROVE r = d
BY NoEvents DEF Replays

LEMMA EventReplayed ==
    ASSUME NEW d, NEW e, Fits(d, e)
    PROVE  Replays(d, <<e>>, Handle(d, e))
<1> DEFINE trail == [i \in 0 .. 1 |-> IF i = 0 THEN d ELSE Handle(d, e)]
<1>1. trail[0] = d /\ trail[1] = Handle(d, e)
  OBVIOUS
<1> HIDE DEF trail
<1>2. \A i \in 1 .. Len(<<e>>) : i = 1
  BY OneSeq
<1>3. \A i \in 1 .. Len(<<e>>) : /\ Fits(trail[i - 1], <<e>>[i])
                                  /\ trail[i] = Handle(trail[i - 1], <<e>>[i])
  <2> TAKE i \in 1 .. Len(<<e>>)
  <2>1. i = 1 /\ i - 1 = 0 /\ <<e>>[i] = e
    BY <1>2, OneSeq
  <2> QED
    BY <1>1, <2>1
<1> QED
  BY <1>1, <1>3, OneSeq DEF Replays

LEMMA QueuesReplayed ==
    ASSUME NEW d, NEW m, NEW r, NEW s, NEW t, Replays(d, s, m), Replays(m, t, r)
    PROVE  Replays(d, s \o t, r)
<1>1. IsSeq(s) /\ IsSeq(t)
  BY DEF Replays
<1>2. PICK p : /\ p[0] = d /\ p[Len(s)] = m
               /\ \A i \in 1 .. Len(s) : /\ Fits(p[i - 1], s[i])
                                         /\ p[i] = Handle(p[i - 1], s[i])
  BY DEF Replays
<1>3. PICK q : /\ q[0] = m /\ q[Len(t)] = r
               /\ \A i \in 1 .. Len(t) : /\ Fits(q[i - 1], t[i])
                                         /\ q[i] = Handle(q[i - 1], t[i])
  BY DEF Replays
<1> DEFINE n == Len(s)
           k == Len(t)
           trail == [i \in 0 .. (n + k) |-> IF i <= n THEN p[i] ELSE q[i - n]]
<1>4. n \in Nat /\ k \in Nat /\ Len(s \o t) = n + k /\ IsSeq(s \o t)
  BY <1>1, ConcatSeq
<1>5. \A i \in 1 .. n : (s \o t)[i] = s[i]
  BY <1>1, ConcatSeq
<1>6. \A i \in 1 .. k : (s \o t)[n + i] = t[i]
  BY <1>1, ConcatSeq
<1>7. trail[0] = d
  BY <1>2, <1>4
<1>8. \A i \in 0 .. k : trail[n + i] = q[i]
  <2> TAKE i \in 0 .. k
  <2>1. n + i \in 0 .. (n + k) /\ (n + i <= n <=> i = 0) /\ (n + i) - n = i
    BY <1>4
  <2> QED
    BY <1>2, <1>3, <1>4, <2>1
<1>9. \A i \in 0 .. n : trail[i] = p[i]
  BY <1>4
<1> HIDE DEF trail
<1>10. ASSUME NEW i \in 1 .. (n + k)
       PROVE  /\ Fits(trail[i - 1], (s \o t)[i])
              /\ trail[i] = Handle(trail[i - 1], (s \o t)[i])
  <2>1. CASE i <= n
    <3>1. i \in 1 .. n /\ i \in 0 .. n /\ i - 1 \in 0 .. n
      BY <1>4, <2>1
    <3> QED
      BY <1>2, <1>5, <1>9, <3>1
  <2>2. CASE ~(i <= n)
    <3> DEFINE j == i - n
    <3>1. /\ j \in 1 .. k /\ j \in 0 .. k /\ j - 1 \in 0 .. k
          /\ i = n + j /\ i - 1 = n + (j - 1)
      BY <1>4, <2>2
    <3> HIDE DEF j
    <3>2. trail[i] = q[j] /\ trail[i - 1] = q[j - 1] /\ (s \o t)[i] = t[j]
      BY <1>6, <1>8, <3>1
    <3> QED
      BY <1>3, <3>1, <3>2
  <2> QED
    BY <2>1, <2>2
<1>11. trail[n + k] = r
  BY <1>3, <1>4, <1>8
<1> QED
  BY <1>4, <1>7, <1>10, <1>11 DEF Replays

\* What is left of a queue leads on from where its first event led.
LEMMA FirstReplayed ==
    ASSUME NEW d, NEW s, NEW r, Replays(d, s, r), s # <<>>
    PROVE  /\ Fits(d, Head(s))
           /\ Replays(Handle(d, Head(s)), Tail(s), r)
<1>1. IsSeq(s)
  BY DEF Replays
<1>2. PICK p : /\ p[0] = d /\ p[Len(s)] = r
               /\ \A i \in 1 .. Len(s) : /\ Fits(p[i - 1], s[i])
                                         /\ p[i] = Handle(p[i - 1], s[i])
  BY DEF Replays
<1> DEFINE n == Len(s) - 1
           trail == [i \in 0 .. n |-> p[i + 1]]
<1>3. /\ n \in Nat /\ Len(s) = n + 1 /\ Len(Tail(s)) = n
      /\ IsSeq(Tail(s))
      /\ Head(s) = s[1]
      /\ \A i \in 1 .. n : Tail(s)[i] = s[i + 1]
  BY <1>1, TailSeq
<1> HIDE DEF n
<1>4. 1 \in 1 .. Len(s) /\ 1 - 1 = 0
  BY <1>3
<1>5. Fits(d, Head(s)) /\ p[1] = Handle(d, Head(s))
  BY <1>2, <1>3, <1>4
<1>6. trail[0] = p[1] /\ trail[n] = r
  BY <1>2, <1>3
<1>7. ASSUME NEW i \in 1 .. n
      PROVE  /\ Fits(trail[i - 1], Tail(s)[i])
             /\ trail[i] = Handle(trail[i - 1], Tail(s)[i])
  <2>1. /\ i + 1 \in 1 .. Len(s) /\ (i + 1) - 1 = i /\ (i - 1) + 1 = i
        /\ i \in 0 .. n /\ i - 1 \in 0 .. n
    BY <1>3
  <2>2. trail[i - 1] = p[i] /\ trail[i] = p[i + 1]
    BY <2>1
  <2> HIDE DEF trail
  <2> QED
    BY <1>2, <1>3, <2>1, <2>2
<1> HIDE DEF trail
<1> QED
  BY <1>3, <1>5, <1>6, <1>7 DEF Replays

-----------------------------------------------------------------------------
(* What handlers and calls leave alone.                                     *)

LEMMA TrovesKept ==
    ASSUME NEW d, NEW r, NEW b, TroveSide(d, b), NEW F, NEW K, Keeps(d, r, F, K),
           "troves" \notin F,
           K \intersect (TroveCounters \union {"rawTotalRedistributedCollateral",
                                               "rawTotalRedistributedDebt"}) = {}
    PROVE  TroveSide(r, b)
<1>1. r.troves = d.troves
  BY DEF Keeps, StoreFields
<1>2. /\ \A k \in TroveCounters : r.global[k] = d.global[k]
      /\ r.global.rawTotalRedistributedCollateral = d.global.rawTotalRedistributedCollateral
      /\ r.global.rawTotalRedistributedDebt = d.global.rawTotalRedistributedDebt
  BY DEF Keeps, GlobalKeys, OtherKeys
<1>3. \A s \in Statuses \ {"nonExistent"} : KeyOf(s) \in TroveCounters
  BY Keys DEF Statuses, ClosedStatuses, TroveCounters
<1>4. HasTroves(r)
  BY <1>1 DEF TroveSide, HasTroves
<1>5. \A s : With(r, s) = With(d, s)
  BY <1>1 DEF With
<1>6. CountersFollow(r)
  <2>1. CountersFollow(d) /\ "totalNumberOfTroves" \in TroveCounters
    BY DEF TroveSide, TroveCounters
  <2>2. r.global.totalNumberOfTroves = d.global.totalNumberOfTroves
    BY <1>2, <2>1
  <2>3. \A s \in Statuses \ {"nonExistent"} : r.global[KeyOf(s)] = d.global[KeyOf(s)]
    BY <1>2, <1>3
  <2> QED
    BY <1>5, <2>1, <2>2, <2>3 DEF CountersFollow
<1> QED
  BY <1>1, <1>2, <1>4, <1>6 DEF TroveSide

LEMMA DepositsKept ==
    ASSUME NEW d, NEW r, NEW b, DepositSide(d, b), NEW F, NEW K, Keeps(d, r, F, K),
           F \intersect {"deposits", "users", "frontends"} = {}
    PROVE  DepositSide(r, b)
<1>1. r.deposits = d.deposits /\ r.users = d.users /\ r.frontends = d.frontends
  BY DEF Keeps, StoreFields
<1> QED
  BY <1>1 DEF DepositSide, DepositFollows

LEMMA StakesKept ==
    ASSUME NEW d, NEW r, NEW b, StakeSide(d, b), NEW F, NEW K, Keeps(d, r, F, K),
           "stakes" \notin F, K \intersect StakeCounters = {}
    PROVE  StakeSide(r, b)
<1>1. r.stakes = d.stakes
  BY DEF Keeps, StoreFields
<1>2. /\ r.global.totalNumberOfProtocolTokenStakes = d.global.totalNumberOfProtocolTokenStakes
      /\ r.global.numberOfActiveProtocolTokenStakes = d.global.numberOfActiveProtocolTokenStakes
  BY DEF Keeps, GlobalKeys, OtherKeys, StakeCounters
<1> QED
  BY <1>1, <1>2 DEF StakeSide

LEMMA TokensKept ==
    ASSUME NEW d, NEW r, NEW b, TokenSide(d, b), NEW F, NEW K, Keeps(d, r, F, K),
           "token" \notin F
    PROVE  TokenSide(r, b)
<1>1. r.token = d.token
  BY DEF Keeps, StoreFields
<1> QED
  BY <1>1 DEF TokenSide

LEMMA CallsKept ==
    ASSUME NEW d, NEW r, NEW liq, NEW red, CallSide(d, liq, red),
           NEW F, NEW K, Keeps(d, r, F, K),
           F \intersect {"liquidation", "redemption"} = {},
           K \intersect (CallKeys \union {"tmpDepositUpdate"}) = {}
    PROVE  CallSide(r, liq, red)
<1>1. r.liquidation = d.liquidation /\ r.redemption = d.redemption
  BY DEF Keeps, StoreFields
<1>2. \A k \in CallKeys \union {"tmpDepositUpdate"} : r.global[k] = d.global[k]
  BY DEF Keeps, GlobalKeys, OtherKeys, CallKeys
<1>3. /\ r.global.liquidationCount = d.global.liquidationCount
      /\ r.global.redemptionCount = d.global.redemptionCount
      /\ r.global.currentLiquidation = d.global.currentLiquidation
      /\ r.global.currentRedemption = d.global.currentRedemption
      /\ r.global.tmpDepositUpdate = d.global.tmpDepositUpdate
  BY <1>2 DEF CallKeys
<1> QED
  BY <1>1, <1>3 DEF CallSide, HasCalls

\* A handler of a change that is neither a trove's nor an account's.
LEMMA FollowsOn ==
    ASSUME NEW d, NEW r, NEW b, NEW liq, NEW red, Follows(d, b, liq, red), ChainInv(r),
           NEW F, NEW K, Keeps(d, r, F, K),
           F \subseteq ChangeFields, K \subseteq ChainKeys \union {"totalBorrowingFeesPaid"},
           liq = {} => Tallied(r, b, 0, 0)
    PROVE  Follows(r, b, liq, red)
<1>1. F \intersect {"troves", "deposits", "users", "frontends", "stakes", "token",
                    "liquidation", "redemption"} = {}
  BY DEF ChangeFields
<1>2. K \intersect (TroveCounters \union CallKeys \union StakeCounters
                    \union {"rawTotalRedistributedCollateral", "rawTotalRedistributedDebt",
                            "tmpDepositUpdate"}) = {}
  BY DEF ChainKeys, TroveCounters, CallKeys, StakeCounters
<1>3. IsStore(r)
  BY DEF Keeps
<1>4. TroveSide(r, b)
  BY <1>1, <1>2, TrovesKept DEF Follows
<1>5. HasAccounts(r)
  BY <1>1, AccountsKept DEF Follows
<1>6. DepositSide(r, b) /\ StakeSide(r, b) /\ TokenSide(r, b)
  BY <1>1, <1>2, DepositsKept, StakesKept, TokensKept DEF Follows
<1>7. CallSide(r, liq, red)
  BY <1>1, <1>2, CallsKept DEF Follows
<1> QED
  BY <1>3, <1>4, <1>5, <1>6, <1>7 DEF Follows

\* The books may change in what nobody follows.
LEMMA SameTroves ==
    ASSUME NEW d, NEW b, NEW c, TroveSide(d, b),
           c.troves = b.troves, c.closedBy = b.closedBy, c.lColl = b.lColl, c.lDebt = b.lDebt
    PROVE  TroveSide(d, c)
BY DEF TroveSide, TroveFollows

LEMMA SameDeposits ==
    ASSUME NEW d, NEW b, NEW c, DepositSide(d, b),
           c.deposits = b.deposits, c.tags = b.tags, c.frontends = b.frontends
    PROVE  DepositSide(d, c)
BY DEF DepositSide, DepositFollows

LEMMA SameStakes ==
    ASSUME NEW d, NEW b, NEW c, StakeSide(d, b), c.staked = b.staked
    PROVE  StakeSide(d, c)
BY DEF StakeSide

LEMMA SameTokens ==
    ASSUME NEW d, NEW b, NEW c, TokenSide(d, b), c.balances = b.balances
    PROVE  TokenSide(d, c)
BY DEF TokenSide

-----------------------------------------------------------------------------
(* A trove that changes.                                                    *)

\* One user more among the users, or one less, or none.
LEMMA OneMore ==
    ASSUME NEW S \in SUBSET Users, NEW T, NEW u \in Users
    PROVE  /\ Cardinality(S) \in Nat
           /\ T = S \union {u} => Cardinality(T) = Cardinality(S) + (IF u \in S THEN 0 ELSE 1)
           /\ T = S \ {u} => Cardinality(T) = Cardinality(S) - (IF u \in S THEN 1 ELSE 0)
<1>1. IsFiniteSet(S)
  BY SubgraphAssumption, FS_Subset
<1>2. Cardinality(S) \in Nat
  BY <1>1, FS_CardinalityType
<1>3. Cardinality(S \union {u}) = IF u \in S THEN Cardinality(S) ELSE Cardinality(S) + 1
  BY <1>1, FS_AddElement
<1>4. Cardinality(S \ {u}) = IF u \in S THEN Cardinality(S) - 1 ELSE Cardinality(S)
  BY <1>1, FS_RemoveElement
<1>5. T = S \union {u} => Cardinality(T) = Cardinality(S) + (IF u \in S THEN 0 ELSE 1)
  BY <1>2, <1>3
<1>6. T = S \ {u} => Cardinality(T) = Cardinality(S) - (IF u \in S THEN 1 ELSE 0)
  BY <1>2, <1>4
<1> QED
  BY <1>2, <1>5, <1>6

LEMMA CountersMoved ==
    ASSUME NEW d, NEW r, NEW u \in Users, NEW new \in Statuses \ {"nonExistent"},
           HasTroves(d), CountersFollow(d), Recounts(d, r, d.troves[u].status, new),
           \A v \in Users : r.troves[v].status = IF v = u THEN new ELSE d.troves[v].status
    PROVE  CountersFollow(r)
<1> DEFINE old == d.troves[u].status
<1>1. old \in Statuses
  BY DEF HasTroves
<1>2. ASSUME NEW s \in Statuses
      PROVE  /\ Cardinality(With(d, s)) \in Nat
             /\ Cardinality(With(r, s)) = Cardinality(With(d, s)) + (IF s = new THEN 1 ELSE 0)
                                              - (IF s = old THEN 1 ELSE 0)
  <2>1. With(d, s) \in SUBSET Users /\ (u \in With(d, s) <=> s = old)
    BY DEF With
  <2>2. IF s = new THEN With(r, s) = With(d, s) \union {u} ELSE With(r, s) = With(d, s) \ {u}
    BY DEF With
  <2> QED
    BY <2>1, <2>2, OneMore
<1>3. \A s \in Statuses \ {"nonExistent"} : r.global[KeyOf(s)] = Cardinality(With(r, s))
  <2> TAKE s \in Statuses \ {"nonExistent"}
  <2>1. d.global[KeyOf(s)] = Cardinality(With(d, s))
    BY DEF CountersFollow
  <2>2. r.global[KeyOf(s)] = d.global[KeyOf(s)] + (IF s = new THEN 1 ELSE 0)
                                                 - (IF s = old THEN 1 ELSE 0)
    BY DEF Recounts
  <2> QED
    BY <1>2, <2>1, <2>2
<1>4. r.global.totalNumberOfTroves = Cardinality(Users) - Cardinality(With(r, "nonExistent"))
  <2> DEFINE none == Cardinality(With(d, "nonExistent"))
  <2>1. d.global.totalNumberOfTroves = Cardinality(Users) - none
    BY DEF CountersFollow
  <2>2. r.global.totalNumberOfTroves
           = d.global.totalNumberOfTroves + (IF old = "nonExistent" THEN 1 ELSE 0)
    BY DEF Recounts
  <2>3. "nonExistent" \in Statuses /\ "nonExistent" # new
    BY DEF Statuses
  <2>4. /\ none \in Nat
        /\ Cardinality(With(r, "nonExistent")) = none - (IF old = "nonExistent" THEN 1 ELSE 0)
    BY <1>2, <2>3
  <2>5. Cardinality(Users) \in Nat
    BY SubgraphAssumption, FS_CardinalityType
  <2> HIDE DEF none, old
  <2> QED
    BY <2>1, <2>2, <2>4, <2>5
<1> QED
  BY <1>3, <1>4 DEF CountersFollow

LEMMA CountersNumbered ==
    ASSUME NEW d, CountersFollow(d)
    PROVE  CountersAreNumbers(d)
<1>1. Cardinality(Users) \in Nat
  BY SubgraphAssumption, FS_CardinalityType
<1>2. \A s \in Statuses : Cardinality(With(d, s)) \in Nat
  BY SubgraphAssumption, FS_Subset, FS_CardinalityType DEF With
<1>3. \A s \in Statuses \ {"nonExistent"} : d.global[KeyOf(s)] \in Int
  BY <1>2 DEF CountersFollow
<1>4. d.global.totalNumberOfTroves \in Int
  BY <1>1, <1>2 DEF CountersFollow, Statuses
<1>5. \A k \in TroveCounters \ {"totalNumberOfTroves"} :
         \E s \in Statuses \ {"nonExistent"} : k = KeyOf(s)
  BY Keys DEF TroveCounters, Statuses, ClosedStatuses
<1> QED
  BY <1>3, <1>4, <1>5 DEF CountersAreNumbers

LEMMA ChangeCounts ==
    ASSUME NEW s, IsState(s), NEW op, NEW t, NEW coll \in Int, NEW debt \in Int,
           op # "accrueRewards" => {t.collateral, t.debt} \subseteq Int,
           op = "accrueRewards" \/ IsBorrowerOperation(op) \/ IsRedemption(op)
    PROVE  LET next == StateAfterTroveChange(s, op, t, coll, debt)
               n == IF op = "accrueRewards" THEN Moved(0, 0)
                    ELSE Moved(coll - t.collateral, debt - t.debt)
           IN /\ IsState(next) /\ next.price = s.price
              /\ \A f \in TallyNames : n[f] \in Int /\ next[f] = s[f] + n[f]
<1> DEFINE x == IF op = "accrueRewards" THEN 0 ELSE coll - t.collateral
           y == IF op = "accrueRewards" THEN 0 ELSE debt - t.debt
           after == IF op = "accrueRewards" THEN s
                    ELSE [s EXCEPT !.totalCollateral = @ + x, !.totalDebt = @ + y]
           ratio == CalculateCollateralRatio(after.totalCollateral, after.totalDebt, after.price)
           next == [after EXCEPT !.totalCollateralRatio = ratio]
<1>1. StateAfterTroveChange(s, op, t, coll, debt) = next
  <2>1. op = "accrueRewards" => ~IsBorrowerOperation(op) /\ ~IsRedemption(op) /\ ~IsLiquidation(op)
    BY DEF IsBorrowerOperation, IsRedemption, IsLiquidation
  <2> HIDE DEF ratio
  <2> QED
    BY <2>1 DEF StateAfterTroveChange, ratio
<1>2. x \in Int /\ y \in Int
  OBVIOUS
<1>3. /\ after = [f \in StateNames |-> after[f]] /\ after.price = s.price
      /\ \A f \in TallyNames : after[f] = IF f = "totalCollateral" THEN s[f] + x
                                          ELSE IF f = "totalDebt" THEN s[f] + y ELSE s[f]
  <2>1. CASE op = "accrueRewards"
    <3>1. after = s /\ x = 0 /\ y = 0
      BY <2>1
    <3>2. s = [f \in StateNames |-> s[f]]
      BY Zenon DEF IsState
    <3>3. \A f \in TallyNames : s[f] \in Int
      BY Zenon DEF IsState
    <3> HIDE DEF after, x, y
    <3>4. after = [f \in StateNames |-> after[f]] /\ after.price = s.price
      BY <3>1, <3>2, Zenon
    <3>5. \A f \in TallyNames : after[f] = IF f = "totalCollateral" THEN s[f] + x
                                           ELSE IF f = "totalDebt" THEN s[f] + y ELSE s[f]
      BY <3>1, <3>3
    <3> QED
      BY <3>4, <3>5
  <2>2. CASE op # "accrueRewards"
    <3>1. after = [s EXCEPT !.totalCollateral = @ + x, !.totalDebt = @ + y]
      BY <2>2
    <3> HIDE DEF after, x, y
    <3> QED
      BY <3>1 DEF IsState, StateNames, TallyNames
  <2> QED
    BY <2>1, <2>2
<1> HIDE DEF x, y, after, ratio
<1>4. /\ next = [f \in StateNames |-> next[f]] /\ next.price = s.price
      /\ \A f \in TallyNames : next[f] = after[f]
  BY <1>3 DEF StateNames, TallyNames
<1> HIDE DEF next
<1>5. \A f \in TallyNames : Moved(x, y)[f] \in Int /\ next[f] = s[f] + Moved(x, y)[f]
  <2>1. \A f \in TallyNames : Moved(x, y)[f] = IF f = "totalCollateral" THEN x
                                               ELSE IF f = "totalDebt" THEN y ELSE 0
    BY DEF Moved
  <2> QED
    BY <1>2, <1>3, <1>4, <2>1 DEF IsState
<1>6. IsState(next)
  <2>1. \A f \in TallyNames : s[f] \in Int
    BY DEF IsState
  <2> QED
    BY <1>4, <1>5, <2>1 DEF IsState
<1> QED
  BY <1>1, <1>4, <1>5, <1>6 DEF x, y

LEMMA EntireWhenPut ==
    ASSUME NEW b, HasBooks(b), NEW c, NEW u \in Users, NEW status,
           NEW coll \in Int, NEW debt \in Int, NEW stake \in Int,
           Puts(b, c, u, status, coll, debt, stake)
    PROVE  Entire(c, u) = [coll |-> coll, debt |-> debt]
<1>1. /\ c.troves[u] = [coll |-> coll, debt |-> debt, stake |-> stake,
                        snapColl |-> IF stake = 0 THEN 0 ELSE b.lColl,
                        snapDebt |-> IF stake = 0 THEN 0 ELSE b.lDebt]
      /\ c.lColl = b.lColl /\ c.lDebt = b.lDebt
  BY DEF Puts, HasBooks
<1>2. /\ stake * (c.lColl - c.troves[u].snapColl) = 0
      /\ stake * (c.lDebt - c.troves[u].snapDebt) = 0
  BY <1>1 DEF HasBooks
<1>3. 0 \div Scaling = 0
  BY StoreAssumption
<1> QED
  BY <1>1, <1>2, <1>3 DEF Entire

LEMMA WordTallied ==
    ASSUME NEW d, NEW b, NEW x \in Int, NEW y \in Int, Tallied(d, b, x, y), HasBooks(b),
           NEW r, NEW op, NEW u \in Users, NEW coll, NEW debt, NEW stake,
           TroveTallied(d, r, op, u, coll, debt), r.users = d.users,
           d.troves[u].collateral = b.troves[u].coll, d.troves[u].debt = b.troves[u].debt,
           NEW c, NEW status, Puts(b, c, u, status, coll, debt, stake), SameAccounts(b, c),
           Fair(b, c, op, u, coll, debt, stake)
    PROVE  Tallied(r, c, x, y) /\ r.state.price = d.state.price
<1> DEFINE t == d.troves[u]
           n == IF op = "accrueRewards" THEN Moved(0, 0)
                ELSE Moved(coll - t.collateral, debt - t.debt)
<1>1. \A v \in Users : Parts(b).totalCollateral[v] = Entire(b, v).coll
                       /\ Parts(b).totalDebt[v] = Entire(b, v).debt
                       /\ Parts(c).totalCollateral[v] = Entire(c, v).coll
                       /\ Parts(c).totalDebt[v] = Entire(c, v).debt
  BY DEF Parts
<1>2. Entire(b, u).coll \in Int /\ Entire(b, u).debt \in Int
  <2>1. {"totalCollateral", "totalDebt"} \subseteq TallyNames
    BY DEF TallyNames
  <2> QED
    BY <1>1, <2>1 DEF Tallied
<1>3. Entire(c, u) = [coll |-> coll, debt |-> debt]
  BY EntireWhenPut DEF Fair
<1>4. \A v \in Users \ {u} : Entire(c, v) = Entire(b, v)
  BY DEF Puts, HasBooks, Entire
<1>5. op = "accrueRewards" \/ IsBorrowerOperation(op) \/ IsRedemption(op)
  BY DEF Fair
<1>6. op # "accrueRewards" => {t.collateral, t.debt} \subseteq Int
  BY <1>2 DEF Fair
<1>7. PICK s : /\ IsState(s) /\ SameNumbers(d.state, s)
               /\ LET next == StateAfterTroveChange(s, op, t, coll, debt)
                  IN IsState(next) => Settles(r, next)
  BY DEF TroveTallied
<1>8. Moves(d, r, n)
  <2>1. coll \in Int /\ debt \in Int
    BY DEF Fair
  <2> DEFINE next == StateAfterTroveChange(s, op, t, coll, debt)
  <2> HIDE DEF t
  <2>2. /\ IsState(next) /\ next.price = s.price
        /\ \A f \in TallyNames : n[f] \in Int /\ next[f] = s[f] + n[f]
    BY <1>5, <1>6, <1>7, <2>1, ChangeCounts
  <2>3. Settles(r, next)
    BY <1>7, <2>2
  <2> HIDE DEF next, n
  <2> QED
    BY <1>7, <2>2, <2>3 DEF Settles, SameNumbers, Moves
<1>9. ASSUME NEW f \in TallyNames, NEW v \in Users
      PROVE  Parts(c)[f][v] = Parts(b)[f][v] + (IF v = u THEN n[f] ELSE 0)
  <2>1. Parts(b)[f][v] \in Int
    BY DEF Tallied
  <2>2. CASE f \notin {"totalCollateral", "totalDebt"}
    <3>1. Parts(c)[f][v] = Parts(b)[f][v]
      BY <2>2 DEF Parts, Compounded, SameAccounts, Fair, TallyNames
    <3>2. n[f] = 0
      BY <2>2 DEF Moved
    <3> QED
      BY <2>1, <3>1, <3>2
  <2>3. CASE f \in {"totalCollateral", "totalDebt"} /\ v # u
    BY <1>1, <1>4, <2>1, <2>3
  <2>4. CASE f \in {"totalCollateral", "totalDebt"} /\ v = u
    <3>1. coll \in Int /\ debt \in Int
      BY DEF Fair
    <3>2. Entire(b, u) = IF op = "accrueRewards" THEN [coll |-> coll, debt |-> debt]
                         ELSE [coll |-> t.collateral, debt |-> t.debt]
      <4>1. op = "accrueRewards" => ~IsBorrowerOperation(op) /\ ~IsRedemption(op)
        BY DEF IsBorrowerOperation, IsRedemption
      <4> QED
        BY <4>1 DEF Fair
    <3>3. /\ Entire(b, u).coll = IF op = "accrueRewards" THEN coll ELSE t.collateral
          /\ Entire(b, u).debt = IF op = "accrueRewards" THEN debt ELSE t.debt
      BY <3>2
    <3> HIDE DEF t
    <3>4. /\ n.totalCollateral = IF op = "accrueRewards" THEN 0 ELSE coll - t.collateral
          /\ n.totalDebt = IF op = "accrueRewards" THEN 0 ELSE debt - t.debt
      BY DEF Moved, TallyNames
    <3> HIDE DEF n
    <3> QED
      BY <1>1, <1>3, <1>6, <2>1, <2>4, <3>1, <3>3, <3>4
  <2> QED
    BY <2>2, <2>3, <2>4
<1>10. c.surplus \in [Users -> Int] /\ \A v \in Users : r.users[v].collSurplus = c.surplus[v]
  BY DEF SameAccounts, Tallied
<1> HIDE DEF n
<1>11. Tallied(r, c, x, y)
  BY <1>8, <1>9, <1>10, TallyMoves
<1> QED
  BY <1>8, <1>11 DEF Moves

LEMMA WordFollowed ==
    ASSUME NEW d, NEW b, NEW liq, NEW red, Follows(d, b, liq, red), HasBooks(b),
           NEW e, e.tx # Null, NEW op, NEW u \in Users, NEW coll, NEW debt, NEW stake,
           ~(coll = b.troves[u].coll /\ debt = b.troves[u].debt),
           b.closedBy[u] \in ClosedStatuses => StatusAfter(op, coll) = "open",
           NEW c, Puts(b, c, u, StatusAfter(op, coll), coll, debt, stake), SameAccounts(b, c),
           IsLiquidation(op) \/ Fair(b, c, op, u, coll, debt, stake)
    PROVE  LET r == UpdateTrove(d, e, op, u, coll, debt, stake)
           IN /\ Follows(r, c, InLiquidation(op, liq, u), InRedemption(op, red, u))
              /\ LastIsOf(r, u)
              /\ SameUsers(d, r)
              /\ HasState(d) => TroveTallied(d, r, op, u, coll, debt)
<1> DEFINE r == UpdateTrove(d, e, op, u, coll, debt, stake)
           new == StatusAfter(op, coll)
           F == {"state", "transaction", "change", "liquidation", "redemption", "troves"}
           K == ChainKeys \union TroveCounters \union CallKeys
<1>1. /\ IsStore(d) /\ ChainInv(d) /\ HasTroves(d) /\ CountersFollow(d) /\ HasCalls(d)
      /\ TroveFollows(d.troves[u], b, u)
  BY DEF Follows, TroveSide, CallSide
<1>2. CountersAreNumbers(d)
  BY <1>1, CountersNumbered
<1>3. ~IsNoop(d, u, coll, debt)
  BY <1>1 DEF IsNoop, TroveFollows
<1>4. d.troves[u].status \in ClosedStatuses => new = "open"
  BY <1>1 DEF TroveFollows
<1>5. /\ Keeps(d, r, F, K)
      /\ ChainInv(r)
      /\ r.troves = [d.troves EXCEPT ![u] = Stored(d, new, coll, debt, stake)]
      /\ HasTroves(r)
      /\ Recounts(d, r, d.troves[u].status, new)
      /\ HasCalls(r)
      /\ Links(d, r, op, u)
      /\ r.change.kind = "trove"
      /\ r.change.owner = u
      /\ r.change.transaction = r.global.transactionCount - 1
      /\ HasState(d) => TroveTallied(d, r, op, u, coll, debt)
  <2>1. TroveWritten(d, r, op, u, coll, debt, stake)
    BY <1>1, <1>2, <1>3, <1>4, TroveChanged
  <2> HIDE DEF r
  <2> QED
    BY <2>1 DEF TroveWritten
<1> HIDE DEF r
<1>6. new \in Statuses \ {"nonExistent"}
  BY StatusesAfter
<1> HIDE DEF new
<1>7. d.troves = [v \in Users |-> d.troves[v]]
  BY <1>1 DEF HasTroves
<1>8. TroveSide(r, c)
  <2>1. \A v \in Users : r.troves[v].status = IF v = u THEN new ELSE d.troves[v].status
    BY <1>5, <1>7 DEF Stored
  <2>2. CountersFollow(r)
    <3>1. HasTroves(d) /\ CountersFollow(d)
      BY <1>1
    <3>2. Recounts(d, r, d.troves[u].status, new)
      BY <1>5
    <3> QED
      BY <3>1, <3>2, <1>6, <2>1, CountersMoved, Zenon
  <2>3. /\ r.global.rawTotalRedistributedCollateral = d.global.rawTotalRedistributedCollateral
        /\ r.global.rawTotalRedistributedDebt = d.global.rawTotalRedistributedDebt
    BY <1>5 DEF Keeps, GlobalKeys, OtherKeys, ChainKeys, TroveCounters, CallKeys
  <2>4. /\ d.global.rawTotalRedistributedCollateral = b.lColl
        /\ d.global.rawTotalRedistributedDebt = b.lDebt
        /\ \A v \in Users : TroveFollows(d.troves[v], b, v)
    BY DEF Follows, TroveSide
  <2>5. ASSUME NEW v \in Users PROVE TroveFollows(r.troves[v], c, v)
    <3>1. CASE v = u
      <4>1. r.troves[u] = Stored(d, new, coll, debt, stake)
        BY <1>5, <1>7
      <4>2. /\ c.troves[u] = [coll |-> coll, debt |-> debt, stake |-> stake,
                              snapColl |-> IF stake = 0 THEN 0 ELSE b.lColl,
                              snapDebt |-> IF stake = 0 THEN 0 ELSE b.lDebt]
            /\ c.closedBy[u] = new
        BY DEF Puts, HasBooks, new
      <4> QED
        BY <3>1, <4>1, <4>2, <2>4 DEF TroveFollows, Stored, SortKey
    <3>2. CASE v # u
      <4>1. r.troves[v] = d.troves[v]
        BY <1>5, <1>7, <3>2
      <4>2. c.troves[v] = b.troves[v] /\ c.closedBy[v] = b.closedBy[v]
        BY <3>2 DEF Puts, HasBooks
      <4> QED
        BY <4>1, <4>2, <2>4 DEF TroveFollows
    <3> QED
      BY <3>1, <3>2
  <2>6. c.lColl = b.lColl /\ c.lDebt = b.lDebt
    BY DEF Puts
  <2> QED
    BY <1>5, <2>2, <2>3, <2>4, <2>5, <2>6 DEF TroveSide
<1>9. HasAccounts(r) /\ DepositSide(r, c) /\ StakeSide(r, c) /\ TokenSide(r, c)
  <2>1. F \intersect {"deposits", "users", "frontends", "stakes", "token"} = {}
    OBVIOUS
  <2>2. K \intersect StakeCounters = {}
    BY DEF ChainKeys, TroveCounters, CallKeys, StakeCounters
  <2> HIDE DEF F, K
  <2>3. HasAccounts(r)
    BY <1>5, <2>1, AccountsKept DEF Follows
  <2>4. DepositSide(r, b) /\ StakeSide(r, b) /\ TokenSide(r, b)
    BY <1>5, <2>1, <2>2, DepositsKept, StakesKept, TokensKept DEF Follows
  <2> QED
    BY <2>3, <2>4, SameDeposits, SameStakes, SameTokens DEF SameAccounts
<1>10. CallSide(r, InLiquidation(op, liq, u), InRedemption(op, red, u))
  <2>1. r.global.tmpDepositUpdate = d.global.tmpDepositUpdate
    BY <1>5 DEF Keeps, GlobalKeys, OtherKeys, ChainKeys, TroveCounters, CallKeys
  <2>2. CallSide(d, liq, red)
    BY DEF Follows
  <2> QED
    BY <1>5, <2>1, <2>2 DEF CallSide, Links, InLiquidation, InRedemption
<1>11. IsStore(r)
  BY <1>5 DEF Keeps
<1>12. r.users = d.users
  BY <1>5 DEF Keeps, StoreFields
<1>13. InLiquidation(op, liq, u) = {} => Tallied(r, c, 0, 0)
  <2>1. SUFFICES ASSUME liq = {}, ~IsLiquidation(op) PROVE Tallied(r, c, 0, 0)
    BY DEF InLiquidation
  <2>2. Tallied(d, b, 0, 0)
    BY <2>1 DEF Follows
  <2>3. TroveTallied(d, r, op, u, coll, debt)
    BY <1>5, <2>2 DEF Tallied
  <2>4. d.troves[u].collateral = b.troves[u].coll /\ d.troves[u].debt = b.troves[u].debt
    BY <1>1 DEF TroveFollows
  <2> QED
    BY <1>12, <2>1, <2>2, <2>3, <2>4, WordTallied DEF new
<1>14. Follows(r, c, InLiquidation(op, liq, u), InRedemption(op, red, u))
  BY <1>5, <1>8, <1>9, <1>10, <1>11, <1>13 DEF Follows
<1> QED
  BY <1>5, <1>12, <1>14 DEF r, LastIsOf, SameUsers

-----------------------------------------------------------------------------
(* The books: what a trove is worth, and which books are left by a call.    *)

LEMMA Divides ==
    ASSUME NEW k \in Nat, NEW d \in Nat \ {0}
    PROVE  (k * d) \div d = k
<1> DEFINE n == k * d
           p == n \div d
<1>1. n \in Nat /\ n = d * k
  BY SMT
<1> HIDE DEF n
<1>2. p \in Nat /\ d * p <= n /\ n < d * p + d
  BY <1>1, SMT
<1> HIDE DEF p
<1>3. ~(p < k)
  <2>1. p < k => d * (p + 1) <= d * k
    BY <1>2, SMT
  <2> QED
    BY <1>1, <1>2, <2>1, SMT
<1>4. ~(k < p)
  <2>1. k < p => d * (k + 1) <= d * p
    BY <1>2, SMT
  <2> QED
    BY <1>1, <1>2, <2>1, SMT
<1>5. p = k
  BY <1>2, <1>3, <1>4
<1> QED
  BY <1>5 DEF p, n

LEMMA Quotient ==
    ASSUME NEW n \in Nat, NEW d \in Nat \ {0}
    PROVE  n \div d \in Nat /\ n \div d <= n
<1>1. n \div d \in Nat /\ d * (n \div d) <= n
  BY SMT
<1> DEFINE p == n \div d
<1>2. p \in Nat /\ d * p <= n
  BY <1>1
<1> HIDE DEF p
<1>3. p <= d * p
  BY <1>2, SMT
<1>4. p \in Nat /\ p <= n
  BY <1>2, <1>3
<1> QED
  BY <1>4 DEF p

\* The part of a product that falls to a part of a divisor.
LEMMA Part ==
    ASSUME NEW x \in Nat, NEW d \in Nat \ {0}, NEW o \in 0 .. d
    PROVE  /\ (x * o) \div d \in 0 .. x
           /\ o = d => (x * o) \div d = x
<1> DEFINE n == x * o
           p == n \div d
<1>1. n \in Nat /\ n <= d * x
  BY SMT
<1>2. p \in Nat /\ d * p <= n
  BY <1>1, SMT
<1> HIDE DEF p, n
<1>3. ~(x < p)
  <2>1. x < p => d * (x + 1) <= d * p
    BY <1>2, SMT
  <2> QED
    BY <1>1, <1>2, <2>1, SMT
<1>4. p \in 0 .. x
  BY <1>2, <1>3
<1> QED
  BY <1>4, Divides DEF p, n

LEMMA Parameters ==
    /\ Scaling \in Nat \ {0} /\ RatioScale \in Nat \ {0} /\ GasDivisor \in Nat \ {0}
    /\ Unit \in Nat \ {0}
BY StoreAssumption, SubgraphAssumption

LEMMA TermsNumbered ==
    ASSUME NEW l, IsTerm(l)
    PROVE  /\ l \in Nat /\ l \div Scaling \in Nat
           /\ l = (l \div Scaling) * Scaling
<1>1. PICK k \in Nat : l = k * Scaling
  BY DEF IsTerm
<1>2. l \div Scaling = k
  BY <1>1, Divides, Parameters
<1>3. l \in Nat
  BY <1>1, Parameters, SMT
<1> QED
  BY <1>1, <1>2, <1>3

LEMMA UnitIsPositive ==
    ASSUME NEW b, IsTerm(b.lColl)
    PROVE  UnitNow(b) \in Nat \ {0}
BY TermsNumbered, Parameters DEF UnitNow

\* From one term to a later one there is a whole amount per unit of stake.
LEMMA TermsBetween ==
    ASSUME NEW l \in Nat, NEW n \in Nat, IsTerm(l), IsTerm(n), n <= l, NEW s \in Nat
    PROVE  \E m \in Nat : Gained(l, n, s, m)
<1> DEFINE i == l \div Scaling
           j == n \div Scaling
           m == i - j
<1>1. i \in Nat /\ j \in Nat /\ l = i * Scaling /\ n = j * Scaling
  BY TermsNumbered
<1> HIDE DEF i, j
<1>2. j <= i
  <2>1. i < j => (i + 1) * Scaling <= j * Scaling
    BY <1>1, Parameters, SMT
  <2>2. (i + 1) * Scaling = i * Scaling + Scaling
    BY <1>1, Parameters, SMT
  <2> QED
    BY <1>1, <2>1, <2>2, Parameters
<1>3. m \in Nat /\ i = j + m
  BY <1>1, <1>2
<1> HIDE DEF m
<1>4. i * Scaling = j * Scaling + m * Scaling /\ m * Scaling \in Nat /\ j * Scaling \in Nat
  BY <1>1, <1>3, Parameters, SMT
<1>5. l = n + m * Scaling /\ l - n = m * Scaling
  BY <1>1, <1>4
<1>6. s * (m * Scaling) = (s * m) * Scaling /\ s * m \in Nat
  BY <1>3, Parameters, SMT
<1>7. (s * (l - n)) \div Scaling = s * m
  BY <1>5, <1>6, Divides, Parameters
<1> QED
  BY <1>3, <1>5, <1>6, <1>7 DEF Gained, i, j

LEMMA Worth ==
    ASSUME NEW b, TrovesBooked(b), NEW u \in Users
    PROVE  LET t == b.troves[u]
               e == Entire(b, u)
           IN /\ e.coll \in Nat /\ e.debt \in Nat
              /\ t.stake \in Nat
              /\ e.coll = t.stake * UnitNow(b)
              /\ t.stake # 0 => e.coll > 0 /\ e.debt > 0
              /\ t.stake = 0 => e.coll = 0 /\ e.debt = 0 /\ t = Closed
<1> DEFINE t == b.troves[u]
           e == Entire(b, u)
<1>1. /\ IsBooked(b, t) /\ b.lColl \in Nat /\ b.lDebt \in Nat
      /\ IsTerm(b.lColl) /\ IsTerm(b.lDebt)
  BY DEF TrovesBooked
<1>2. /\ t.coll \in Nat /\ t.debt \in Nat /\ t.stake \in Nat
      /\ t.snapColl \in Nat /\ t.snapDebt \in Nat
  BY <1>1 DEF IsBooked, TroveTerms
<1>3. /\ e.coll = t.coll + (t.stake * (b.lColl - t.snapColl)) \div Scaling
      /\ e.debt = t.debt + (t.stake * (b.lDebt - t.snapDebt)) \div Scaling
  BY DEF Entire
<1>4. UnitNow(b) \in Nat \ {0}
  BY <1>1, UnitIsPositive
<1> HIDE DEF e, t
<1>5. CASE t.stake = 0
  <2>1. t = Closed
    BY <1>1, <1>5 DEF IsBooked
  <2>2. t.coll = 0 /\ t.debt = 0 /\ t.snapColl = 0 /\ t.snapDebt = 0
    BY <2>1 DEF Closed
  <2>3. /\ t.stake * (b.lColl - t.snapColl) = 0 /\ t.stake * (b.lDebt - t.snapDebt) = 0
        /\ t.stake * UnitNow(b) = 0
    BY <1>1, <1>2, <1>4, <1>5, SMT
  <2>4. 0 \div Scaling = 0
    BY Parameters, SMT
  <2> QED
    BY <1>3, <1>5, <2>1, <2>2, <2>3, <2>4 DEF e, t
<1>6. CASE t.stake # 0
  <2>1. /\ t.coll = t.stake * (Unit + t.snapColl \div Scaling)
        /\ t.debt > 0 /\ IsTerm(t.snapColl) /\ IsTerm(t.snapDebt)
        /\ t.snapColl <= b.lColl /\ t.snapDebt <= b.lDebt
    BY <1>1, <1>6 DEF IsBooked
  <2> DEFINE j == t.snapColl \div Scaling
             s == t.stake
  <2>a. PICK k \in Nat : Gained(b.lColl, t.snapColl, s, k)
    BY <1>1, <1>2, <2>1, TermsBetween
  <2>2. /\ b.lColl \div Scaling = j + k /\ s * k \in Nat
        /\ (s * (b.lColl - t.snapColl)) \div Scaling = s * k
    BY <2>a DEF Gained
  <2>3. PICK q \in Nat : (s * (b.lDebt - t.snapDebt)) \div Scaling = q
    <3>1. \E m \in Nat : Gained(b.lDebt, t.snapDebt, s, m)
      BY <1>1, <1>2, <2>1, TermsBetween
    <3> QED
      BY <3>1 DEF Gained
  <2>4. s \in Nat /\ s > 0 /\ j \in Nat /\ Unit \in Nat
    BY <1>2, <1>6, <2>1, TermsNumbered, Parameters
  <2>5. t.coll = s * (Unit + j) /\ UnitNow(b) = Unit + (j + k)
    BY <2>1, <2>2 DEF UnitNow
  <2> HIDE DEF j, s
  <2>6. s * (Unit + j) + s * k = s * (Unit + (j + k))
    BY <2>4, SMT
  <2>7. e.coll = s * UnitNow(b)
    BY <1>3, <2>2, <2>5, <2>6 DEF s
  <2>8. s * UnitNow(b) \in Nat /\ s * UnitNow(b) > 0
    BY <1>4, <2>4, SMT
  <2>9. e.debt = t.debt + q
    BY <1>3, <2>3 DEF s
  <2> QED
    BY <1>2, <1>6, <2>1, <2>7, <2>8, <2>9 DEF s, e, t
<1> QED
  BY <1>5, <1>6

LEMMA TroveBookWritten ==
    ASSUME NEW b, IsBooks(b), NEW u, NEW x
    PROVE  LET c == WithTrove(b, u, x)
           IN BooksKeep(b, c, {"troves"}) /\ c.troves = [b.troves EXCEPT ![u] = x]
<1> DEFINE t == [b.troves EXCEPT ![u] = x]
           c == WithTrove(b, u, x)
<1>1. c = [b EXCEPT !.troves = t]
  BY DEF WithTrove
<1> HIDE DEF c
<1> HIDE DEF t
<1>2. BooksKeep(b, c, {"troves"}) /\ c.troves = t
  BY <1>1 DEF IsBooks, BooksKeep, BookNames
<1> QED
  BY <1>2 DEF t, c

LEMMA StatusBookWritten ==
    ASSUME NEW b, IsBooks(b), NEW u, NEW x
    PROVE  LET c == WithWay(b, u, x)
           IN BooksKeep(b, c, {"closedBy"}) /\ c.closedBy = [b.closedBy EXCEPT ![u] = x]
<1> DEFINE t == [b.closedBy EXCEPT ![u] = x]
           c == WithWay(b, u, x)
<1>1. c = [b EXCEPT !.closedBy = t]
  BY DEF WithWay
<1> HIDE DEF c
<1> HIDE DEF t
<1>2. BooksKeep(b, c, {"closedBy"}) /\ c.closedBy = t
  BY <1>1 DEF IsBooks, BooksKeep, BookNames
<1> QED
  BY <1>2 DEF t, c

LEMMA PutBooks ==
    ASSUME NEW b, IsBooks(b), NEW u, NEW coll, NEW debt, NEW stake, stake # 0
    PROVE  LET c == TrovePut(b, u, coll, debt, stake)
           IN BooksKeep(b, c, {"troves", "closedBy"}) /\ Puts(b, c, u, "open", coll, debt, stake)
<1> DEFINE w == Written(b, u, coll, debt, stake)
           c == WithWay(w, u, "open")
           x == [coll |-> coll, debt |-> debt, stake |-> stake,
                 snapColl |-> b.lColl, snapDebt |-> b.lDebt]
<1>1. w = WithTrove(b, u, x)
  BY DEF Written, WithTrove
<1> HIDE DEF w, x
<1>2. BooksKeep(b, w, {"troves"}) /\ w.troves = [b.troves EXCEPT ![u] = x]
  BY <1>1, TroveBookWritten
<1>3. IsBooks(w)
  BY <1>2 DEF BooksKeep
<1>4. BooksKeep(w, c, {"closedBy"}) /\ c.closedBy = [w.closedBy EXCEPT ![u] = "open"]
  BY <1>3, StatusBookWritten
<1> HIDE DEF c
<1>5. c.troves = w.troves /\ w.closedBy = b.closedBy /\ c.lColl = b.lColl /\ c.lDebt = b.lDebt
  BY <1>2, <1>4 DEF BooksKeep, BookNames
<1>6. Puts(b, c, u, "open", coll, debt, stake)
  BY <1>2, <1>4, <1>5 DEF Puts, x
<1>7. BooksKeep(b, c, {"troves", "closedBy"})
  BY <1>2, <1>4 DEF BooksKeep
<1> QED
  BY <1>6, <1>7 DEF c, w, TrovePut, WithWay

LEMMA CloseBooks ==
    ASSUME NEW b, IsBooks(b), NEW u, NEW how
    PROVE  LET c == ClosedTrove(b, u, how)
           IN BooksKeep(b, c, {"troves", "closedBy"}) /\ Puts(b, c, u, how, 0, 0, 0)
<1> DEFINE w == WithTrove(b, u, Closed)
           c == WithWay(w, u, how)
<1>1. ClosedTrove(b, u, how) = c
  BY DEF ClosedTrove, WithTrove, WithWay
<1>2. BooksKeep(b, w, {"troves"}) /\ w.troves = [b.troves EXCEPT ![u] = Closed]
  BY TroveBookWritten
<1> HIDE DEF w
<1>3. IsBooks(w)
  BY <1>2 DEF BooksKeep
<1>4. BooksKeep(w, c, {"closedBy"}) /\ c.closedBy = [w.closedBy EXCEPT ![u] = how]
  BY <1>3, StatusBookWritten
<1> HIDE DEF c
<1>5. c.troves = w.troves /\ w.closedBy = b.closedBy /\ c.lColl = b.lColl /\ c.lDebt = b.lDebt
  BY <1>2, <1>4 DEF BooksKeep, BookNames
<1>6. Puts(b, c, u, how, 0, 0, 0)
  BY <1>2, <1>4, <1>5 DEF Puts, Closed
<1>7. BooksKeep(b, c, {"troves", "closedBy"})
  BY <1>2, <1>4 DEF BooksKeep
<1> QED
  BY <1>1, <1>6, <1>7

LEMMA AccountsKeptInBooks ==
    ASSUME NEW b, NEW c, NEW F, BooksKeep(b, c, F),
           F \intersect {"deposits", "losses", "gains", "tags", "surplus", "staked",
                         "balances", "frontends"} = {}
    PROVE  /\ SameAccounts(b, c)
           /\ PoolBooked(b) => PoolBooked(c)
           /\ AccountsBooked(b) => AccountsBooked(c)
<1>1. /\ c.deposits = b.deposits /\ c.losses = b.losses /\ c.gains = b.gains
      /\ c.tags = b.tags /\ c.surplus = b.surplus /\ c.staked = b.staked
      /\ c.balances = b.balances /\ c.frontends = b.frontends
  BY DEF BooksKeep, BookNames
<1> QED
  BY <1>1 DEF SameAccounts, PoolBooked, AccountsBooked

LEMMA PutBooked ==
    ASSUME NEW b, TrovesBooked(b), NEW u \in Users, NEW status, NEW coll, NEW debt, NEW stake,
           NEW c, Puts(b, c, u, status, coll, debt, stake),
           InOrderAt(b, status, coll, debt, stake)
    PROVE  TrovesBooked(c)
<1>1. c.lColl = b.lColl /\ c.lDebt = b.lDebt
  BY DEF Puts
<1>2. /\ {b.lColl, b.lDebt} \subseteq Nat /\ IsTerm(b.lColl) /\ IsTerm(b.lDebt)
      /\ b.troves = [v \in Users |-> b.troves[v]]
      /\ b.closedBy = [v \in Users |-> b.closedBy[v]]
  BY DEF TrovesBooked
<1> DEFINE x == [coll |-> coll, debt |-> debt, stake |-> stake,
                 snapColl |-> IF stake = 0 THEN 0 ELSE b.lColl,
                 snapDebt |-> IF stake = 0 THEN 0 ELSE b.lDebt]
<1>3. /\ c.troves = [v \in Users |-> IF v = u THEN x ELSE b.troves[v]]
      /\ c.closedBy = [v \in Users |-> IF v = u THEN status ELSE b.closedBy[v]]
  BY <1>2 DEF Puts
<1>4. IsBooked(c, x) /\ x.stake = stake
  <2>1. CASE stake = 0
    <3>1. x = Closed
      BY <2>1 DEF InOrderAt, Closed
    <3>2. Closed = [f \in TroveTerms |-> Closed[f]] /\ Closed.stake = 0
          /\ \A f \in TroveTerms : Closed[f] \in Nat
      BY DEF Closed, TroveTerms
    <3> HIDE DEF x
    <3> QED
      BY <2>1, <3>1, <3>2 DEF IsBooked
  <2>2. CASE stake # 0
    <3>1. /\ x.coll = coll /\ x.debt = debt /\ x.stake = stake
          /\ x.snapColl = b.lColl /\ x.snapDebt = b.lDebt
          /\ x = [f \in TroveTerms |-> x[f]]
      BY <2>2 DEF TroveTerms
    <3> HIDE DEF x
    <3>2. /\ coll = stake * (Unit + x.snapColl \div Scaling)
          /\ debt \in Nat /\ debt > 0 /\ stake \in Nat
      BY <2>2, <3>1 DEF InOrderAt, UnitNow
    <3>3. coll \in Nat
      <4>1. UnitNow(b) \in Nat
        BY <1>2, UnitIsPositive
      <4>2. coll = stake * UnitNow(b)
        BY <2>2 DEF InOrderAt
      <4> QED
        BY <3>2, <4>1, <4>2, SMT
    <3>4. \A f \in TroveTerms : x[f] \in Nat
      BY <1>2, <3>1, <3>2, <3>3 DEF TroveTerms
    <3> QED
      BY <1>1, <1>2, <2>2, <3>1, <3>2, <3>4 DEF IsBooked
  <2> QED
    BY <2>1, <2>2
<1>5. status \in Statuses /\ (status = "open" <=> stake # 0)
  BY DEF InOrderAt, Statuses
<1> HIDE DEF x
<1>6. ASSUME NEW v \in Users
      PROVE  /\ IsBooked(c, c.troves[v])
             /\ c.closedBy[v] \in Statuses
             /\ c.closedBy[v] = "open" <=> c.troves[v].stake # 0
  <2>1. CASE v = u
    BY <1>3, <1>4, <1>5, <2>1
  <2>2. CASE v # u
    <3>1. c.troves[v] = b.troves[v] /\ c.closedBy[v] = b.closedBy[v]
      BY <1>3, <2>2
    <3>2. /\ IsBooked(b, b.troves[v])
          /\ b.closedBy[v] \in Statuses
          /\ b.closedBy[v] = "open" <=> b.troves[v].stake # 0
      BY DEF TrovesBooked
    <3> QED
      BY <1>1, <3>1, <3>2 DEF IsBooked
  <2> QED
    BY <2>1, <2>2
<1>7. /\ c.troves = [v \in Users |-> c.troves[v]]
      /\ c.closedBy = [v \in Users |-> c.closedBy[v]]
  BY <1>3
<1> QED
  BY <1>1, <1>2, <1>6, <1>7 DEF TrovesBooked

LEMMA HasBooksWhenBooked ==
    ASSUME NEW b, TrovesBooked(b)
    PROVE  HasBooks(b)
BY DEF TrovesBooked, HasBooks

LEMMA HasBooksAfter ==
    ASSUME NEW b, HasBooks(b), NEW c, NEW u, NEW status, NEW coll, NEW debt, NEW stake,
           Puts(b, c, u, status, coll, debt, stake)
    PROVE  HasBooks(c)
BY DEF HasBooks, Puts

-----------------------------------------------------------------------------
(* The events of troves, replayed.                                          *)

LEMMA NumberIsNotNull == \A tx \in Nat : tx # Null
BY DEF Null

LEMMA PriceReplayed ==
    ASSUME NEW d, NEW b, NEW liq, NEW red, Follows(d, b, liq, red), NEW tx \in Nat, NEW c
    PROVE  \E r : /\ Replays(d, <<Price(c, tx)>>, r) /\ Follows(r, b, liq, red)
                  /\ liq = {} => r.state.price = c.price
<1> DEFINE e == Price(c, tx)
           r == UpdatePrice(d, e)
<1>1. e.tx # Null /\ e.name = "LastGoodPriceUpdated" /\ e.price = c.price
  BY NumberIsNotNull DEF Price
<1>2. Handle(d, e) = r
  BY <1>1 DEF Handle
<1>3. Fits(d, e)
  BY <1>1 DEF Fits, Follows
<1> HIDE DEF e
<1>4. Keeps(d, r, ChangeFields, ChainKeys) /\ ChainInv(r)
  BY <1>1, PriceHandled DEF Follows, ChangeFields
<1>a. liq = {} => Tallied(r, b, 0, 0) /\ r.state.price = c.price
  <2>1. SUFFICES ASSUME liq = {} PROVE Tallied(r, b, 0, 0) /\ r.state.price = c.price
    OBVIOUS
  <2>2. Tallied(d, b, 0, 0) /\ HasState(d) /\ IsStore(d) /\ ChainInv(d)
    BY <2>1 DEF Follows, Tallied
  <2>3. /\ HasState(r) /\ r.state.price = c.price
        /\ \A f \in TallyNames : r.state[f] = d.state[f]
    BY <1>1, <2>2, PriceSteady
  <2> HIDE DEF r
  <2>4. r.users = d.users
    BY <1>4 DEF Keeps, StoreFields, ChangeFields
  <2> QED
    BY <2>2, <2>3, <2>4, TallyStays
<1> HIDE DEF r
<1>5. Follows(r, b, liq, red)
  BY <1>4, <1>a, FollowsOn
<1>6. Replays(d, <<e>>, r)
  BY <1>2, <1>3, EventReplayed
<1> QED
  BY <1>5, <1>6, <1>a DEF e

LEMMA WordReplayed ==
    ASSUME NEW d, NEW b, NEW liq, NEW red, Follows(d, b, liq, red), HasBooks(b),
           NEW tx \in Nat, NEW op, NEW u \in Users, NEW coll, NEW debt, NEW stake,
           ~(coll = b.troves[u].coll /\ debt = b.troves[u].debt),
           b.closedBy[u] \in ClosedStatuses => StatusAfter(op, coll) = "open",
           NEW c, Puts(b, c, u, StatusAfter(op, coll), coll, debt, stake), SameAccounts(b, c),
           IsLiquidation(op) \/ Fair(b, c, op, u, coll, debt, stake)
    PROVE  \E r : /\ Replays(d, <<TroveEvent(tx, op, u, coll, debt, stake)>>, r)
                  /\ Follows(r, c, InLiquidation(op, liq, u), InRedemption(op, red, u))
                  /\ LastIsOf(r, u)
                  /\ SameUsers(d, r)
                  /\ HasState(d) => TroveTallied(d, r, op, u, coll, debt)
<1> DEFINE e == TroveEvent(tx, op, u, coll, debt, stake)
           r == UpdateTrove(d, e, op, u, coll, debt, stake)
<1>1. /\ e.tx # Null /\ e.name = "TroveUpdated"
      /\ e.operation = op /\ e.user = u /\ e.coll = coll /\ e.debt = debt /\ e.stake = stake
  BY NumberIsNotNull DEF TroveEvent
<1>2. Handle(d, e) = r
  BY <1>1 DEF Handle
<1>3. Fits(d, e)
  BY <1>1 DEF Fits, Follows
<1> HIDE DEF e
<1>4. /\ Follows(r, c, InLiquidation(op, liq, u), InRedemption(op, red, u))
      /\ LastIsOf(r, u)
      /\ SameUsers(d, r)
      /\ HasState(d) => TroveTallied(d, r, op, u, coll, debt)
  BY <1>1, WordFollowed
<1> HIDE DEF r
<1>5. Replays(d, <<e>>, r)
  BY <1>2, <1>3, EventReplayed
<1> QED
  BY <1>4, <1>5 DEF e

LEMMA PutsAgain ==
    ASSUME NEW b, HasBooks(b), NEW c, NEW f, NEW u \in Users,
           NEW status, NEW coll, NEW debt, NEW stake,
           NEW status1, NEW coll1, NEW debt1, NEW stake1,
           Puts(b, c, u, status, coll, debt, stake),
           Puts(b, f, u, status1, coll1, debt1, stake1)
    PROVE  Puts(c, f, u, status1, coll1, debt1, stake1)
<1> DEFINE x == [coll |-> coll, debt |-> debt, stake |-> stake,
                 snapColl |-> IF stake = 0 THEN 0 ELSE b.lColl,
                 snapDebt |-> IF stake = 0 THEN 0 ELSE b.lDebt]
           y == [coll |-> coll1, debt |-> debt1, stake |-> stake1,
                 snapColl |-> IF stake1 = 0 THEN 0 ELSE b.lColl,
                 snapDebt |-> IF stake1 = 0 THEN 0 ELSE b.lDebt]
<1>1. /\ c.troves = [b.troves EXCEPT ![u] = x] /\ c.closedBy = [b.closedBy EXCEPT ![u] = status]
      /\ c.lColl = b.lColl /\ c.lDebt = b.lDebt
  BY DEF Puts
<1>2. /\ f.troves = [b.troves EXCEPT ![u] = y]
      /\ f.closedBy = [b.closedBy EXCEPT ![u] = status1]
      /\ f.lColl = b.lColl /\ f.lDebt = b.lDebt
  BY DEF Puts
<1>3. y = [coll |-> coll1, debt |-> debt1, stake |-> stake1,
           snapColl |-> IF stake1 = 0 THEN 0 ELSE c.lColl,
           snapDebt |-> IF stake1 = 0 THEN 0 ELSE c.lDebt]
  BY <1>1
<1> HIDE DEF x, y
<1>4. /\ f.troves = [c.troves EXCEPT ![u] = y]
      /\ f.closedBy = [c.closedBy EXCEPT ![u] = status1]
  BY <1>1, <1>2 DEF HasBooks
<1> QED
  BY <1>1, <1>2, <1>3, <1>4 DEF Puts

LEMMA PendingReplayed ==
    ASSUME NEW d, NEW b, NEW liq, NEW red, Follows(d, b, liq, red), IsBooks(b), TrovesBooked(b),
           NEW tx \in Nat, NEW u \in Users
    PROVE  \E r, c : /\ Replays(d, Pending(b, tx, u), r)
                     /\ Follows(r, c, liq, red)
                     /\ Accrued(b, c, u)
<1> DEFINE t == b.troves[u]
           e == Entire(b, u)
<1>1. HasBooks(b)
  BY HasBooksWhenBooked
<1>2. CASE e.coll = t.coll /\ e.debt = t.debt
  <2>1. Pending(b, tx, u) = <<>>
    BY <1>2 DEF Pending
  <2>2. Replays(d, Pending(b, tx, u), d)
    BY <2>1, NothingReplayed
  <2>3. Accrued(b, b, u)
    BY <1>1, <1>2 DEF Accrued, SameAccounts
  <2> QED
    BY <2>2, <2>3
<1>3. CASE ~(e.coll = t.coll /\ e.debt = t.debt)
  <2> DEFINE c == TrovePut(b, u, e.coll, e.debt, t.stake)
             op == "accrueRewards"
  <2>1. t.stake # 0 /\ e.coll > 0 /\ e.coll \in Nat
    <3>1. t = Closed => t.coll = 0 /\ t.debt = 0
      BY DEF Closed
    <3> HIDE DEF t, e
    <3>2. /\ e.coll \in Nat /\ e.debt \in Nat
          /\ t.stake # 0 => e.coll > 0 /\ e.debt > 0
          /\ t.stake = 0 => e.coll = 0 /\ e.debt = 0 /\ t = Closed
      BY Worth DEF t, e
    <3> QED
      BY <1>3, <3>1, <3>2
  <2>2. Pending(b, tx, u) = <<TroveEvent(tx, op, u, e.coll, e.debt, t.stake)>>
    BY <1>3 DEF Pending
  <2>3. ~IsLiquidation(op) /\ ~IsRedemption(op) /\ StatusAfter(op, e.coll) = "open"
    BY <2>1 DEF IsLiquidation, IsRedemption, StatusAfter
  <2> HIDE DEF op, e
  <2>4. /\ BooksKeep(b, c, {"troves", "closedBy"})
        /\ Puts(b, c, u, "open", e.coll, e.debt, t.stake)
    BY <2>1, PutBooks
  <2> HIDE DEF c
  <2>5. SameAccounts(b, c)
    BY <2>4, AccountsKeptInBooks
  <2>a. c.losses = b.losses
    BY <2>4 DEF BooksKeep, BookNames
  <2>b. {e.coll, e.debt, t.stake} \subseteq Int
    BY Worth DEF e, TrovesBooked, IsBooked, TroveTerms
  <2>6. b.closedBy[u] = "open"
    BY <2>1 DEF TrovesBooked
  <2>7. PICK r : /\ Replays(d, <<TroveEvent(tx, op, u, e.coll, e.debt, t.stake)>>, r)
                 /\ Follows(r, c, liq, red)
    <3>1. Fair(b, c, op, u, e.coll, e.debt, t.stake)
      BY <2>a, <2>b DEF Fair, e, Entire, op
    <3> QED
      BY <1>1, <1>3, <2>3, <2>4, <2>5, <3>1, WordReplayed DEF InLiquidation, InRedemption
  <2>8. Accrued(b, c, u)
    <3>1. HasBooks(c)
      BY <1>1, <2>4, HasBooksAfter
    <3>5. IsBooks(c)
      BY <2>4 DEF BooksKeep
    <3>2. /\ c.troves[u].coll = e.coll /\ c.troves[u].debt = e.debt /\ c.closedBy[u] = "open"
          /\ c.lColl = b.lColl
      BY <1>1, <2>4 DEF Puts, HasBooks
    <3>3. \A f, status, coll, debt, stake :
             Puts(b, f, u, status, coll, debt, stake) => Puts(c, f, u, status, coll, debt, stake)
      BY <1>1, <2>4, PutsAgain
    <3>4. Entire(c, u) = Entire(b, u)
      <4>1. Entire(b, u) = [coll |-> e.coll, debt |-> e.debt]
        BY DEF e, Entire
      <4> QED
        BY <1>1, <2>4, <2>b, <4>1, EntireWhenPut
    <3> QED
      BY <2>5, <2>6, <2>a, <3>1, <3>2, <3>3, <3>4, <3>5 DEF Accrued, e
  <2> QED
    BY <2>2, <2>7, <2>8
<1> QED
  BY <1>2, <1>3

\* The change of a trove whose pending rewards are applied.
LEMMA ChangeReplayed ==
    ASSUME NEW d, NEW b, NEW c, NEW liq, NEW red, Follows(d, c, liq, red),
           NEW tx \in Nat, NEW op, NEW u \in Users, Accrued(b, c, u), NEW coll, NEW debt, NEW stake,
           ~(coll = Entire(b, u).coll /\ debt = Entire(b, u).debt),
           b.closedBy[u] \in ClosedStatuses => StatusAfter(op, coll) = "open",
           NEW f, Puts(b, f, u, StatusAfter(op, coll), coll, debt, stake), SameAccounts(b, f),
           f.losses = b.losses, {coll, debt, stake} \subseteq Int,
           IsBorrowerOperation(op) \/ IsRedemption(op)
    PROVE  \E r : /\ Replays(d, <<TroveEvent(tx, op, u, coll, debt, stake)>>, r)
                  /\ Follows(r, f, InLiquidation(op, liq, u), InRedemption(op, red, u))
                  /\ LastIsOf(r, u)
<1>1. /\ HasBooks(c)
      /\ ~(coll = c.troves[u].coll /\ debt = c.troves[u].debt)
      /\ c.closedBy[u] \in ClosedStatuses => StatusAfter(op, coll) = "open"
      /\ Puts(c, f, u, StatusAfter(op, coll), coll, debt, stake)
      /\ SameAccounts(c, f)
  BY DEF Accrued, SameAccounts
<1>2. Fair(c, f, op, u, coll, debt, stake)
  <2>1. Entire(c, u) = [coll |-> c.troves[u].coll, debt |-> c.troves[u].debt]
    BY DEF Accrued, Entire
  <2> QED
    BY <2>1 DEF Fair, Accrued
<1> QED
  BY <1>1, <1>2, WordReplayed

-----------------------------------------------------------------------------
(* The calls that change one trove.                                         *)

LEMMA TwoReplayed ==
    ASSUME NEW d, NEW m, NEW r, NEW e, NEW f, Replays(d, <<e>>, m), Replays(m, <<f>>, r)
    PROVE  Replays(d, <<e, f>>, r)
<1> DEFINE s == <<e>>
           t == <<f>>
           p == <<e, f>>
<1>1. s \in Seq({e, f}) /\ t \in Seq({e, f}) /\ p \in Seq({e, f})
  OBVIOUS
<1>2. Len(s) = 1 /\ s[1] = e /\ Len(t) = 1 /\ t[1] = f
  OBVIOUS
<1>3. Len(p) = 2 /\ p[1] = e /\ p[2] = f
  OBVIOUS
<1> HIDE DEF s, t, p
<1>4. s \o t \in Seq({e, f}) /\ Len(s \o t) = 2 /\ (s \o t)[1] = e /\ (s \o t)[2] = f
  <2>1. IsSeq(s) /\ IsSeq(t)
    BY <1>1 DEF IsSeq
  <2>2. /\ Len(s \o t) = Len(s) + Len(t)
        /\ \A i \in 1 .. Len(s) : (s \o t)[i] = s[i]
        /\ \A i \in 1 .. Len(t) : (s \o t)[Len(s) + i] = t[i]
    BY <2>1, ConcatSeq
  <2>3. 1 \in 1 .. 1 /\ 1 + 1 = 2
    OBVIOUS
  <2>4. s \o t \in Seq({e, f})
    BY <1>1
  <2> QED
    BY <1>2, <2>2, <2>3, <2>4
<1>5. \A i \in 1 .. 2 : p[i] = (s \o t)[i]
  BY <1>3, <1>4
<1>6. p = s \o t
  BY <1>1, <1>3, <1>4, <1>5
<1>7. Replays(d, s \o t, r)
  BY QueuesReplayed DEF s, t
<1> QED
  BY <1>6, <1>7 DEF p

LEMMA FeeReplayed ==
    ASSUME NEW d, NEW b, NEW liq, NEW red, Follows(d, b, liq, red), NEW u, LastIsOf(d, u),
           NEW tx, NEW fee
    PROVE  \E r : Replays(d, <<Fee(tx, u, fee)>>, r) /\ Follows(r, b, liq, red)
<1> DEFINE e == Fee(tx, u, fee)
           r == SetBorrowingFeeOfLastTroveChange(d, fee)
<1>1. e.name = "DebtTokenBorrowingFeePaid" /\ e.user = u /\ e.fee = fee
  BY DEF Fee
<1>2. Handle(d, e) = r
  BY <1>1 DEF Handle
<1>3. Fits(d, e)
  BY <1>1 DEF Fits, Follows, LastIsOf
<1> HIDE DEF e
<1>4. Keeps(d, r, {"change"}, {"totalBorrowingFeesPaid"}) /\ ChainInv(r)
  BY FeeHandled DEF Follows
<1> HIDE DEF r
<1>5. {"change"} \subseteq ChangeFields /\ "currentSystemState" # "totalBorrowingFeesPaid"
  BY DEF ChangeFields
<1>a. liq = {} => Tallied(r, b, 0, 0)
  BY <1>4, TallyKept DEF Follows
<1>6. Follows(r, b, liq, red)
  BY <1>4, <1>5, <1>a, FollowsOn
<1>7. Replays(d, <<e>>, r)
  BY <1>2, <1>3, EventReplayed
<1> QED
  BY <1>6, <1>7 DEF e

\* openTrove() and adjustTrove().
LEMMA PutReplayed ==
    ASSUME NEW d, NEW b, NEW liq, NEW red, Follows(d, b, liq, red), IsBooks(b), TrovesBooked(b),
           NEW tx \in Nat, NEW u \in Users, NEW op \in {"openTrove", "adjustTrove"},
           NEW stake \in Nat \ {0}, NEW debt \in Nat \ {0}, NEW fee,
           ~(stake * UnitNow(b) = Entire(b, u).coll /\ debt = Entire(b, u).debt)
    PROVE  LET call == PutTrove(b, tx, u, op, stake, debt, fee)
               c == call.books
           IN /\ \E r : Replays(d, call.events, r) /\ Follows(r, c, liq, red)
              /\ BooksKeep(b, c, {"troves", "closedBy"})
              /\ TrovesBooked(c)
<1> DEFINE coll == stake * UnitNow(b)
           call == PutTrove(b, tx, u, op, stake, debt, fee)
           c == TrovePut(b, u, coll, debt, stake)
           word == TroveEvent(tx, op, u, coll, debt, stake)
           before == <<Price(b, tx)>> \o Pending(b, tx, u)
<1>1. call.books = c /\ call.events = before \o <<word, Fee(tx, u, fee)>>
  BY DEF PutTrove, TrovePut
<1>2. IsTerm(b.lColl)
  BY DEF TrovesBooked
<1>3. UnitNow(b) \in Nat /\ UnitNow(b) > 0
  BY <1>2, UnitIsPositive
<1>4. coll \in Nat /\ coll # 0
  BY <1>3, SMT
<1>5. BooksKeep(b, c, {"troves", "closedBy"}) /\ Puts(b, c, u, "open", coll, debt, stake)
  BY PutBooks
<1>6. InOrderAt(b, "open", coll, debt, stake)
  BY DEF InOrderAt
<1>7. ~(coll = Entire(b, u).coll /\ debt = Entire(b, u).debt)
  OBVIOUS
<1> HIDE DEF coll, c, call
<1>8. TrovesBooked(c)
  BY <1>5, <1>6, PutBooked
<1>9. StatusAfter(op, coll) = "open" /\ ~IsLiquidation(op) /\ ~IsRedemption(op)
  BY <1>4 DEF StatusAfter, IsLiquidation, IsRedemption
<1>10. SameAccounts(b, c)
  BY <1>5, AccountsKeptInBooks
<1>11. PICK d1 : Replays(d, <<Price(b, tx)>>, d1) /\ Follows(d1, b, liq, red)
  BY PriceReplayed
<1>12. PICK d2, a : /\ Replays(d1, Pending(b, tx, u), d2)
                    /\ Follows(d2, a, liq, red)
                    /\ Accrued(b, a, u)
  BY <1>11, PendingReplayed
<1>a. c.losses = b.losses /\ {coll, debt, stake} \subseteq Int /\ IsBorrowerOperation(op)
  BY <1>4, <1>5 DEF BooksKeep, BookNames, IsBorrowerOperation
<1>13. Replays(d, before, d2)
  BY <1>11, <1>12, QueuesReplayed
<1> HIDE DEF before
<1>14. PICK d3 : Replays(d2, <<word>>, d3) /\ Follows(d3, c, liq, red) /\ LastIsOf(d3, u)
  BY <1>5, <1>7, <1>9, <1>10, <1>12, <1>a, ChangeReplayed DEF InLiquidation, InRedemption
<1> HIDE DEF word
<1>15. PICK r : Replays(d3, <<Fee(tx, u, fee)>>, r) /\ Follows(r, c, liq, red)
  BY <1>14, FeeReplayed
<1>16. Replays(d2, <<word, Fee(tx, u, fee)>>, r)
  BY <1>14, <1>15, TwoReplayed
<1>17. Replays(d, before \o <<word, Fee(tx, u, fee)>>, r)
  BY <1>13, <1>16, QueuesReplayed
<1> QED
  BY <1>1, <1>5, <1>8, <1>15, <1>17 DEF call

\* closeTrove().
LEMMA CloseReplayed ==
    ASSUME NEW d, NEW b, NEW liq, NEW red, Follows(d, b, liq, red), IsBooks(b), TrovesBooked(b),
           NEW tx \in Nat, NEW u \in Users, b.troves[u].stake # 0
    PROVE  LET call == CloseTrove(b, tx, u)
               c == call.books
           IN /\ \E r : Replays(d, call.events, r) /\ Follows(r, c, liq, red)
              /\ BooksKeep(b, c, {"troves", "closedBy"})
              /\ TrovesBooked(c)
<1> DEFINE call == CloseTrove(b, tx, u)
           c == ClosedTrove(b, u, "closedByOwner")
           word == TroveEvent(tx, "closeTrove", u, 0, 0, 0)
           before == <<Price(b, tx)>> \o Pending(b, tx, u)
<1>1. call.books = c /\ call.events = before \o <<word>>
  BY DEF CloseTrove
<1>2. BooksKeep(b, c, {"troves", "closedBy"}) /\ Puts(b, c, u, "closedByOwner", 0, 0, 0)
  BY CloseBooks
<1>3. InOrderAt(b, "closedByOwner", 0, 0, 0)
  BY DEF InOrderAt, Statuses, ClosedStatuses
<1>4. Entire(b, u).debt > 0 /\ Entire(b, u).debt \in Nat
  BY Worth
<1>5. ~(0 = Entire(b, u).coll /\ 0 = Entire(b, u).debt)
  BY <1>4
<1>6. b.closedBy[u] = "open"
  BY DEF TrovesBooked
<1> HIDE DEF c, call
<1>7. TrovesBooked(c)
  BY <1>2, <1>3, PutBooked
<1>8. /\ StatusAfter("closeTrove", 0) = "closedByOwner"
      /\ ~IsLiquidation("closeTrove") /\ ~IsRedemption("closeTrove")
  BY DEF StatusAfter, IsLiquidation, IsRedemption
<1>9. SameAccounts(b, c)
  BY <1>2, AccountsKeptInBooks
<1>10. PICK d1 : Replays(d, <<Price(b, tx)>>, d1) /\ Follows(d1, b, liq, red)
  BY PriceReplayed
<1>11. PICK d2, a : /\ Replays(d1, Pending(b, tx, u), d2)
                    /\ Follows(d2, a, liq, red)
                    /\ Accrued(b, a, u)
  BY <1>10, PendingReplayed
<1>12. Replays(d, before, d2)
  BY <1>10, <1>11, QueuesReplayed
<1> HIDE DEF before
<1>13. b.closedBy[u] \in ClosedStatuses => StatusAfter("closeTrove", 0) = "open"
  BY <1>6 DEF ClosedStatuses
<1>14. Puts(b, c, u, StatusAfter("closeTrove", 0), 0, 0, 0)
  BY <1>2, <1>8
<1>a. c.losses = b.losses /\ {0, 0, 0} \subseteq Int /\ IsBorrowerOperation("closeTrove")
  BY <1>2 DEF BooksKeep, BookNames, IsBorrowerOperation
<1>15. PICK r : Replays(d2, <<word>>, r) /\ Follows(r, c, liq, red)
  BY <1>5, <1>8, <1>9, <1>11, <1>13, <1>14, <1>a, ChangeReplayed DEF InLiquidation, InRedemption
<1> HIDE DEF word
<1>16. Replays(d, before \o <<word>>, r)
  BY <1>12, <1>15, QueuesReplayed
<1> QED
  BY <1>1, <1>2, <1>7, <1>15, <1>16 DEF call

-----------------------------------------------------------------------------
(* Calls that go through one trove or two.                                  *)

LEMMA Tops ==
    /\ Max({1}) = 1 /\ Max({2}) = 2 /\ Max({1, 2}) = 2
    /\ {1} \ {1} = {} /\ {2} \ {2} = {} /\ {1, 2} \ {2} = {1}
    /\ SUBSET {1} = {{}, {1}}
    /\ SUBSET {1, 2} = {{}, {1}, {2}, {1, 2}}
<1>1. \A x \in {1} : \A y \in {1} : x >= y
  OBVIOUS
<1>2. Max({1}) \in {1}
  BY <1>1 DEF Max
<1>3. Max({2}) \in {2}
  <2>1. \A x \in {2} : \A y \in {2} : x >= y
    OBVIOUS
  <2> QED
    BY <2>1 DEF Max
<1>4. Max({1, 2}) = 2
  <2>1. 2 \in {1, 2} /\ \A y \in {1, 2} : 2 >= y
    OBVIOUS
  <2>2. Max({1, 2}) \in {1, 2} /\ \A y \in {1, 2} : Max({1, 2}) >= y
    BY <2>1 DEF Max
  <2> QED
    BY <2>2
<1> QED
  BY <1>2, <1>3, <1>4

LEMMA LiquidationFolds ==
    ASSUME NEW b, NEW tx, NEW us, NEW op
    PROVE  LiquidateTroves(b, tx, us, op)
              = (CHOOSE g : LiquidationRounds(g, b, tx, us, op))[DOMAIN us]
BY DEF LiquidateTroves, FoldLeft, MapThenFoldSet, LiquidationRounds, LiquidationRound,
       LiquidationStart

LEMMA LiquidatesOne ==
    ASSUME NEW b, NEW tx, NEW u, NEW op
    PROVE  LiquidateTroves(b, tx, <<u>>, op)
              = LiquidateOne(LiquidationStart(b, tx), tx, u, op)
<1> DEFINE us == <<u>>
           start == LiquidationStart(b, tx)
           one == LiquidateOne(start, tx, u, op)
           h == [s \in {{}, {1}} |-> IF s = {} THEN start ELSE one]
<1>1. DOMAIN us = {1} /\ us[1] = u
  OBVIOUS
<1>2. h[{}] = start /\ h[{1}] = one
  OBVIOUS
<1> HIDE DEF us, start
<1>3. LiquidationRound(h, b, tx, us, op, {}) = start
  BY DEF LiquidationRound, start
<1>4. LiquidationRound(h, b, tx, us, op, {1}) = one
  BY <1>1, <1>2, Tops DEF LiquidationRound
<1> HIDE DEF one
<1>5. LiquidationRounds(h, b, tx, us, op)
  BY <1>1, <1>3, <1>4, Tops DEF LiquidationRounds
<1> HIDE DEF h
<1> DEFINE g == CHOOSE f : LiquidationRounds(f, b, tx, us, op)
<1>6. LiquidationRounds(g, b, tx, us, op)
  BY <1>5
<1>7. LiquidateTroves(b, tx, us, op) = g[{1}]
  BY <1>1, LiquidationFolds
<1> HIDE DEF g
<1>8. \A s \in {{}, {1}} : g[s] = LiquidationRound(g, b, tx, us, op, s)
  BY <1>1, <1>6, Tops DEF LiquidationRounds
<1>9. g[{}] = start /\ g[{1}] = LiquidateOne(g[{}], tx, u, op)
  BY <1>1, <1>8, Tops DEF LiquidationRound, start
<1> QED
  BY <1>7, <1>9 DEF us, start

LEMMA LiquidatesTwo ==
    ASSUME NEW b, NEW tx, NEW u, NEW v, NEW op
    PROVE  LiquidateTroves(b, tx, <<u, v>>, op)
              = LiquidateOne(LiquidateOne(LiquidationStart(b, tx), tx, u, op), tx, v, op)
<1> DEFINE us == <<u, v>>
           start == LiquidationStart(b, tx)
           one == LiquidateOne(start, tx, u, op)
           other == LiquidateOne(start, tx, v, op)
           two == LiquidateOne(one, tx, v, op)
           h == [s \in {{}, {1}, {2}, {1, 2}} |-> IF s = {} THEN start
                                                  ELSE IF s = {1} THEN one
                                                  ELSE IF s = {2} THEN other ELSE two]
<1>1. DOMAIN us = {1, 2} /\ us[1] = u /\ us[2] = v
  OBVIOUS
<1>2. {1} # {} /\ {2} # {} /\ {1, 2} # {} /\ {1} # {2} /\ {1} # {1, 2} /\ {2} # {1, 2}
  OBVIOUS
<1>3. h[{}] = start /\ h[{1}] = one /\ h[{2}] = other /\ h[{1, 2}] = two
  BY <1>2
<1> HIDE DEF us, start
<1>4. LiquidationRound(h, b, tx, us, op, {}) = start
  BY DEF LiquidationRound, start
<1>5. LiquidationRound(h, b, tx, us, op, {1}) = one
  BY <1>1, <1>2, <1>3, Tops DEF LiquidationRound
<1>6. LiquidationRound(h, b, tx, us, op, {2}) = other
  BY <1>1, <1>2, <1>3, Tops DEF LiquidationRound
<1>7. LiquidationRound(h, b, tx, us, op, {1, 2}) = two
  BY <1>1, <1>2, <1>3, Tops DEF LiquidationRound
<1> HIDE DEF one, other, two
<1>8. LiquidationRounds(h, b, tx, us, op)
  <2>1. h = [s \in {{}, {1}, {2}, {1, 2}} |-> h[s]]
    OBVIOUS
  <2> HIDE DEF h
  <2>2. \A s \in {{}, {1}, {2}, {1, 2}} : h[s] = LiquidationRound(h, b, tx, us, op, s)
    BY <1>3, <1>4, <1>5, <1>6, <1>7
  <2>3. SUBSET DOMAIN us = {{}, {1}, {2}, {1, 2}}
    BY <1>1, Tops
  <2> DEFINE D == {{}, {1}, {2}, {1, 2}}
  <2> HIDE DEF D
  <2>4. h = [s \in D |-> LiquidationRound(h, b, tx, us, op, s)]
    BY <2>1, <2>2 DEF D
  <2> QED
    BY <2>3, <2>4 DEF LiquidationRounds, D
<1> HIDE DEF h
<1> DEFINE g == CHOOSE f : LiquidationRounds(f, b, tx, us, op)
<1>9. LiquidationRounds(g, b, tx, us, op)
  BY <1>8
<1>10. LiquidateTroves(b, tx, us, op) = g[{1, 2}]
  BY <1>1, LiquidationFolds
<1> HIDE DEF g
<1>11. \A s \in {{}, {1}, {2}, {1, 2}} : g[s] = LiquidationRound(g, b, tx, us, op, s)
  BY <1>1, <1>9, Tops DEF LiquidationRounds
<1>12. g[{}] = start /\ g[{1}] = LiquidateOne(g[{}], tx, u, op)
  BY <1>1, <1>2, <1>11, Tops DEF LiquidationRound, start
<1>13. g[{1, 2}] = LiquidateOne(g[{1}], tx, v, op)
  BY <1>1, <1>2, <1>11, Tops DEF LiquidationRound
<1> QED
  BY <1>10, <1>12, <1>13 DEF us, start

LEMMA RedemptionFolds ==
    ASSUME NEW b, NEW tx, NEW us, NEW stake, NEW debt
    PROVE  Redeem(b, tx, us, stake, debt)
              = RedemptionEnd((CHOOSE g : RedemptionRounds(g, b, tx, us, stake, debt))[DOMAIN us],
                              tx)
BY DEF Redeem, FoldLeft, MapThenFoldSet, RedemptionRounds, RedemptionRound,
       RedemptionStart, RedemptionEnd

LEMMA RedeemsOne ==
    ASSUME NEW b, NEW tx, NEW u, NEW stake, NEW debt
    PROVE  Redeem(b, tx, <<u>>, stake, debt)
              = RedemptionEnd(RedeemOne(RedemptionStart(b, tx), tx, u, stake, debt), tx)
<1> DEFINE us == <<u>>
           start == RedemptionStart(b, tx)
           one == RedeemOne(start, tx, u, stake, debt)
           h == [s \in {{}, {1}} |-> IF s = {} THEN start ELSE one]
<1>1. DOMAIN us = {1} /\ us[1] = u /\ Last(us) = u
  BY DEF Last
<1>2. h[{}] = start /\ h[{1}] = one
  OBVIOUS
<1> HIDE DEF us, start
<1>3. RedemptionRound(h, b, tx, us, stake, debt, {}) = start
  BY DEF RedemptionRound, start
<1>4. RedemptionRound(h, b, tx, us, stake, debt, {1}) = one
  BY <1>1, <1>2, Tops DEF RedemptionRound
<1> HIDE DEF one
<1>5. RedemptionRounds(h, b, tx, us, stake, debt)
  BY <1>1, <1>3, <1>4, Tops DEF RedemptionRounds
<1> HIDE DEF h
<1> DEFINE g == CHOOSE f : RedemptionRounds(f, b, tx, us, stake, debt)
<1>6. RedemptionRounds(g, b, tx, us, stake, debt)
  BY <1>5
<1>7. Redeem(b, tx, us, stake, debt) = RedemptionEnd(g[{1}], tx)
  BY <1>1, RedemptionFolds
<1> HIDE DEF g
<1>8. \A s \in {{}, {1}} : g[s] = RedemptionRound(g, b, tx, us, stake, debt, s)
  BY <1>1, <1>6, Tops DEF RedemptionRounds
<1>9. g[{}] = start /\ g[{1}] = RedeemOne(g[{}], tx, u, stake, debt)
  BY <1>1, <1>8, Tops DEF RedemptionRound, start
<1> QED
  BY <1>7, <1>9 DEF us, start

LEMMA RedeemsTwo ==
    ASSUME NEW b, NEW tx, NEW u, NEW v, u # v, NEW stake, NEW debt
    PROVE  Redeem(b, tx, <<u, v>>, stake, debt)
              = RedemptionEnd(RedeemOne(RedeemOne(RedemptionStart(b, tx), tx, u, stake, 0),
                                        tx, v, stake, debt), tx)
<1> DEFINE us == <<u, v>>
           start == RedemptionStart(b, tx)
           one == RedeemOne(start, tx, u, stake, 0)
           other == RedeemOne(start, tx, v, stake, debt)
           two == RedeemOne(one, tx, v, stake, debt)
           h == [s \in {{}, {1}, {2}, {1, 2}} |-> IF s = {} THEN start
                                                  ELSE IF s = {1} THEN one
                                                  ELSE IF s = {2} THEN other ELSE two]
<1>1. DOMAIN us = {1, 2} /\ us[1] = u /\ us[2] = v /\ Last(us) = v
  BY DEF Last
<1>2. {1} # {} /\ {2} # {} /\ {1, 2} # {} /\ {1} # {2} /\ {1} # {1, 2} /\ {2} # {1, 2}
  OBVIOUS
<1>3. h[{}] = start /\ h[{1}] = one /\ h[{2}] = other /\ h[{1, 2}] = two
  BY <1>2
<1> HIDE DEF us, start
<1>4. RedemptionRound(h, b, tx, us, stake, debt, {}) = start
  BY DEF RedemptionRound, start
<1>5. RedemptionRound(h, b, tx, us, stake, debt, {1}) = one
  BY <1>1, <1>2, <1>3, Tops DEF RedemptionRound
<1>6. RedemptionRound(h, b, tx, us, stake, debt, {2}) = other
  BY <1>1, <1>2, <1>3, Tops DEF RedemptionRound
<1>7. RedemptionRound(h, b, tx, us, stake, debt, {1, 2}) = two
  BY <1>1, <1>2, <1>3, Tops DEF RedemptionRound
<1> HIDE DEF one, other, two
<1>8. RedemptionRounds(h, b, tx, us, stake, debt)
  <2>1. h = [s \in {{}, {1}, {2}, {1, 2}} |-> h[s]]
    OBVIOUS
  <2> HIDE DEF h
  <2>2. \A s \in {{}, {1}, {2}, {1, 2}} : h[s] = RedemptionRound(h, b, tx, us, stake, debt, s)
    BY <1>3, <1>4, <1>5, <1>6, <1>7
  <2>3. SUBSET DOMAIN us = {{}, {1}, {2}, {1, 2}}
    BY <1>1, Tops
  <2> DEFINE D == {{}, {1}, {2}, {1, 2}}
  <2> HIDE DEF D
  <2>4. h = [s \in D |-> RedemptionRound(h, b, tx, us, stake, debt, s)]
    BY <2>1, <2>2 DEF D
  <2> QED
    BY <2>3, <2>4 DEF RedemptionRounds, D
<1> HIDE DEF h
<1> DEFINE g == CHOOSE f : RedemptionRounds(f, b, tx, us, stake, debt)
<1>9. RedemptionRounds(g, b, tx, us, stake, debt)
  BY <1>8
<1>10. Redeem(b, tx, us, stake, debt) = RedemptionEnd(g[{1, 2}], tx)
  BY <1>1, RedemptionFolds
<1> HIDE DEF g
<1>11. \A s \in {{}, {1}, {2}, {1, 2}} : g[s] = RedemptionRound(g, b, tx, us, stake, debt, s)
  BY <1>1, <1>9, Tops DEF RedemptionRounds
<1>12. g[{}] = start /\ g[{1}] = RedeemOne(g[{}], tx, u, stake, 0)
  BY <1>1, <1>2, <1>11, Tops DEF RedemptionRound, start
<1>13. g[{1, 2}] = RedeemOne(g[{1}], tx, v, stake, debt)
  BY <1>1, <1>2, <1>11, Tops DEF RedemptionRound
<1> QED
  BY <1>10, <1>12, <1>13 DEF us, start

-----------------------------------------------------------------------------
(* Redemptions.                                                             *)

LEMMA AppendReplayed ==
    ASSUME NEW d, NEW m, NEW r, NEW s, NEW e, Replays(d, s, m), Replays(m, <<e>>, r)
    PROVE  Replays(d, Append(s, e), r)
<1>1. IsSeq(s)
  BY DEF Replays
<1>2. PICK S : s \in Seq(S)
  BY <1>1 DEF IsSeq
<1> DEFINE W == S \union {e}
           t == <<e>>
<1>3. s \in Seq(W) /\ t \in Seq(W) /\ Len(t) = 1 /\ t[1] = e /\ e \in W
  BY <1>2
<1> HIDE DEF W, t
<1>4. /\ Append(s, e) \in Seq(W) /\ Len(Append(s, e)) = Len(s) + 1
      /\ \A i \in 1 .. Len(s) : Append(s, e)[i] = s[i]
      /\ Append(s, e)[Len(s) + 1] = e
      /\ Len(s) \in Nat
  BY <1>3
<1>5. s \o t \in Seq(W)
  BY <1>3
<1>6. /\ Len(s \o t) = Len(s) + 1
      /\ \A i \in 1 .. Len(s) : (s \o t)[i] = s[i]
      /\ (s \o t)[Len(s) + 1] = e
  <2>1. IsSeq(t)
    BY <1>3 DEF IsSeq
  <2>2. /\ Len(s \o t) = Len(s) + Len(t)
        /\ \A i \in 1 .. Len(s) : (s \o t)[i] = s[i]
        /\ \A i \in 1 .. Len(t) : (s \o t)[Len(s) + i] = t[i]
    BY <1>1, <2>1, ConcatSeq
  <2>3. 1 \in 1 .. 1
    OBVIOUS
  <2> QED
    BY <1>3, <2>2, <2>3
<1>7. \A i \in 1 .. (Len(s) + 1) : Append(s, e)[i] = (s \o t)[i]
  BY <1>4, <1>6
<1>8. Append(s, e) = s \o t
  BY <1>4, <1>5, <1>6, <1>7
<1>9. Replays(d, s \o t, r)
  BY QueuesReplayed DEF t
<1> QED
  BY <1>8, <1>9

LEMMA SurplusBookWritten ==
    ASSUME NEW b, IsBooks(b), NEW u, NEW x
    PROVE  LET c == WithSurplus(b, u, x)
           IN BooksKeep(b, c, {"surplus"}) /\ c.surplus = Replaced(b.surplus, u, x)
<1> DEFINE t == [b.surplus EXCEPT ![u] = x]
           c == WithSurplus(b, u, x)
<1>1. c = [b EXCEPT !.surplus = t]
  BY DEF WithSurplus
<1> HIDE DEF c
<1> HIDE DEF t
<1>2. BooksKeep(b, c, {"surplus"}) /\ c.surplus = t
  BY <1>1 DEF IsBooks, BooksKeep, BookNames
<1> QED
  BY <1>2 DEF t, c, Replaced

LEMMA SurplusReplayed ==
    ASSUME NEW d, NEW b, NEW red, Follows(d, b, {}, red), IsBooks(b),
           NEW tx \in Nat, NEW u \in Users, NEW c, c.surplus[u] \in Int
    PROVE  \E r : /\ Replays(d, <<Surplus(c, tx, u)>>, r)
                  /\ Follows(r, WithSurplus(b, u, c.surplus[u]), {}, red)
<1> DEFINE e == Surplus(c, tx, u)
           r == UpdateUserClaimColl(d, e)
           F == ChangeFields \union {"users"}
           f == WithSurplus(b, u, c.surplus[u])
<1>0. f = WithSurplus(b, u, c.surplus[u])
  OBVIOUS
<1> HIDE DEF f
<1>a. BooksKeep(b, f, {"surplus"}) /\ f.surplus = Replaced(b.surplus, u, c.surplus[u])
  BY <1>0, SurplusBookWritten
<1>b. Tallied(d, b, 0, 0) /\ HasState(d)
  BY DEF Follows, Tallied
<1>1. e.tx # Null /\ e.name = "CollBalanceUpdated" /\ e.user = u /\ e.amount = c.surplus[u]
  BY NumberIsNotNull DEF Surplus
<1>2. Handle(d, e) = r
  BY <1>1 DEF Handle
<1>3. Fits(d, e)
  BY <1>1 DEF Fits, Follows
<1> HIDE DEF e
<1>4. /\ Keeps(d, r, F, ChainKeys)
      /\ ChainInv(r)
      /\ r.users = [d.users EXCEPT ![u] = [collSurplus |-> e.amount,
                                           frontend    |-> d.users[u].frontend]]
  BY <1>1, SurplusHandled DEF Follows
<1>c. Moves(d, r, Only("collSurplusPoolBalance", c.surplus[u] - b.surplus[u]))
  BY <1>1, <1>b, SurplusMoves DEF Follows, Tallied
<1> HIDE DEF r
<1>5. /\ d.users = [v \in Users |-> [collSurplus |-> d.users[v].collSurplus,
                                     frontend    |-> d.users[v].frontend]]
  BY DEF Follows, HasAccounts
<1>6. \A v \in Users : r.users[v].frontend = d.users[v].frontend
  BY <1>4, <1>5
<1>7. r.users = [v \in Users |-> [collSurplus |-> r.users[v].collSurplus,
                                  frontend    |-> r.users[v].frontend]]
  BY <1>4, <1>5
<1>8. /\ r.deposits = d.deposits /\ r.stakes = d.stakes /\ r.token = d.token
      /\ r.frontends = d.frontends /\ IsStore(r)
  BY <1>4 DEF Keeps, StoreFields, ChangeFields
<1>9. HasAccounts(r)
  BY <1>7, <1>8 DEF Follows, HasAccounts
<1>10. DepositSide(r, b)
  BY <1>6, <1>8 DEF Follows, DepositSide, DepositFollows
<1>d. Tallied(r, f, 0, 0)
  <2>1. /\ f.troves = b.troves /\ f.lColl = b.lColl /\ f.lDebt = b.lDebt
        /\ f.deposits = b.deposits /\ f.losses = b.losses /\ f.staked = b.staked
    BY <1>a DEF BooksKeep, BookNames
  <2>2. b.surplus \in [Users -> Int] /\ \A v \in Users : d.users[v].collSurplus = b.surplus[v]
    BY <1>b DEF Tallied
  <2>3. f.surplus \in [Users -> Int] /\ \A v \in Users : r.users[v].collSurplus = f.surplus[v]
    BY <1>1, <1>4, <1>5, <1>a, <2>2 DEF Replaced
  <2>4. \A g \in TallyNames, v \in Users :
           Parts(f)[g][v] = Parts(b)[g][v] + (IF v = u
              THEN Only("collSurplusPoolBalance", c.surplus[u] - b.surplus[u])[g] ELSE 0)
    <3> TAKE g \in TallyNames, v \in Users
    <3>1. Parts(b)[g][v] \in Int
      BY <1>b DEF Tallied
    <3>2. CASE g = "collSurplusPoolBalance"
      <4>1. Parts(f)[g][v] = f.surplus[v] /\ Parts(b)[g][v] = b.surplus[v]
        BY <3>2 DEF Parts
      <4> QED
        BY <1>a, <2>2, <3>2, <4>1 DEF Only, Replaced
    <3>3. CASE g # "collSurplusPoolBalance"
      <4>1. Parts(f)[g] = Parts(b)[g]
        BY <2>1, <3>3 DEF Parts, Entire, Compounded, TallyNames
      <4> QED
        BY <3>1, <3>3, <4>1 DEF Only
    <3> QED
      BY <3>2, <3>3
  <2> QED
    BY <1>b, <1>c, <2>3, <2>4, TallyMoves
<1>11. /\ F \intersect {"troves", "stakes", "token", "liquidation", "redemption"} = {}
       /\ ChainKeys \intersect (TroveCounters \union CallKeys \union StakeCounters
                    \union {"rawTotalRedistributedCollateral", "rawTotalRedistributedDebt",
                            "tmpDepositUpdate"}) = {}
  BY DEF ChangeFields, ChainKeys, TroveCounters, CallKeys, StakeCounters
<1> HIDE DEF F
<1>12. TroveSide(r, b)
  BY <1>4, <1>11, TrovesKept DEF Follows
<1>13. StakeSide(r, b) /\ TokenSide(r, b) /\ CallSide(r, {}, red)
  BY <1>4, <1>11, StakesKept, TokensKept, CallsKept DEF Follows
<1>14. Follows(r, f, {}, red)
  <2>1. TroveSide(r, f) /\ DepositSide(r, f) /\ StakeSide(r, f) /\ TokenSide(r, f)
    BY <1>a, <1>10, <1>12, <1>13, SameTroves, SameDeposits, SameStakes, SameTokens
       DEF BooksKeep, BookNames
  <2> QED
    BY <1>4, <1>8, <1>9, <1>13, <1>d, <2>1 DEF Follows
<1>15. Replays(d, <<e>>, r)
  BY <1>2, <1>3, EventReplayed
<1> QED
  BY <1>14, <1>15 DEF e, f

LEMMA RedeemBooks ==
    ASSUME NEW b, IsBooks(b), TrovesBooked(b), NEW u \in Users, b.troves[u].stake # 0,
           NEW stake \in Nat, NEW debt \in Nat, debt # 0 => stake # 0
    PROVE  LET c == RedeemedBooks(b, u, stake, debt)
               coll == IF debt = 0 THEN 0 ELSE stake * UnitNow(b)
           IN /\ BooksKeep(b, c, {"troves", "closedBy", "surplus"})
              /\ Puts(b, c, u, StatusAfter("redeemCollateral", coll), coll, debt,
                      IF debt = 0 THEN 0 ELSE stake)
              /\ TrovesBooked(c)
              /\ c.surplus = IF debt = 0 THEN Replaced(b.surplus, u, b.surplus[u] + 1)
                             ELSE b.surplus
<1> DEFINE c == RedeemedBooks(b, u, stake, debt)
<1>1. CASE debt = 0
  <2> DEFINE m == ClosedTrove(b, u, "closedByRedemption")
  <2>1. BooksKeep(b, m, {"troves", "closedBy"}) /\ Puts(b, m, u, "closedByRedemption", 0, 0, 0)
    BY CloseBooks
  <2> HIDE DEF m
  <2>2. c = WithSurplus(m, u, m.surplus[u] + 1)
    BY <1>1 DEF RedeemedBooks, m
  <2>3. IsBooks(m)
    BY <2>1 DEF BooksKeep
  <2> HIDE DEF c
  <2>4. BooksKeep(m, c, {"surplus"}) /\ c.surplus = Replaced(m.surplus, u, m.surplus[u] + 1)
    BY <2>2, <2>3, SurplusBookWritten
  <2>a. m.surplus = b.surplus
    BY <2>1 DEF BooksKeep, BookNames
  <2>5. BooksKeep(b, c, {"troves", "closedBy", "surplus"})
    BY <2>1, <2>4 DEF BooksKeep
  <2>6. /\ c.troves = m.troves /\ c.closedBy = m.closedBy
        /\ c.lColl = m.lColl /\ c.lDebt = m.lDebt
    BY <2>4 DEF BooksKeep, BookNames
  <2>7. Puts(b, c, u, "closedByRedemption", 0, 0, 0)
    BY <2>1, <2>6 DEF Puts
  <2>8. StatusAfter("redeemCollateral", 0) = "closedByRedemption"
    BY DEF StatusAfter, IsLiquidation, IsRedemption
  <2>9. InOrderAt(b, "closedByRedemption", 0, 0, 0)
    BY DEF InOrderAt, Statuses, ClosedStatuses
  <2>10. TrovesBooked(c)
    BY <2>7, <2>9, PutBooked
  <2> QED
    BY <1>1, <2>4, <2>5, <2>7, <2>8, <2>10, <2>a DEF c
<1>2. CASE debt # 0
  <2> DEFINE coll == stake * UnitNow(b)
             x == [coll |-> coll, debt |-> debt, stake |-> stake,
                   snapColl |-> b.lColl, snapDebt |-> b.lDebt]
  <2>1. c = WithTrove(b, u, x)
    BY <1>2 DEF RedeemedBooks, Written, WithTrove
  <2> HIDE DEF c, x
  <2>2. BooksKeep(b, c, {"troves"}) /\ c.troves = [b.troves EXCEPT ![u] = x]
    BY <2>1, TroveBookWritten
  <2>3. BooksKeep(b, c, {"troves", "closedBy", "surplus"})
    BY <2>2 DEF BooksKeep
  <2>4. b.closedBy = [v \in Users |-> b.closedBy[v]] /\ b.closedBy[u] = "open"
    BY DEF TrovesBooked
  <2>5. /\ c.closedBy = [b.closedBy EXCEPT ![u] = "open"]
        /\ c.lColl = b.lColl /\ c.lDebt = b.lDebt /\ c.surplus = b.surplus
    BY <2>2, <2>4 DEF BooksKeep, BookNames
  <2>6. Puts(b, c, u, "open", coll, debt, stake)
    BY <1>2, <2>2, <2>5 DEF Puts, x
  <2>7. InOrderAt(b, "open", coll, debt, stake)
    BY <1>2 DEF InOrderAt
  <2>8. TrovesBooked(c)
    BY <2>6, <2>7, PutBooked
  <2>9. StatusAfter("redeemCollateral", coll) = "open"
    <3>1. UnitNow(b) \in Nat \ {0}
      BY UnitIsPositive DEF TrovesBooked
    <3>2. coll # 0
      BY <1>2, <3>1, SMT
    <3>3. \A n : n # 0 => StatusAfter("redeemCollateral", n) = "open"
      BY DEF StatusAfter
    <3> HIDE DEF coll
    <3> QED
      BY <3>2, <3>3
  <2> QED
    BY <1>2, <2>3, <2>5, <2>6, <2>8, <2>9 DEF c
<1> QED
  BY <1>1, <1>2

LEMMA AccruedWithSurplus ==
    ASSUME NEW b, NEW a, NEW u, Accrued(b, a, u), NEW b1, BooksKeep(b, b1, {"surplus"}),
           NEW a1, BooksKeep(a, a1, {"surplus"}), a1.surplus = b1.surplus
    PROVE  Accrued(b1, a1, u)
<1>1. /\ b1.troves = b.troves /\ b1.closedBy = b.closedBy
      /\ b1.lColl = b.lColl /\ b1.lDebt = b.lDebt
      /\ a1.troves = a.troves /\ a1.closedBy = a.closedBy
      /\ a1.lColl = a.lColl /\ a1.lDebt = a.lDebt /\ a1.losses = a.losses /\ b1.losses = b.losses
  BY DEF BooksKeep, BookNames
<1>2. SameAccounts(b1, a1) /\ IsBooks(a1)
  BY DEF Accrued, SameAccounts, BooksKeep, BookNames
<1>3. Entire(a1, u) = Entire(a, u) /\ Entire(b1, u) = Entire(b, u)
  BY <1>1 DEF Entire
<1>4. HasBooks(a1)
  BY <1>1 DEF Accrued, HasBooks
<1>5. \A f, status, coll, debt, stake :
         Puts(b1, f, u, status, coll, debt, stake) => Puts(a1, f, u, status, coll, debt, stake)
  <2> TAKE f, status, coll, debt, stake
  <2>1. Puts(b, f, u, status, coll, debt, stake) => Puts(a, f, u, status, coll, debt, stake)
    BY DEF Accrued
  <2> QED
    BY <1>1, <2>1 DEF Puts
<1> QED
  BY <1>1, <1>2, <1>3, <1>4, <1>5 DEF Accrued

\* One trove of a redemption, replayed after the ones before it.
LEMMA RedeemStep ==
    ASSUME NEW d0, NEW d, NEW step, NEW red,
           IsBooks(step.books), TrovesBooked(step.books),
           Replays(d0, step.events, d), Follows(d, step.books, {}, red),
           NEW tx \in Nat, NEW u \in Users, step.books.troves[u].stake # 0,
           NEW stake \in Nat, NEW debt \in Nat,
           debt # 0 => stake # 0 /\ debt # Entire(step.books, u).debt
    PROVE  RedeemedTo(d0, RedeemOne(step, tx, u, stake, debt),
                      RedeemedBooks(step.books, u, stake, debt), red \union {u})
<1> DEFINE b == step.books
           s == RedeemOne(step, tx, u, stake, debt)
           c == RedeemedBooks(b, u, stake, debt)
           left == ClosedTrove(b, u, "closedByRedemption")
           left1 == [left EXCEPT !.surplus[u] = @ + 1]
           op == "redeemCollateral"
           coll == IF debt = 0 THEN 0 ELSE stake * UnitNow(b)
           stake1 == IF debt = 0 THEN 0 ELSE stake
           word == TroveEvent(tx, op, u, coll, debt, stake1)
           before == step.events \o Pending(b, tx, u)
<1>1. s.books = c
  BY DEF RedeemOne, RedeemedBooks, WithSurplus
<1>2. s.events = before \o (IF debt = 0 THEN <<Surplus(left1, tx, u), word>> ELSE <<word>>)
  <2>1. left1 = [ClosedTrove(b, u, "closedByRedemption") EXCEPT !.surplus[u] = @ + 1]
    OBVIOUS
  <2> HIDE DEF left1
  <2> QED
    BY <2>1 DEF RedeemOne
<1> HIDE DEF s, left1, left
<1>3. /\ BooksKeep(b, c, {"troves", "closedBy", "surplus"})
      /\ Puts(b, c, u, StatusAfter(op, coll), coll, debt, stake1)
      /\ c.surplus = IF debt = 0 THEN Replaced(b.surplus, u, b.surplus[u] + 1)
                     ELSE b.surplus
  BY RedeemBooks
<1> HIDE DEF c
<1>a. {coll, debt, stake1} \subseteq Int
  <2>1. UnitNow(b) \in Nat
    BY UnitIsPositive DEF TrovesBooked
  <2> HIDE DEF b
  <2>2. stake * UnitNow(b) \in Int
    BY <2>1
  <2> QED
    BY <2>2
<1>b. b.surplus \in [Users -> Int]
  BY DEF Follows, Tallied
<1>4. Entire(b, u).debt > 0 /\ Entire(b, u).debt \in Nat
  BY Worth
<1>5. ~(coll = Entire(b, u).coll /\ debt = Entire(b, u).debt)
  BY <1>4
<1>6. b.closedBy[u] = "open"
  BY DEF TrovesBooked
<1>7. b.closedBy[u] \in ClosedStatuses => StatusAfter(op, coll) = "open"
  BY <1>6 DEF ClosedStatuses
<1>c. IsRedemption(op) /\ IsBooks(b)
  BY DEF IsRedemption
<1>9. InLiquidation(op, {}, u) = {} /\ InRedemption(op, red, u) = red \union {u}
  BY DEF InLiquidation, InRedemption, IsLiquidation, IsRedemption
<1> HIDE DEF b, coll, stake1, op
<1>10. PICK d2, a : /\ Replays(d, Pending(b, tx, u), d2)
                    /\ Follows(d2, a, {}, red)
                    /\ Accrued(b, a, u)
  BY PendingReplayed DEF b
<1>11. Replays(d0, before, d2)
  BY <1>10, QueuesReplayed
<1>14. ASSUME NEW m, NEW b1, NEW a1, Follows(m, a1, {}, red), Accrued(b1, a1, u),
              BooksKeep(b, b1, {"surplus"}), c.surplus = b1.surplus
       PROVE  \E r : Replays(m, <<word>>, r) /\ Follows(r, c, {}, red \union {u})
  <2>2. /\ b1.troves = b.troves /\ b1.closedBy = b.closedBy
        /\ b1.lColl = b.lColl /\ b1.lDebt = b.lDebt
    BY <1>14 DEF BooksKeep, BookNames
  <2>3. SameAccounts(b1, c) /\ c.losses = b1.losses
    BY <1>3, <1>14 DEF BooksKeep, BookNames, SameAccounts
  <2>4. Entire(b1, u) = Entire(b, u)
    BY <2>2 DEF Entire
  <2>5. Puts(b1, c, u, StatusAfter(op, coll), coll, debt, stake1)
    BY <1>3, <2>2 DEF Puts
  <2>1. PICK r : /\ Replays(m, <<TroveEvent(tx, op, u, coll, debt, stake1)>>, r)
                 /\ Follows(r, c, InLiquidation(op, {}, u), InRedemption(op, red, u))
    BY <1>5, <1>7, <1>14, <1>a, <1>c, <2>2, <2>3, <2>4, <2>5, ChangeReplayed
  <2> QED
    BY <1>9, <2>1
<1>12. CASE debt = 0
  <2> DEFINE x == b.surplus[u] + 1
             b1 == WithSurplus(b, u, x)
             a1 == WithSurplus(a, u, x)
  <2>5. left1.surplus[u] = x
    <3>1. BooksKeep(b, left, {"troves", "closedBy"})
      BY <1>c, CloseBooks DEF left
    <3>2. left.surplus = b.surplus /\ IsBooks(left)
      BY <3>1 DEF BooksKeep, BookNames
    <3>3. left1 = WithSurplus(left, u, left.surplus[u] + 1)
      BY DEF left1, WithSurplus
    <3>4. left1.surplus = Replaced(left.surplus, u, left.surplus[u] + 1)
      BY <3>2, <3>3, SurplusBookWritten
    <3> QED
      BY <1>b, <3>2, <3>4 DEF Replaced
  <2>6. IsBooks(a) /\ a.surplus = b.surplus /\ x \in Int
    BY <1>10, <1>b DEF Accrued, SameAccounts
  <2> HIDE DEF x
  <2>7. /\ BooksKeep(b, b1, {"surplus"}) /\ b1.surplus = Replaced(b.surplus, u, x)
        /\ BooksKeep(a, a1, {"surplus"}) /\ a1.surplus = Replaced(a.surplus, u, x)
    BY <1>c, <2>6, SurplusBookWritten
  <2>1. PICK d3 : Replays(d2, <<Surplus(left1, tx, u)>>, d3) /\ Follows(d3, a1, {}, red)
    BY <1>10, <2>5, <2>6, SurplusReplayed
  <2> HIDE DEF a1, b1
  <2>8. Accrued(b1, a1, u)
    BY <1>10, <2>6, <2>7, AccruedWithSurplus
  <2>2. PICK r : Replays(d3, <<word>>, r) /\ Follows(r, c, {}, red \union {u})
    BY <1>3, <1>12, <1>14, <2>1, <2>7, <2>8 DEF x
  <2> HIDE DEF word, before
  <2>3. Replays(d2, <<Surplus(left1, tx, u), word>>, r)
    BY <2>1, <2>2, TwoReplayed
  <2>4. Replays(d0, before \o <<Surplus(left1, tx, u), word>>, r)
    BY <1>11, <2>3, QueuesReplayed
  <2> QED
    BY <1>1, <1>2, <1>12, <2>2, <2>4 DEF s, c, b, RedeemedTo
<1>13. CASE debt # 0
  <2>1. PICK r : Replays(d2, <<word>>, r) /\ Follows(r, c, {}, red \union {u})
    BY <1>3, <1>10, <1>13, <1>14, <1>c DEF BooksKeep
  <2> HIDE DEF word, before
  <2>2. Replays(d0, before \o <<word>>, r)
    BY <1>11, <2>1, QueuesReplayed
  <2> QED
    BY <1>1, <1>2, <1>13, <2>1, <2>2 DEF s, c, b, RedeemedTo
<1> QED
  BY <1>12, <1>13

\* The event that ends a redemption, which had troves.
LEMMA RedemptionReplayed ==
    ASSUME NEW d, NEW b, NEW red, Follows(d, b, {}, red), red # {},
           NEW e, e.tx # Null, e.name = "Redemption"
    PROVE  LET r == Handle(d, e)
           IN Replays(d, <<e>>, r) /\ Follows(r, b, {}, {}) /\ r.redemption.troves = red
<1> DEFINE r == FinishCurrentRedemption(d, e)
           F == {"redemption", "transaction"}
           K == {"transactionCount", "redemptionCount", "currentRedemption",
                 "totalRedemptionFeesPaid"}
<1>1. Handle(d, e) = r
  BY DEF Handle
<1>2. Fits(d, e)
  BY DEF Fits, Follows
<1>3. CallSide(d, {}, red) /\ IsStore(d) /\ ChainInv(d)
  BY DEF Follows
<1>4. /\ Keeps(d, r, F, K)
      /\ ChainInv(r)
      /\ HasCalls(r)
      /\ r.global.currentRedemption = Null
      /\ r.redemption.troves = IF d.global.currentRedemption # Null
                               THEN d.redemption.troves ELSE {}
  BY <1>3, RedemptionFinished DEF CallSide
<1> HIDE DEF r
<1>5. r.redemption.troves = red
  BY <1>3, <1>4 DEF CallSide
<1>6. /\ r.global.currentLiquidation = d.global.currentLiquidation
      /\ r.global.tmpDepositUpdate = d.global.tmpDepositUpdate
      /\ r.liquidation = d.liquidation
  BY <1>4 DEF Keeps, GlobalKeys, OtherKeys, StoreFields
<1>7. CallSide(r, {}, {})
  BY <1>3, <1>4, <1>6 DEF CallSide
<1>8. /\ F \intersect {"troves", "deposits", "users", "frontends", "stakes", "token"} = {}
      /\ K \intersect (TroveCounters \union StakeCounters
                    \union {"rawTotalRedistributedCollateral", "rawTotalRedistributedDebt"}) = {}
  BY DEF TroveCounters, StakeCounters
<1>a. Tallied(r, b, 0, 0)
  BY <1>4, TallyKept DEF Follows
<1> HIDE DEF F, K
<1>9. TroveSide(r, b)
  BY <1>4, <1>8, TrovesKept DEF Follows
<1>10. HasAccounts(r)
  BY <1>4, <1>8, AccountsKept DEF Follows
<1>11. DepositSide(r, b) /\ StakeSide(r, b) /\ TokenSide(r, b)
  BY <1>4, <1>8, DepositsKept, StakesKept, TokensKept DEF Follows
<1>12. IsStore(r)
  BY <1>4 DEF Keeps
<1>13. Follows(r, b, {}, {})
  BY <1>4, <1>7, <1>9, <1>10, <1>11, <1>12, <1>a DEF Follows
<1>14. Replays(d, <<e>>, r)
  BY <1>1, <1>2, EventReplayed
<1> QED
  BY <1>1, <1>5, <1>13, <1>14

\* The books after a redemption: of the troves us, the last with debt left.
LEMMA RedeemReplayed ==
    ASSUME NEW d, NEW b, Follows(d, b, {}, {}), IsBooks(b), TrovesBooked(b),
           NEW tx \in Nat, NEW u \in Users, NEW v \in Users,
           NEW us, OneOrTwo(us, u, v), TrovesOpen(b, us),
           NEW stake \in Nat, NEW debt \in Nat,
           debt # 0 => stake # 0 /\ debt # Entire(b, Last(us)).debt
    PROVE  LET call == Redeem(b, tx, us, stake, debt)
               c == call.books
           IN /\ \E r : /\ Replays(d, call.events, r)
                        /\ Follows(r, c, {}, {})
                        /\ r.redemption.troves = ToSet(us)
              /\ BooksKeep(b, c, {"troves", "closedBy", "surplus"})
              /\ TrovesBooked(c)
<1>0. /\ us \in {<<u>>, <<u, v>>} /\ (us = <<u, v>> => u # v)
      /\ \A i \in DOMAIN us : b.troves[us[i]].stake # 0
  BY DEF OneOrTwo, TrovesOpen
<1> USE <1>0
<1> DEFINE start == RedemptionStart(b, tx)
           call == Redeem(b, tx, us, stake, debt)
           End(done) == [name |-> "Redemption", tx |-> tx, attempted |-> done.actual,
                         actual |-> done.actual, fee |-> 1]
<1>1. /\ start.books = b /\ start.events = <<Price(b, tx)>>
      /\ \A done : /\ RedemptionEnd(done, tx).books = done.books
                   /\ RedemptionEnd(done, tx).events = Append(done.events, End(done))
      /\ \A done : End(done).tx # Null /\ End(done).name = "Redemption"
  BY NumberIsNotNull DEF RedemptionStart, RedemptionEnd
<1> HIDE DEF start, End
<1>2. PICK d1 : Replays(d, start.events, d1) /\ Follows(d1, start.books, {}, {})
  BY <1>1, PriceReplayed
<1>3. ASSUME NEW done, NEW m, NEW red, Replays(d, done.events, m),
             Follows(m, done.books, {}, red), red # {}
      PROVE  \E r : /\ Replays(d, RedemptionEnd(done, tx).events, r)
                    /\ Follows(r, done.books, {}, {})
                    /\ r.redemption.troves = red
  <2> DEFINE r == Handle(m, End(done))
  <2>1. /\ Replays(m, <<End(done)>>, r)
        /\ Follows(r, done.books, {}, {}) /\ r.redemption.troves = red
    BY <1>1, <1>3, RedemptionReplayed
  <2> HIDE DEF r
  <2>2. Replays(d, Append(done.events, End(done)), r)
    BY <1>3, <2>1, AppendReplayed
  <2> QED
    BY <1>1, <2>1, <2>2
<1>4. CASE us = <<u>>
  <2> DEFINE one == RedeemOne(start, tx, u, stake, debt)
  <2>1. Last(us) = u /\ ToSet(us) = {u} /\ b.troves[u].stake # 0
    BY <1>4 DEF Last, ToSet
  <2>2. /\ \E r : Replays(d, one.events, r) /\ Follows(r, one.books, {}, {} \union {u})
        /\ one.books = RedeemedBooks(b, u, stake, debt)
    <3>1. /\ IsBooks(start.books) /\ TrovesBooked(start.books)
          /\ start.books.troves[u].stake # 0
          /\ debt # 0 => stake # 0 /\ debt # Entire(start.books, u).debt
      BY <1>1, <2>1
    <3>2. RedeemedTo(d, one, RedeemedBooks(start.books, u, stake, debt), {} \union {u})
      BY <1>2, <3>1, RedeemStep
    <3> QED
      BY <1>1, <3>2 DEF RedeemedTo
  <2>3. call = RedemptionEnd(one, tx)
    BY <1>4, RedeemsOne DEF start
  <2> HIDE DEF one, call
  <2>4. PICK m : Replays(d, one.events, m) /\ Follows(m, one.books, {}, {u})
    BY <2>2
  <2>5. \E r : /\ Replays(d, call.events, r)
               /\ Follows(r, one.books, {}, {})
               /\ r.redemption.troves = {u}
    BY <1>3, <2>3, <2>4
  <2>6. /\ BooksKeep(b, one.books, {"troves", "closedBy", "surplus"})
        /\ TrovesBooked(one.books)
    BY <2>1, <2>2, RedeemBooks
  <2>7. call.books = one.books
    BY <1>1, <2>3
  <2> QED
    BY <2>1, <2>5, <2>6, <2>7 DEF call
<1>5. CASE us = <<u, v>>
  <2> DEFINE one == RedeemOne(start, tx, u, stake, 0)
             two == RedeemOne(one, tx, v, stake, debt)
  <2>1. /\ Last(us) = v /\ ToSet(us) = {u, v}
        /\ b.troves[u].stake # 0 /\ b.troves[v].stake # 0
    BY <1>5 DEF Last, ToSet
  <2>2. /\ \E r : Replays(d, one.events, r) /\ Follows(r, one.books, {}, {} \union {u})
        /\ one.books = RedeemedBooks(b, u, stake, 0)
    <3>1. /\ IsBooks(start.books) /\ TrovesBooked(start.books)
          /\ start.books.troves[u].stake # 0
      BY <1>1, <2>1
    <3>2. RedeemedTo(d, one, RedeemedBooks(start.books, u, stake, 0), {} \union {u})
      BY <1>2, <3>1, RedeemStep
    <3> QED
      BY <1>1, <3>2 DEF RedeemedTo
  <2>3. call = RedemptionEnd(two, tx)
    BY <1>5, RedeemsTwo DEF start
  <2> HIDE DEF one, call
  <2>4. PICK m : Replays(d, one.events, m) /\ Follows(m, one.books, {}, {u})
    BY <2>2
  <2>5. /\ BooksKeep(b, one.books, {"troves", "closedBy", "surplus"})
        /\ TrovesBooked(one.books)
        /\ Puts(b, one.books, u, StatusAfter("redeemCollateral", 0), 0, 0, 0)
    BY <2>1, <2>2, RedeemBooks
  <2>6. IsBooks(one.books)
    BY <2>5 DEF BooksKeep
  <2>7. one.books.troves[v] = b.troves[v] /\ Entire(one.books, v) = Entire(b, v)
    BY <1>5, <2>5 DEF Puts, TrovesBooked, Entire
  <2>8. /\ \E r : Replays(d, two.events, r) /\ Follows(r, two.books, {}, {u} \union {v})
        /\ two.books = RedeemedBooks(one.books, v, stake, debt)
    <3>1. /\ one.books.troves[v].stake # 0
          /\ debt # 0 => stake # 0 /\ debt # Entire(one.books, v).debt
      BY <2>1, <2>7
    <3>2. RedeemedTo(d, two, RedeemedBooks(one.books, v, stake, debt), {u} \union {v})
      BY <2>4, <2>5, <2>6, <3>1, RedeemStep
    <3> QED
      BY <3>2 DEF RedeemedTo
  <2> HIDE DEF two
  <2>9. PICK m2 : Replays(d, two.events, m2) /\ Follows(m2, two.books, {}, {u, v})
    <3>1. {u} \union {v} = {u, v}
      OBVIOUS
    <3> QED
      BY <2>8, <3>1
  <2>10. \E r : /\ Replays(d, call.events, r)
                /\ Follows(r, two.books, {}, {})
                /\ r.redemption.troves = {u, v}
    BY <1>3, <2>3, <2>9
  <2>11. /\ BooksKeep(one.books, two.books, {"troves", "closedBy", "surplus"})
         /\ TrovesBooked(two.books)
    <3>1. one.books.troves[v].stake # 0 /\ (debt # 0 => stake # 0)
      BY <2>1, <2>7
    <3> QED
      BY <2>5, <2>6, <2>8, <3>1, RedeemBooks
  <2>12. BooksKeep(b, two.books, {"troves", "closedBy", "surplus"})
    BY <2>5, <2>11 DEF BooksKeep
  <2>13. call.books = two.books
    BY <1>1, <2>3
  <2> QED
    BY <2>1, <2>10, <2>11, <2>12, <2>13 DEF call
<1> QED
  BY <1>4, <1>5

-----------------------------------------------------------------------------
(* The losses of the pool.                                                  *)

LEMMA DepositorsInOrder ==
    LET order == SetToSeq(Users)
        n == Cardinality(Users)
    IN /\ n \in Nat
       /\ order \in [1 .. n -> Users]
       /\ \A u \in Users : \E i \in 1 .. n : order[i] = u
       /\ \A i, j \in 1 .. n : order[i] = order[j] => i = j
<1> DEFINE n == Cardinality(Users)
           D == 1 .. n
<1>1. n \in Nat /\ ExistsBijection(D, Users)
  BY SubgraphAssumption, FS_CardinalityType
<1>2. \E f \in [D -> Users] : IsInjective(f)
  BY <1>1 DEF ExistsBijection, Bijection, Injection
<1> DEFINE order == SetToSeq(Users)
<1>3. order \in [D -> Users] /\ IsInjective(order)
  BY <1>2 DEF SetToSeq
<1> HIDE DEF order
<1>4. order \in Injection(D, Users)
  BY <1>3 DEF Injection
<1>5. Cardinality(D) = n /\ IsFiniteSet(Users)
  <2>1. n - 1 + 1 = n /\ 1 \in Int /\ n \in Int
    BY <1>1
  <2>2. Cardinality(D) = IF 1 > n THEN 0 ELSE n - 1 + 1
    BY <2>1, FS_Interval
  <2> QED
    BY <1>1, <2>2, SubgraphAssumption
<1>6. order \in Surjection(D, Users)
  BY <1>4, <1>5, FS_Injection
<1>7. \A u \in Users : \E i \in D : order[i] = u
  BY <1>6 DEF Surjection
<1>8. \A i, j \in D : order[i] = order[j] => i = j
  BY <1>3 DEF IsInjective
<1> QED
  BY <1>1, <1>3, <1>7, <1>8 DEF order

LEMMA LossIsCovered ==
    ASSUME NEW b, PoolBooked(b), NEW amount \in Nat, NEW i \in 1 .. Cardinality(Users)
    PROVE  LossAt(b, amount, i) \in 0 .. Compounded(b, SetToSeq(Users)[i])
<1> DEFINE order == SetToSeq(Users)
           n == Cardinality(Users)
           f == [u \in Users |-> Compounded(b, u)]
           T == {order[j] : j \in 1 .. (i - 1)}
<1>1. /\ n \in Nat /\ order \in [1 .. n -> Users]
  BY DepositorsInOrder
<1> HIDE DEF order
<1>2. \A u \in Users : Compounded(b, u) \in Nat
  BY DEF PoolBooked, Compounded
<1>3. T \subseteq Users
  BY <1>1 DEF n
<1> HIDE DEF T
<1>4. IsFiniteSet(T)
  BY <1>3, SubgraphAssumption, FS_Subset
<1>5. Total(f, T) \in Int
  <2>1. \A x \in T : f[x] \in Int
    BY <1>2, <1>3
  <2> HIDE DEF f
  <2> QED
    BY <1>4, <2>1, TotalIsANumber
<1>6. Compounded(b, order[i]) \in Nat
  BY <1>1, <1>2 DEF n
<1>7. LossAt(b, amount, i) = LET left == amount - Total(f, T)
                             IN IF left <= 0 THEN 0
                                ELSE IF left < Compounded(b, order[i]) THEN left
                                ELSE Compounded(b, order[i])
  BY DEF LossAt, f, T, order
<1> HIDE DEF f
<1> DEFINE left == amount - Total(f, T)
<1>8. left \in Int
  BY <1>5
<1> HIDE DEF left
<1>9. LossAt(b, amount, i) = IF left <= 0 THEN 0
                             ELSE IF left < Compounded(b, order[i]) THEN left
                             ELSE Compounded(b, order[i])
  BY <1>7 DEF left
<1>10. LossAt(b, amount, i) \in 0 .. Compounded(b, order[i])
  BY <1>6, <1>8, <1>9
<1> QED
  BY <1>10 DEF order

LEMMA LossesTaken ==
    ASSUME NEW b, IsBooks(b), PoolBooked(b), NEW amount \in Nat, NEW gain
    PROVE  /\ BooksKeep(b, TakeLosses(b, amount, gain), {"losses", "gains"})
           /\ PoolBooked(TakeLosses(b, amount, gain))
<1> DEFINE order == SetToSeq(Users)
           n == Cardinality(Users)
           first == CHOOSE i \in DOMAIN order : Compounded(b, order[i]) > 0
           At(u) == CHOOSE i \in DOMAIN order : order[i] = u
           L == [u \in Users |-> b.losses[u] + LossAt(b, amount, At(u))]
           who == order[first]
           G == [b.gains EXCEPT ![who] = b.gains[who] + gain]
           c == TakeLosses(b, amount, gain)
<1>1. c = [b EXCEPT !.losses = L, !.gains = G]
  BY DEF TakeLosses, LossAt
<1>2. /\ n \in Nat /\ order \in [1 .. n -> Users]
      /\ \A u \in Users : \E i \in 1 .. n : order[i] = u
  BY DepositorsInOrder
<1>3. \A u \in Users : At(u) \in 1 .. n /\ order[At(u)] = u
  <2> HIDE DEF order, n
  <2> QED
    BY <1>2
<1> HIDE DEF At
<1>4. \A u \in Users : LossAt(b, amount, At(u)) \in 0 .. Compounded(b, u)
  BY <1>3, LossIsCovered
<1>5. \A u \in Users : b.losses[u] \in Nat /\ b.deposits[u] \in Nat /\ b.losses[u] <= b.deposits[u]
  BY DEF PoolBooked
<1>6. \A u \in Users : L[u] \in Nat /\ L[u] <= b.deposits[u]
  BY <1>4, <1>5 DEF Compounded
<1>7. L \in [Users -> Nat]
  BY <1>6
<1>8. G = [u \in Users |-> G[u]]
  <2>1. b.gains = [u \in Users |-> b.gains[u]]
    BY DEF PoolBooked
  <2> HIDE DEF who
  <2> QED
    BY <2>1
<1> HIDE DEF c, L, G
<1>9. BooksKeep(b, c, {"losses", "gains"}) /\ c.losses = L /\ c.gains = G
  BY <1>1 DEF IsBooks, BooksKeep, BookNames
<1>10. c.deposits = b.deposits /\ c.tags = b.tags
  BY <1>9 DEF BooksKeep, BookNames
<1>11. PoolBooked(c)
  BY <1>6, <1>7, <1>8, <1>9, <1>10 DEF PoolBooked
<1> QED
  BY <1>9, <1>11 DEF c

LEMMA OneMoreDepositor ==
    ASSUME NEW i \in 1 .. Cardinality(Users)
    PROVE  LET x == SetToSeq(Users)[i]
           IN x \in Users /\ x \in UpTo(i) /\ UpTo(i) \ {x} = UpTo(i - 1)
              /\ UpTo(i) \subseteq Users
<1> DEFINE order == SetToSeq(Users)
           n == Cardinality(Users)
<1>1. /\ n \in Nat /\ order \in [1 .. n -> Users]
      /\ \A k, j \in 1 .. n : order[k] = order[j] => k = j
  BY DepositorsInOrder
<1>2. UpTo(i) = {order[j] : j \in 1 .. i} /\ UpTo(i - 1) = {order[j] : j \in 1 .. (i - 1)}
  BY DEF UpTo
<1> HIDE DEF order
<1>3. i \in 1 .. n /\ 1 .. i \subseteq 1 .. n /\ 1 .. (i - 1) = (1 .. i) \ {i}
  BY <1>1 DEF n
<1> HIDE DEF n
<1>4. UpTo(i) \ {order[i]} = UpTo(i - 1)
  BY <1>1, <1>2, <1>3
<1>5. order[i] \in Users /\ order[i] \in UpTo(i) /\ UpTo(i) \subseteq Users
  BY <1>1, <1>2, <1>3
<1> QED
  BY <1>4, <1>5 DEF order

LEMMA AllDepositors == UpTo(0) = {} /\ UpTo(Cardinality(Users)) = Users
<1>1. UpTo(0) = {}
  BY DEF UpTo
<1>2. UpTo(Cardinality(Users)) = Users
  BY DepositorsInOrder DEF UpTo
<1> QED
  BY <1>1, <1>2

\* What is taken from the pool, from its first depositors first, is what was
\* to be offset when the pool has as much.
LEMMA LossesAdd ==
    ASSUME NEW b, PoolBooked(b), NEW amount \in Nat, NEW L,
           \A i \in 1 .. Cardinality(Users) : L[SetToSeq(Users)[i]] = LossAt(b, amount, i),
           amount <= PoolSize(b)
    PROVE  Total(L, Users) = amount
<1> DEFINE n == Cardinality(Users)
           f == [u \in Users |-> Compounded(b, u)]
           Before(i) == Total(f, UpTo(i))
           Taken(i) == Total(L, UpTo(i))
           Right(i) == Taken(i) = (IF amount < Before(i) THEN amount ELSE Before(i))
           Bad == {i \in Nat : i <= n /\ ~Right(i)}
<1>1. n \in Nat /\ \A i \in 1 .. n : SetToSeq(Users)[i] \in Users
  BY DepositorsInOrder
<1>2. \A u \in Users : f[u] \in Nat
  BY DEF PoolBooked, Compounded
<1>3. \A i \in 1 .. n : L[SetToSeq(Users)[i]] = LossAt(b, amount, i)
  OBVIOUS
<1>4. \A i \in 1 .. n : /\ L[SetToSeq(Users)[i]] \in Nat
                        /\ LossAt(b, amount, i) =
                              LET left == amount - Before(i - 1)
                                  x == SetToSeq(Users)[i]
                              IN IF left <= 0 THEN 0 ELSE IF left < f[x] THEN left ELSE f[x]
  <2> TAKE i \in 1 .. n
  <2>1. SetToSeq(Users)[i] \in Users
    BY <1>1
  <2>2. LossAt(b, amount, i) \in 0 .. Compounded(b, SetToSeq(Users)[i])
    BY LossIsCovered
  <2>3. L[SetToSeq(Users)[i]] = LossAt(b, amount, i)
    BY <1>3
  <2>4. LossAt(b, amount, i) \in Nat
    BY <2>2
  <2> QED
    BY <2>1, <2>3, <2>4 DEF LossAt, UpTo
<1>5. \A u \in Users : L[u] \in Nat
  BY <1>4, DepositorsInOrder
<1>6. ASSUME NEW i \in Nat, i <= n PROVE Before(i) \in Nat /\ IsFiniteSet(UpTo(i))
  <2>1. UpTo(i) \subseteq Users
    <3>1. 1 .. i \subseteq 1 .. n
      BY <1>1, <1>6
    <3> QED
      BY <1>1, <3>1 DEF UpTo
  <2>2. IsFiniteSet(UpTo(i))
    BY <2>1, SubgraphAssumption, FS_Subset
  <2>3. \A x \in UpTo(i) : f[x] \in Nat
    BY <1>2, <2>1
  <2> HIDE DEF f
  <2> QED
    BY <2>2, <2>3, TotalIsANumber
<1>7. ASSUME Bad # {} PROVE FALSE
  <2>1. PICK i \in Bad : \A j \in Bad : ~(j < i)
    BY <1>7, LeastNumber
  <2>2. i \in Nat /\ i <= n /\ ~Right(i)
    OBVIOUS
  <2>3. Before(0) = 0 /\ Taken(0) = 0
    BY AllDepositors, TotalOfNone
  <2>4. i # 0
    BY <2>2, <2>3
  <2>5. i - 1 \in Nat /\ i - 1 < i /\ i - 1 <= n /\ i \in 1 .. n
    BY <1>1, <2>2, <2>4
  <2>6. Right(i - 1)
    <3> HIDE DEF Right
    <3> QED
      BY <2>1, <2>5
  <2> DEFINE x == SetToSeq(Users)[i]
  <2>7. x \in Users /\ x \in UpTo(i) /\ UpTo(i) \ {x} = UpTo(i - 1) /\ UpTo(i) \subseteq Users
    BY <2>5, OneMoreDepositor
  <2>8. IsFiniteSet(UpTo(i)) /\ Before(i - 1) \in Nat
    BY <1>6, <2>2, <2>5
  <2>9. L[x] \in Nat /\ f[x] \in Nat
    BY <1>2, <1>5, <2>7
  <2>10. L[x] = IF amount - Before(i - 1) <= 0 THEN 0
                ELSE IF amount - Before(i - 1) < f[x] THEN amount - Before(i - 1)
                ELSE f[x]
    BY <1>3, <1>4, <2>5
  <2> HIDE DEF f, x
  <2>11. Before(i) = f[x] + Before(i - 1) /\ Taken(i) = L[x] + Taken(i - 1)
    <3>1. \A y \in UpTo(i) : f[y] \in Int /\ L[y] \in Int
      BY <1>2, <1>5, <2>7
    <3> QED
      BY <2>7, <2>8, <3>1, TotalTaken
  <2>12. Right(i)
    <3> DEFINE B == Before(i - 1)
               C == Taken(i - 1)
    <3>1. C = (IF amount < B THEN amount ELSE B) /\ B \in Nat
      BY <2>6, <2>8
    <3> HIDE DEF B, C
    <3>2. L[x] + C = IF amount < f[x] + B THEN amount ELSE f[x] + B
      <4>1. L[x] = IF amount - B <= 0 THEN 0
                   ELSE IF amount - B < f[x] THEN amount - B ELSE f[x]
        BY <2>10 DEF B
      <4> QED
        BY <2>9, <3>1, <4>1
    <3> QED
      BY <2>11, <3>2 DEF B, C
  <2> QED
    BY <2>2, <2>12
<1>8. Right(n)
  BY <1>1, <1>7
<1>9. Before(n) = PoolSize(b) /\ Taken(n) = Total(L, Users)
  BY AllDepositors DEF PoolSize
<1>10. Before(n) \in Nat
  BY <1>1, <1>6
<1> HIDE DEF Before, Taken
<1> QED
  BY <1>8, <1>9, <1>10

LEMMA PoolTaken ==
    ASSUME NEW b, IsBooks(b), PoolBooked(b), NEW amount \in Nat, NEW gain, amount <= PoolSize(b)
    PROVE  PoolSize(TakeLosses(b, amount, gain)) = PoolSize(b) - amount
<1> DEFINE order == SetToSeq(Users)
           n == Cardinality(Users)
           At(u) == CHOOSE i \in DOMAIN order : order[i] = u
           L == [u \in Users |-> LossAt(b, amount, At(u))]
           f == [u \in Users |-> Compounded(b, u)]
           c == TakeLosses(b, amount, gain)
           h == [u \in Users |-> Compounded(c, u)]
<1>1. c.losses = [u \in Users |-> b.losses[u] + L[u]] /\ c.deposits = b.deposits
  BY DEF TakeLosses, LossAt, IsBooks, BookNames
<1>2. /\ n \in Nat /\ order \in [1 .. n -> Users]
      /\ \A u \in Users : \E i \in 1 .. n : order[i] = u
      /\ \A i, j \in 1 .. n : order[i] = order[j] => i = j
  BY DepositorsInOrder
<1>3. \A i \in 1 .. n : At(order[i]) = i
  <2> HIDE DEF order, n
  <2> QED
    BY <1>2
<1>4. \A i \in 1 .. n : L[order[i]] = LossAt(b, amount, i)
  <2> HIDE DEF At, order
  <2> QED
    BY <1>2, <1>3
<1>5. Total(L, Users) = amount
  <2> HIDE DEF L
  <2> QED
    BY <1>4, LossesAdd
<1>6. \A u \in Users : L[u] \in Nat
  <2>1. \A i \in 1 .. n : LossAt(b, amount, i) \in Nat
    BY LossIsCovered
  <2> HIDE DEF L, order, n
  <2> QED
    BY <1>2, <1>4, <2>1
<1> HIDE DEF L, c
<1>7. \A u \in Users : /\ f[u] \in Int /\ L[u] \in Int
                       /\ h[u] = f[u] + (-1) * L[u]
  BY <1>1, <1>6 DEF PoolBooked, Compounded
<1>8. Total(h, Users) = Total(f, Users) + (-1) * Total(L, Users)
  <2> HIDE DEF h, f
  <2> QED
    BY <1>7, SubgraphAssumption, TotalAdds
<1>9. Total(f, Users) \in Int
  <2> HIDE DEF f
  <2> QED
    BY <1>7, SubgraphAssumption, TotalIsANumber
<1>10. PoolSize(b) = Total(f, Users) /\ PoolSize(c) = Total(h, Users)
  BY DEF PoolSize
<1> HIDE DEF f, h
<1> QED
  BY <1>5, <1>8, <1>9, <1>10 DEF c

-----------------------------------------------------------------------------
(* Liquidations.                                                            *)

\* The books may change in what no entity keeps.
LEMMA FollowsOtherBooks ==
    ASSUME NEW d, NEW b, NEW c, NEW liq, NEW red, Follows(d, b, liq, red),
           NEW F, BooksKeep(b, c, F),
           F \subseteq {"price", "gains", "allowances"}
    PROVE  Follows(d, c, liq, red)
<1>1. /\ c.troves = b.troves /\ c.closedBy = b.closedBy
      /\ c.lColl = b.lColl /\ c.lDebt = b.lDebt
      /\ c.deposits = b.deposits /\ c.tags = b.tags /\ c.frontends = b.frontends
      /\ c.staked = b.staked /\ c.balances = b.balances
      /\ c.losses = b.losses /\ c.surplus = b.surplus
  BY DEF BooksKeep, BookNames
<1>2. TroveSide(d, c) /\ DepositSide(d, c) /\ StakeSide(d, c) /\ TokenSide(d, c)
  BY <1>1, SameTroves, SameDeposits, SameStakes, SameTokens DEF Follows
<1>3. Parts(c) = Parts(b)
  BY <1>1, SameParts
<1>4. Tallied(d, b, 0, 0) => Tallied(d, c, 0, 0)
  BY <1>1, <1>3, TallyStays DEF Tallied
<1> QED
  BY <1>2, <1>4 DEF Follows

LEMMA AccruedBooksWritten ==
    ASSUME NEW b, IsBooks(b), NEW u, NEW coll, NEW debt
    PROVE  /\ BooksKeep(b, AccruedBooks(b, u, coll, debt), {"troves", "closedBy"})
           /\ Puts(b, AccruedBooks(b, u, coll, debt), u, "open", coll, debt, 0)
<1> DEFINE x == [coll |-> coll, debt |-> debt, stake |-> 0, snapColl |-> 0, snapDebt |-> 0]
           w == WithTrove(b, u, x)
           c == WithWay(w, u, "open")
<1> HIDE DEF x
<1>1. BooksKeep(b, w, {"troves"}) /\ w.troves = [b.troves EXCEPT ![u] = x]
  BY TroveBookWritten
<1> HIDE DEF w
<1>2. IsBooks(w)
  BY <1>1 DEF BooksKeep
<1>3. BooksKeep(w, c, {"closedBy"}) /\ c.closedBy = [w.closedBy EXCEPT ![u] = "open"]
  BY <1>2, StatusBookWritten
<1> HIDE DEF c
<1>4. c.troves = w.troves /\ w.closedBy = b.closedBy /\ c.lColl = b.lColl /\ c.lDebt = b.lDebt
  BY <1>1, <1>3 DEF BooksKeep, BookNames
<1>5. Puts(b, c, u, "open", coll, debt, 0)
  BY <1>1, <1>3, <1>4 DEF Puts, x
<1>6. BooksKeep(b, c, {"troves", "closedBy"})
  BY <1>1, <1>3 DEF BooksKeep
<1> QED
  BY <1>5, <1>6 DEF c, w, x, AccruedBooks

\* The indexer works out what a trove is entitled to the way the contracts do.
LEMMA EntitledAlike ==
    ASSUME NEW d, NEW b, TroveSide(d, b), TrovesBooked(b), NEW u \in Users
    PROVE  LET t == d.troves[u]
               g == d.global
           IN /\ t.collateral + Redistribution(t, t.snapshotCollateral,
                                               g.rawTotalRedistributedCollateral)
                    = Entire(b, u).coll
              /\ t.debt + Redistribution(t, t.snapshotDebt, g.rawTotalRedistributedDebt)
                    = Entire(b, u).debt
<1> DEFINE t == d.troves[u]
           k == b.troves[u].stake
           m == b.lColl - b.troves[u].snapColl
           n == b.lDebt - b.troves[u].snapDebt
<1>1. /\ t.collateral = b.troves[u].coll /\ t.debt = b.troves[u].debt /\ t.rawStake = k
      /\ t.snapshotCollateral = b.troves[u].snapColl
      /\ t.snapshotDebt = b.troves[u].snapDebt
      /\ d.global.rawTotalRedistributedCollateral = b.lColl
      /\ d.global.rawTotalRedistributedDebt = b.lDebt
  BY DEF TroveSide, TroveFollows
<1>2. k \in Nat /\ m \in Int /\ n \in Int
  <2>1. /\ b.lColl \in Nat /\ b.lDebt \in Nat
        /\ \A f \in TroveTerms : b.troves[u][f] \in Nat
    BY DEF TrovesBooked, IsBooked
  <2> QED
    BY <2>1 DEF TroveTerms
<1>3. /\ Redistribution(t, t.snapshotCollateral, d.global.rawTotalRedistributedCollateral)
            = (m * k) \div Scaling
      /\ Redistribution(t, t.snapshotDebt, d.global.rawTotalRedistributedDebt)
            = (n * k) \div Scaling
  BY <1>1 DEF Redistribution
<1>4. /\ Entire(b, u).coll = b.troves[u].coll + (k * m) \div Scaling
      /\ Entire(b, u).debt = b.troves[u].debt + (k * n) \div Scaling
  BY DEF Entire
<1> HIDE DEF t, k, m, n
<1>5. m * k = k * m /\ n * k = k * n
  BY <1>2, SMT
<1> QED
  BY <1>1, <1>3, <1>4, <1>5 DEF t

LEMMA LiquidatedReplayed ==
    ASSUME NEW d, NEW b, NEW liq, NEW red, Follows(d, b, liq, red), IsBooks(b), TrovesBooked(b),
           NEW u \in Users, b.troves[u].stake # 0,
           NEW e, e.tx # Null, e.name = "TroveLiquidated", e.user = u
    PROVE  \E r, c : /\ Replays(d, <<e>>, r)
                     /\ Follows(r, c, liq, red)
                     /\ Accrued(b, c, u)
                     /\ \A x, y \in Int : Tallied(d, b, x, y) =>
                           Tallied(r, c, x, y) /\ r.state.price = d.state.price
<1> DEFINE coll == Entire(b, u).coll
           debt == Entire(b, u).debt
           op == "accrueRewards"
           r == UpdateTrove(d, e, op, u, coll, debt, 0)
<1>1. TroveSide(d, b) /\ HasTroves(d) /\ IsStore(d)
  BY DEF Follows, TroveSide
<1>2. Handle(d, e) = r
  <2>1. Handle(d, e) = ApplyRedistributionToTroveBeforeLiquidation(d, e)
    BY DEF Handle
  <2> QED
    BY <1>1, <2>1, EntitledAlike DEF ApplyRedistributionToTroveBeforeLiquidation
<1>3. Fits(d, e)
  BY DEF Fits, Follows
<1>4. Replays(d, <<e>>, r)
  BY <1>2, <1>3, EventReplayed
<1>5. HasBooks(b)
  BY HasBooksWhenBooked
<1>6. coll > 0 /\ coll \in Nat /\ b.closedBy[u] = "open"
  BY Worth DEF TrovesBooked
<1>7. ~IsLiquidation(op) /\ ~IsRedemption(op) /\ StatusAfter(op, coll) = "open"
  BY <1>6 DEF IsLiquidation, IsRedemption, StatusAfter
<1>a. debt \in Nat
  BY Worth
<1>b. d.troves[u].collateral = b.troves[u].coll /\ d.troves[u].debt = b.troves[u].debt
  BY <1>1 DEF TroveSide, TroveFollows
<1> HIDE DEF op, coll, debt
<1>8. CASE coll = b.troves[u].coll /\ debt = b.troves[u].debt
  <2>1. TroveFollows(d.troves[u], b, u)
    BY <1>1 DEF TroveSide
  <2>2. IsNoop(d, u, coll, debt) /\ d.troves[u].status # "nonExistent"
    BY <1>6, <1>8, <2>1 DEF IsNoop, TroveFollows
  <2>3. r = d
    BY <1>1, <2>2, NoopHandled
  <2>4. Accrued(b, b, u)
    BY <1>5, <1>8 DEF Accrued, SameAccounts, coll, debt, Entire
  <2> QED
    BY <1>4, <2>3, <2>4
<1>9. CASE ~(coll = b.troves[u].coll /\ debt = b.troves[u].debt)
  <2> DEFINE c == AccruedBooks(b, u, coll, debt)
  <2>1. BooksKeep(b, c, {"troves", "closedBy"}) /\ Puts(b, c, u, "open", coll, debt, 0)
    BY AccruedBooksWritten
  <2> HIDE DEF c
  <2>2. SameAccounts(b, c)
    BY <2>1, AccountsKeptInBooks
  <2>3. b.closedBy[u] \in ClosedStatuses => StatusAfter(op, coll) = "open"
    BY <1>7
  <2>4. Puts(b, c, u, StatusAfter(op, coll), coll, debt, 0)
    BY <1>7, <2>1
  <2>a. c.losses = b.losses
    BY <2>1 DEF BooksKeep, BookNames
  <2>b. Fair(b, c, op, u, coll, debt, 0)
    <3>1. Entire(b, u) = [coll |-> coll, debt |-> debt] /\ op = "accrueRewards"
      BY DEF coll, debt, op, Entire
    <3> QED
      BY <1>6, <1>a, <2>a, <3>1 DEF Fair
  <2>5. /\ Follows(r, c, InLiquidation(op, liq, u), InRedemption(op, red, u))
        /\ SameUsers(d, r)
        /\ HasState(d) => TroveTallied(d, r, op, u, coll, debt)
    <3>1. r = UpdateTrove(d, e, op, u, coll, debt, 0)
      OBVIOUS
    <3> HIDE DEF r
    <3>2. Follows(r, c, InLiquidation(op, liq, u), InRedemption(op, red, u))
      BY <1>5, <1>9, <2>2, <2>3, <2>4, <2>b, <3>1, WordFollowed
    <3>3. SameUsers(d, r)
      BY <1>5, <1>9, <2>2, <2>3, <2>4, <2>b, <3>1, WordFollowed
    <3>4. HasState(d) => TroveTallied(d, r, op, u, coll, debt)
      BY <1>5, <1>9, <2>2, <2>3, <2>4, <2>b, <3>1, WordFollowed
    <3> QED
      BY <3>2, <3>3, <3>4
  <2>6. Follows(r, c, liq, red)
    BY <1>7, <2>5 DEF InLiquidation, InRedemption
  <2>7. HasBooks(c)
    BY <1>5, <2>1, HasBooksAfter
  <2>8. /\ c.troves[u].coll = coll /\ c.troves[u].debt = debt /\ c.closedBy[u] = "open"
        /\ c.lColl = b.lColl
    BY <1>5, <2>1 DEF Puts, HasBooks
  <2>9. \A f, status, coll1, debt1, stake :
           Puts(b, f, u, status, coll1, debt1, stake) => Puts(c, f, u, status, coll1, debt1, stake)
    BY <1>5, <2>1, PutsAgain
  <2>c. IsBooks(c)
    BY <2>1 DEF BooksKeep
  <2>d. Entire(c, u) = Entire(b, u)
    <3>1. Entire(b, u) = [coll |-> coll, debt |-> debt]
      BY DEF coll, debt, Entire
    <3>2. Entire(c, u) = [coll |-> coll, debt |-> debt]
      BY <1>5, <1>6, <1>a, <2>1, EntireWhenPut
    <3> QED
      BY <3>1, <3>2
  <2>10. Accrued(b, c, u)
    BY <1>6, <2>2, <2>7, <2>8, <2>9, <2>a, <2>c, <2>d DEF Accrued, coll, debt
  <2> HIDE DEF r
  <2>11. ASSUME NEW x \in Int, NEW y \in Int, Tallied(d, b, x, y)
         PROVE  Tallied(r, c, x, y) /\ r.state.price = d.state.price
    <3>1. TroveTallied(d, r, op, u, coll, debt)
      BY <2>5, <2>11 DEF Tallied
    <3> QED
      BY <1>5, <1>b, <2>2, <2>4, <2>5, <2>b, <2>11, <3>1, WordTallied DEF SameUsers
  <2> QED
    BY <1>4, <2>6, <2>10, <2>11
<1> QED
  BY <1>8, <1>9

LEMMA PoolIsANumber ==
    ASSUME NEW b, PoolBooked(b)
    PROVE  PoolSize(b) \in Nat
<1> DEFINE f == [u \in Users |-> Compounded(b, u)]
<1>1. \A u \in Users : f[u] \in Nat
  BY DEF PoolBooked, Compounded
<1>2. PoolSize(b) = Total(f, Users)
  BY DEF PoolSize
<1> HIDE DEF f
<1> QED
  BY <1>1, <1>2, TotalIsANumber, SubgraphAssumption

LEMMA LiquidationAmounts ==
    ASSUME NEW b, TrovesBooked(b), PoolBooked(b), NEW u \in Users, b.troves[u].stake # 0, NEW op
    PROVE  /\ Entire(b, u).debt \in Nat \ {0}
           /\ RestOf(b, u) \in Nat
           /\ OffsetOf(b, u, op) \in 0 .. Entire(b, u).debt
           /\ TakenOf(b, u, op) \in 0 .. RestOf(b, u)
           /\ OffsetOf(b, u, op) = Entire(b, u).debt => TakenOf(b, u, op) = RestOf(b, u)
<1> DEFINE debt == Entire(b, u).debt
           coll == Entire(b, u).coll
           o == OffsetOf(b, u, op)
           r == RestOf(b, u)
<1>1. debt \in Nat /\ debt > 0 /\ coll \in Nat
  BY Worth
<1>2. PoolSize(b) \in Nat
  BY PoolIsANumber
<1>3. o \in 0 .. debt
  <2>1. o \in {0, debt, PoolSize(b)} /\ (o = PoolSize(b) => o = 0 \/ o <= debt \/ ~(debt <= PoolSize(b)))
    BY DEF OffsetOf
  <2>2. o = 0 \/ o = debt \/ (o = PoolSize(b) /\ ~(debt <= PoolSize(b)))
    BY DEF OffsetOf
  <2> HIDE DEF o, debt
  <2> QED
    BY <1>1, <1>2, <2>2
<1>4. r \in Nat
  <2>1. r = coll - coll \div GasDivisor
    BY DEF RestOf
  <2> HIDE DEF coll, r
  <2>2. coll \div GasDivisor \in Nat /\ coll \div GasDivisor <= coll
    BY <1>1, Quotient, Parameters
  <2> QED
    BY <1>1, <2>1, <2>2
<1>5. TakenOf(b, u, op) = (r * o) \div debt
  BY DEF TakenOf
<1> HIDE DEF o, r, debt, coll
<1>6. /\ (r * o) \div debt \in 0 .. r
      /\ o = debt => (r * o) \div debt = r
  BY <1>1, <1>3, <1>4, Part
<1> QED
  BY <1>1, <1>3, <1>4, <1>5, <1>6 DEF o, r, debt

LEMMA LiquidateBooks ==
    ASSUME NEW b, IsBooks(b), TrovesBooked(b), PoolBooked(b),
           NEW u \in Users, b.troves[u].stake # 0, NEW op
    PROVE  LET c == LiquidatedBooks(b, u, op)
           IN /\ BooksKeep(b, c, {"troves", "closedBy", "losses", "gains"})
              /\ Puts(b, c, u, "closedByLiquidation", 0, 0, 0)
              /\ TrovesBooked(c) /\ PoolBooked(c)
<1> DEFINE m == ClosedTrove(b, u, "closedByLiquidation")
           c == LiquidatedBooks(b, u, op)
           o == OffsetOf(b, u, op)
           t == TakenOf(b, u, op)
<1>1. BooksKeep(b, m, {"troves", "closedBy"}) /\ Puts(b, m, u, "closedByLiquidation", 0, 0, 0)
  BY CloseBooks
<1>2. c = IF o = 0 THEN m ELSE TakeLosses(m, o, t)
  BY DEF LiquidatedBooks
<1>3. o \in Nat
  BY LiquidationAmounts
<1>4. InOrderAt(b, "closedByLiquidation", 0, 0, 0)
  BY DEF InOrderAt, Statuses, ClosedStatuses
<1> HIDE DEF m, o, t, c
<1>5. PoolBooked(m) /\ IsBooks(m)
  BY <1>1, AccountsKeptInBooks DEF BooksKeep
<1>6. BooksKeep(m, c, {"losses", "gains"}) /\ PoolBooked(c)
  <2>1. BooksKeep(m, TakeLosses(m, o, t), {"losses", "gains"}) /\ PoolBooked(TakeLosses(m, o, t))
    BY <1>3, <1>5, LossesTaken
  <2>2. BooksKeep(m, m, {"losses", "gains"})
    BY <1>5 DEF BooksKeep
  <2> QED
    BY <1>2, <1>5, <2>1, <2>2
<1>7. BooksKeep(b, c, {"troves", "closedBy", "losses", "gains"})
  BY <1>1, <1>6 DEF BooksKeep
<1>8. /\ c.troves = m.troves /\ c.closedBy = m.closedBy
      /\ c.lColl = m.lColl /\ c.lDebt = m.lDebt
  BY <1>6 DEF BooksKeep, BookNames
<1>9. Puts(b, c, u, "closedByLiquidation", 0, 0, 0)
  BY <1>1, <1>8 DEF Puts
<1>10. TrovesBooked(c)
  BY <1>4, <1>9, PutBooked
<1> QED
  BY <1>6, <1>7, <1>9, <1>10 DEF c

LEMMA LiquidationCounts ==
    ASSUME NEW s, IsState(s), s.tokensInStabilityPool \in Nat,
           NEW op \in {"liquidateInNormalMode", "liquidateInRecoveryMode"},
           NEW t, t.collateral \in Nat, t.debt \in Nat \ {0}
    PROVE  LET gas == t.collateral \div GasDivisor
               o == Offsetting(op, t, s.price, s.tokensInStabilityPool)
               next == StateAfterTroveChange(s, op, t, 0, 0)
           IN /\ IsState(next) /\ next.price = s.price
              /\ next.totalCollateral
                    = s.totalCollateral - gas - ((t.collateral - gas) * o) \div t.debt
              /\ next.totalDebt = s.totalDebt - o
              /\ next.tokensInStabilityPool = s.tokensInStabilityPool - o
              /\ next.collSurplusPoolBalance = s.collSurplusPoolBalance
              /\ next.totalProtocolTokensStaked = s.totalProtocolTokensStaked
<1> DEFINE gas == t.collateral \div GasDivisor
           rest == t.collateral - gas
           pool == s.tokensInStabilityPool
           offsets == ~IsRecoveryModeLiquidation(op)
                         \/ CalculateCollateralRatio(t.collateral, t.debt, s.price) > RatioScale
           o == Offsetting(op, t, s.price, pool)
           paid == [s EXCEPT !.totalCollateral = @ - gas]
           after == IF offsets THEN TryToOffset(paid, rest, t.debt) ELSE paid
           ratio == CalculateCollateralRatio(after.totalCollateral, after.totalDebt, after.price)
           next == [after EXCEPT !.totalCollateralRatio = ratio]
           Gone(x) == /\ x = [f \in StateNames |-> x[f]] /\ x.price = s.price
                      /\ x.totalCollateral = s.totalCollateral - gas - (rest * o) \div t.debt
                      /\ x.totalDebt = s.totalDebt - o
                      /\ x.tokensInStabilityPool = pool - o
                      /\ x.collSurplusPoolBalance = s.collSurplusPoolBalance
                      /\ x.totalProtocolTokensStaked = s.totalProtocolTokensStaked
<1>1. StateAfterTroveChange(s, op, t, 0, 0) = next
  <2>1. IsLiquidation(op) /\ ~IsBorrowerOperation(op) /\ ~IsRedemption(op)
    BY DEF IsBorrowerOperation, IsRedemption, IsLiquidation
  <2> HIDE DEF ratio, offsets
  <2> QED
    BY <2>1 DEF StateAfterTroveChange, ratio, offsets
<1>2. gas \in Nat /\ rest \in Nat
  <2>1. gas \in Nat /\ gas <= t.collateral
    BY Quotient, Parameters
  <2> HIDE DEF gas
  <2> QED
    BY <2>1
<1>3. o = IF ~offsets THEN 0 ELSE IF t.debt <= pool THEN t.debt ELSE pool
  BY DEF Offsetting
<1> HIDE DEF gas, rest, offsets, o
<1>4. /\ s = [f \in StateNames |-> s[f]]
      /\ {s.totalCollateral, s.totalDebt, pool} \subseteq Int
  BY DEF IsState, TallyNames
<1>5. /\ paid = [f \in StateNames |-> paid[f]] /\ paid.price = s.price
      /\ paid.totalCollateral = s.totalCollateral - gas /\ paid.totalDebt = s.totalDebt
      /\ paid.tokensInStabilityPool = pool
      /\ paid.collSurplusPoolBalance = s.collSurplusPoolBalance
      /\ paid.totalProtocolTokensStaked = s.totalProtocolTokensStaked
  BY <1>4 DEF StateNames, TallyNames
<1> HIDE DEF paid
<1>6. Gone(after)
  <2>1. CASE o = 0
    <3>1. (rest * o) \div t.debt = 0
      <4>1. rest * o = 0 * t.debt
        BY <1>2, <2>1, SMT
      <4> QED
        BY <4>1, Divides
    <3>2. after = paid
      BY <1>3, <1>4, <1>5, <2>1 DEF TryToOffset
    <3> HIDE DEF after
    <3> QED
      BY <1>2, <1>4, <1>5, <2>1, <3>1, <3>2
  <2>2. CASE o # 0 /\ t.debt <= pool
    <3>1. offsets /\ o = t.debt
      BY <1>3, <2>2
    <3>2. (rest * o) \div t.debt = rest
      BY <1>2, <3>1, Divides
    <3>3. after = [paid EXCEPT !.totalCollateral = @ - rest, !.totalDebt = @ - t.debt,
                               !.tokensInStabilityPool = @ - t.debt]
      BY <1>5, <2>2, <3>1 DEF TryToOffset
    <3> HIDE DEF after
    <3>4. /\ after = [f \in StateNames |-> after[f]] /\ after.price = paid.price
          /\ after.totalCollateral = paid.totalCollateral - rest
          /\ after.totalDebt = paid.totalDebt - t.debt
          /\ after.tokensInStabilityPool = paid.tokensInStabilityPool - t.debt
          /\ after.collSurplusPoolBalance = paid.collSurplusPoolBalance
          /\ after.totalProtocolTokensStaked = paid.totalProtocolTokensStaked
      BY <1>5, <3>3 DEF StateNames, TallyNames
    <3> QED
      BY <1>2, <1>4, <1>5, <3>1, <3>2, <3>4
  <2>3. CASE o # 0 /\ ~(t.debt <= pool)
    <3>1. offsets /\ o = pool /\ pool > 0
      BY <1>3, <1>4, <2>3
    <3> DEFINE part == (rest * pool) \div t.debt
    <3>2. part \in Int
      <4>1. rest * pool \in Nat
        BY <1>2, SMT
      <4> QED
        BY <4>1, Quotient
    <3>3. after = [paid EXCEPT !.totalCollateral = @ - part, !.totalDebt = @ - pool,
                               !.tokensInStabilityPool = 0]
      BY <1>5, <2>3, <3>1 DEF TryToOffset
    <3> HIDE DEF after, part, pool
    <3>4. /\ after = [f \in StateNames |-> after[f]] /\ after.price = paid.price
          /\ after.totalCollateral = paid.totalCollateral - part
          /\ after.totalDebt = paid.totalDebt - pool
          /\ after.tokensInStabilityPool = 0
          /\ after.collSurplusPoolBalance = paid.collSurplusPoolBalance
          /\ after.totalProtocolTokensStaked = paid.totalProtocolTokensStaked
      BY <1>5, <3>3 DEF StateNames, TallyNames
    <3> QED
      BY <1>2, <1>4, <1>5, <3>1, <3>2, <3>4 DEF part
  <2> QED
    BY <2>1, <2>2, <2>3
<1> HIDE DEF after, ratio
<1>7. Gone(next)
  BY <1>6 DEF StateNames, TallyNames
<1>8. (rest * o) \div t.debt \in Int /\ o \in Int
  <2>1. o \in Nat
    BY <1>3
  <2>2. rest * o \in Nat
    BY <1>2, <2>1, SMT
  <2> QED
    BY <2>1, <2>2, Quotient
<1>9. IsState(next)
  <2>1. s.collSurplusPoolBalance \in Int /\ s.totalProtocolTokensStaked \in Int
    BY DEF IsState, TallyNames
  <2> HIDE DEF next
  <2> QED
    BY <1>2, <1>4, <1>7, <1>8, <2>1 DEF IsState, TallyNames
<1> QED
  BY <1>1, <1>7, <1>9 DEF gas, rest, o

\* What a liquidation takes from the totals is what the contracts take from the
\* trove and the pool, but for what they keep to redistribute.
LEMMA LiquidationTallied ==
    ASSUME NEW a, IsBooks(a), TrovesBooked(a), PoolBooked(a),
           NEW u \in Users, a.troves[u].stake # 0, NEW m, Accrued(a, m, u),
           NEW d, NEW x \in Int, NEW y \in Int, Tallied(d, m, x, y), d.state.price = a.price,
           d.troves[u].collateral = m.troves[u].coll, d.troves[u].debt = m.troves[u].debt,
           NEW op \in {"liquidateInNormalMode", "liquidateInRecoveryMode"},
           NEW r, TroveTallied(d, r, op, u, 0, 0), SameUsers(d, r)
    PROVE  /\ Tallied(r, LiquidatedBooks(a, u, op), x + RestOf(a, u) - TakenOf(a, u, op),
                      y + Entire(a, u).debt - OffsetOf(a, u, op))
           /\ r.state.price = a.price
<1> DEFINE c == LiquidatedBooks(a, u, op)
           o == OffsetOf(a, u, op)
           t == TakenOf(a, u, op)
           rest == RestOf(a, u)
           coll == Entire(a, u).coll
           debt == Entire(a, u).debt
           v == d.troves[u]
           closed == ClosedTrove(a, u, "closedByLiquidation")
           g(f) == Parts(m)[f]
           h(f) == Parts(c)[f]
<1>1. /\ debt \in Nat \ {0} /\ rest \in Nat /\ o \in 0 .. debt /\ t \in 0 .. rest
  BY LiquidationAmounts
<1>2. coll \in Nat
  BY Worth
<1>3. v.collateral = coll /\ v.debt = debt /\ Entire(m, u) = [coll |-> coll, debt |-> debt]
  BY DEF Accrued, Entire
<1>4. PoolSize(a) \in Nat
  BY PoolIsANumber
<1>5. /\ BooksKeep(a, c, {"troves", "closedBy", "losses", "gains"})
      /\ Puts(a, c, u, "closedByLiquidation", 0, 0, 0)
  BY LiquidateBooks
<1>6. /\ HasBooks(m) /\ Puts(m, c, u, "closedByLiquidation", 0, 0, 0)
      /\ m.deposits = a.deposits /\ m.losses = a.losses
      /\ m.surplus = a.surplus /\ m.staked = a.staked
  BY <1>5 DEF Accrued, SameAccounts
<1>7. c.surplus = m.surplus /\ c.staked = m.staked
  BY <1>5, <1>6 DEF BooksKeep, BookNames
<1>8. PoolSize(c) = PoolSize(a) - o
  <2>1. BooksKeep(a, closed, {"troves", "closedBy"})
    BY CloseBooks
  <2> HIDE DEF closed
  <2>2. IsBooks(closed) /\ PoolBooked(closed)
    <3>1. PoolBooked(closed)
      BY <2>1, AccountsKeptInBooks
    <3> QED
      BY <2>1, <3>1 DEF BooksKeep
  <2>3. PoolSize(closed) = PoolSize(a)
    <3>1. closed.deposits = a.deposits /\ closed.losses = a.losses
      BY <2>1 DEF BooksKeep, BookNames
    <3> QED
      BY <3>1 DEF PoolSize, Compounded
  <2>4. o \in Nat /\ o <= PoolSize(a)
    <3>1. o = 0 \/ (o = debt /\ debt <= PoolSize(a)) \/ o = PoolSize(a)
      BY DEF OffsetOf
    <3> HIDE DEF o, debt
    <3> QED
      BY <1>1, <1>4, <3>1
  <2>5. c = IF o = 0 THEN closed ELSE TakeLosses(closed, o, t)
    BY DEF LiquidatedBooks, closed
  <2> HIDE DEF o, t, c
  <2>6. PoolSize(TakeLosses(closed, o, t)) = PoolSize(closed) - o
    BY <2>2, <2>3, <2>4, PoolTaken
  <2> QED
    BY <1>4, <2>3, <2>4, <2>5, <2>6
<1> HIDE DEF coll, debt, rest, o, t, c, v
<1>9. /\ HasState(d)
      /\ \A f \in TallyNames : /\ \A w \in Users : g(f)[w] \in Int
                               /\ d.state[f] = Total(g(f), Users) + Moved(x, y)[f]
  BY DEF Tallied
<1>10. /\ d.state.totalCollateral = Total(Parts(m).totalCollateral, Users) + x
       /\ d.state.totalDebt = Total(Parts(m).totalDebt, Users) + y
       /\ d.state.tokensInStabilityPool = PoolSize(a)
       /\ d.state.collSurplusPoolBalance = Total(Parts(m).collSurplusPoolBalance, Users)
       /\ d.state.totalProtocolTokensStaked = Total(Parts(m).totalProtocolTokensStaked, Users)
  <2>1. \A f \in TallyNames : Total(g(f), Users) \in Int
    BY <1>9, TotalIsANumber, SubgraphAssumption
  <2>2. Total(Parts(m).tokensInStabilityPool, Users) = PoolSize(a)
    BY <1>6 DEF Parts, PoolSize, Compounded
  <2> QED
    BY <1>9, <2>1, <2>2 DEF Moved, TallyNames
<1>11. PICK s : /\ IsState(s) /\ SameNumbers(d.state, s)
                /\ LET next == StateAfterTroveChange(s, op, v, 0, 0)
                   IN IsState(next) => Settles(r, next)
  BY <1>9 DEF TroveTallied, v
<1>12. s.price = a.price /\ \A f \in TallyNames : s[f] = d.state[f]
  BY <1>11 DEF SameNumbers
<1>13. s.tokensInStabilityPool = PoolSize(a)
  BY <1>10, <1>12 DEF TallyNames
<1> DEFINE next == StateAfterTroveChange(s, op, v, 0, 0)
           gas == coll \div GasDivisor
<1>14. o = Offsetting(op, v, s.price, s.tokensInStabilityPool)
  BY <1>3, <1>12, <1>13 DEF OffsetOf, Offsetting, o, coll, debt
<1>15. rest = coll - gas /\ t = (rest * o) \div debt
  BY DEF rest, t, RestOf, TakenOf, coll, debt, o
<1>16. /\ IsState(next) /\ next.price = s.price
       /\ next.totalCollateral = s.totalCollateral - gas - t
       /\ next.totalDebt = s.totalDebt - o
       /\ next.tokensInStabilityPool = s.tokensInStabilityPool - o
       /\ next.collSurplusPoolBalance = s.collSurplusPoolBalance
       /\ next.totalProtocolTokensStaked = s.totalProtocolTokensStaked
  BY <1>1, <1>2, <1>3, <1>4, <1>11, <1>13, <1>14, <1>15, LiquidationCounts
<1>17. Settles(r, next)
  BY <1>11, <1>16
<1> HIDE DEF next
<1>18. gas \in Nat
  BY <1>2, Quotient, Parameters
<1> HIDE DEF gas
<1>19. HasState(r) /\ r.state.price = a.price /\ \A f \in TallyNames : r.state[f] = next[f]
  BY <1>12, <1>16, <1>17 DEF Settles, SameNumbers
<1>20. Entire(c, u) = [coll |-> 0, debt |-> 0] /\ \A w \in Users \ {u} : Entire(c, w) = Entire(m, w)
  <2>1. Entire(c, u) = [coll |-> 0, debt |-> 0]
    BY <1>6, EntireWhenPut
  <2>2. \A w \in Users \ {u} : Entire(c, w) = Entire(m, w)
    BY <1>6 DEF Puts, HasBooks, Entire
  <2> QED
    BY <2>1, <2>2
<1>21. /\ \A w \in Users : Parts(c).totalCollateral[w] \in Int
       /\ Total(Parts(c).totalCollateral, Users)
             = Total(Parts(m).totalCollateral, Users) - coll
  <2> DEFINE k == Parts(m).totalCollateral
             l == Parts(c).totalCollateral
  <2>1. \A w \in Users : k[w] = Entire(m, w).coll /\ l[w] = Entire(c, w).coll
    BY DEF Parts
  <2>2. \A w \in Users : k[w] \in Int
    BY <1>9 DEF TallyNames
  <2> HIDE DEF k, l
  <2>3. k[u] = coll /\ l[u] = 0 /\ \A w \in Users \ {u} : l[w] = k[w]
    BY <1>3, <1>20, <2>1
  <2>4. \A w \in Users : l[w] \in Int /\ (w # u => l[w] = k[w])
    BY <2>2, <2>3
  <2>5. Total(l, Users) = Total(k, Users) + (l[u] - k[u]) /\ Total(k, Users) \in Int
    BY <2>2, <2>4, TotalMoves, TotalIsANumber, SubgraphAssumption
  <2>6. Total(l, Users) = Total(k, Users) - coll
    BY <1>2, <2>3, <2>5
  <2> QED
    BY <2>4, <2>6 DEF k, l
<1>22. /\ \A w \in Users : Parts(c).totalDebt[w] \in Int
       /\ Total(Parts(c).totalDebt, Users) = Total(Parts(m).totalDebt, Users) - debt
  <2> DEFINE k == Parts(m).totalDebt
             l == Parts(c).totalDebt
  <2>1. \A w \in Users : k[w] = Entire(m, w).debt /\ l[w] = Entire(c, w).debt
    BY DEF Parts
  <2>2. \A w \in Users : k[w] \in Int
    BY <1>9 DEF TallyNames
  <2> HIDE DEF k, l
  <2>3. k[u] = debt /\ l[u] = 0 /\ \A w \in Users \ {u} : l[w] = k[w]
    BY <1>3, <1>20, <2>1
  <2>4. \A w \in Users : l[w] \in Int /\ (w # u => l[w] = k[w])
    BY <2>2, <2>3
  <2>5. Total(l, Users) = Total(k, Users) + (l[u] - k[u]) /\ Total(k, Users) \in Int
    BY <2>2, <2>4, TotalMoves, TotalIsANumber, SubgraphAssumption
  <2>6. Total(l, Users) = Total(k, Users) - debt
    BY <1>1, <2>3, <2>5
  <2> QED
    BY <2>4, <2>6 DEF k, l
<1>23. /\ \A w \in Users : Parts(c).tokensInStabilityPool[w] \in Int
       /\ Total(Parts(c).tokensInStabilityPool, Users) = PoolSize(a) - o
  <2>1. Total(Parts(c).tokensInStabilityPool, Users) = PoolSize(c)
    BY DEF Parts, PoolSize
  <2>2. PoolBooked(c)
    BY LiquidateBooks DEF c
  <2>3. \A w \in Users : Parts(c).tokensInStabilityPool[w] \in Int
    BY <2>2 DEF Parts, Compounded, PoolBooked
  <2> QED
    BY <1>8, <2>1, <2>3
<1>24. /\ Parts(c).collSurplusPoolBalance = Parts(m).collSurplusPoolBalance
       /\ Parts(c).totalProtocolTokensStaked = Parts(m).totalProtocolTokensStaked
  BY <1>7 DEF Parts
<1> DEFINE xx == x + rest - t
           yy == y + debt - o
<1>25. /\ Moved(xx, yy).totalCollateral = xx /\ Moved(xx, yy).totalDebt = yy
       /\ Moved(xx, yy).tokensInStabilityPool = 0
       /\ Moved(xx, yy).collSurplusPoolBalance = 0
       /\ Moved(xx, yy).totalProtocolTokensStaked = 0
  BY DEF Moved, TallyNames
<1>26. \A f \in TallyNames : \A w \in Users : h(f)[w] \in Int
  BY <1>9, <1>21, <1>22, <1>23, <1>24 DEF TallyNames
<1>27. \A f \in TallyNames : r.state[f] = Total(h(f), Users) + Moved(xx, yy)[f]
  <2> DEFINE gColl == Total(Parts(m).totalCollateral, Users)
             gDebt == Total(Parts(m).totalDebt, Users)
             gSurplus == Total(Parts(m).collSurplusPoolBalance, Users)
             gStaked == Total(Parts(m).totalProtocolTokensStaked, Users)
             hColl == Total(Parts(c).totalCollateral, Users)
             hDebt == Total(Parts(c).totalDebt, Users)
             hPool == Total(Parts(c).tokensInStabilityPool, Users)
             hSurplus == Total(Parts(c).collSurplusPoolBalance, Users)
             hStaked == Total(Parts(c).totalProtocolTokensStaked, Users)
  <2>1. \A f \in TallyNames : Total(Parts(m)[f], Users) \in Int
    BY <1>9, TotalIsANumber, SubgraphAssumption
  <2>2. /\ gColl \in Int /\ gDebt \in Int
        /\ gSurplus \in Int /\ gStaked \in Int
    BY <2>1 DEF TallyNames
  <2>3. /\ hColl = gColl - coll
        /\ hDebt = gDebt - debt
        /\ hPool = PoolSize(a) - o
        /\ hSurplus = gSurplus
        /\ hStaked = gStaked
    BY <1>21, <1>22, <1>23, <1>24
  <2>4. /\ r.state.totalCollateral = gColl + x - gas - t
        /\ r.state.totalDebt = gDebt + y - o
        /\ r.state.tokensInStabilityPool = PoolSize(a) - o
        /\ r.state.collSurplusPoolBalance = gSurplus
        /\ r.state.totalProtocolTokensStaked = gStaked
    <3>1. TallyNames = {"totalCollateral", "totalDebt", "tokensInStabilityPool",
                        "collSurplusPoolBalance", "totalProtocolTokensStaked"}
      BY DEF TallyNames
    <3>2. /\ s.totalCollateral = d.state.totalCollateral /\ s.totalDebt = d.state.totalDebt
          /\ s.tokensInStabilityPool = d.state.tokensInStabilityPool
          /\ s.collSurplusPoolBalance = d.state.collSurplusPoolBalance
          /\ s.totalProtocolTokensStaked = d.state.totalProtocolTokensStaked
      BY <1>12, <3>1
    <3>3. /\ r.state.totalCollateral = next.totalCollateral
          /\ r.state.totalDebt = next.totalDebt
          /\ r.state.tokensInStabilityPool = next.tokensInStabilityPool
          /\ r.state.collSurplusPoolBalance = next.collSurplusPoolBalance
          /\ r.state.totalProtocolTokensStaked = next.totalProtocolTokensStaked
      BY <1>19, <3>1
    <3>4. /\ s.totalCollateral = gColl + x /\ s.totalDebt = gDebt + y
          /\ s.tokensInStabilityPool = PoolSize(a)
          /\ s.collSurplusPoolBalance = gSurplus /\ s.totalProtocolTokensStaked = gStaked
      BY <1>10, <3>2
    <3> HIDE DEF gColl, gDebt, gSurplus, gStaked
    <3>5. gColl + x \in Int /\ gDebt + y \in Int
      BY <2>2
    <3> QED
      BY <1>1, <1>4, <1>16, <1>18, <2>2, <3>3, <3>4, <3>5
  <2> HIDE DEF gColl, gDebt, gSurplus, gStaked, hColl, hDebt, hPool, hSurplus, hStaked
  <2>5. /\ r.state.totalCollateral = hColl + Moved(xx, yy).totalCollateral
        /\ r.state.totalDebt = hDebt + Moved(xx, yy).totalDebt
        /\ r.state.tokensInStabilityPool
              = hPool + Moved(xx, yy).tokensInStabilityPool
        /\ r.state.collSurplusPoolBalance
              = hSurplus + Moved(xx, yy).collSurplusPoolBalance
        /\ r.state.totalProtocolTokensStaked
              = hStaked + Moved(xx, yy).totalProtocolTokensStaked
    BY <1>1, <1>2, <1>4, <1>15, <1>18, <1>25, <2>2, <2>3, <2>4
  <2> QED
    BY <2>5 DEF TallyNames, hColl, hDebt, hPool, hSurplus, hStaked
<1>28. c.surplus \in [Users -> Int] /\ \A w \in Users : r.users[w].collSurplus = c.surplus[w]
  BY <1>7 DEF Tallied, SameUsers
<1>29. Tallied(r, c, xx, yy)
  BY <1>19, <1>26, <1>27, <1>28 DEF Tallied
<1> QED
  BY <1>19, <1>29 DEF c, o, t, rest, debt

LEMMA LiquidateStep ==
    ASSUME NEW d0, NEW b, NEW step, NEW liq, LiquidatedTo(d0, b, step, liq),
           NEW tx \in Nat, NEW u \in Users \ liq, b.troves[u].stake # 0,
           NEW op \in {"liquidateInNormalMode", "liquidateInRecoveryMode"}
    PROVE  LiquidatedTo(d0, b, LiquidateOne(step, tx, u, op), liq \union {u})
<1> DEFINE s == LiquidateOne(step, tx, u, op)
           a == step.books
           c == LiquidatedBooks(a, u, op)
           e == [name |-> "TroveLiquidated", tx |-> tx, user |-> u]
           word == TroveEvent(tx, op, u, 0, 0, 0)
           debt == Entire(a, u).debt
           o == OffsetOf(a, u, op)
           t == TakenOf(a, u, op)
           rest == RestOf(a, u)
<1>1. s.books = c
  BY DEF LiquidateOne, LiquidatedBooks, OffsetOf, TakenOf, RestOf
<1>2. s.events = step.events \o <<e, word>>
  BY DEF LiquidateOne
<1>3. /\ s.coll = step.coll + rest - t
      /\ s.debt = step.debt + debt - o
      /\ s.allDebt = step.allDebt + debt
  BY DEF LiquidateOne, OffsetOf, TakenOf, RestOf
<1> HIDE DEF s, a, c, e, word, debt, o, t, rest
<1>4. PICK d : /\ Replays(d0, step.events, d) /\ Follows(d, a, liq, {})
               /\ Tallied(d, a, step.coll, step.debt) /\ d.state.price = a.price
  BY DEF LiquidatedTo, a
<1>5. /\ BooksKeep(b, a, {"troves", "closedBy", "losses", "gains"})
      /\ TrovesBooked(a) /\ PoolBooked(a) /\ LeftOver(step)
      /\ \A v \in Users \ liq : a.troves[v] = b.troves[v]
  BY DEF LiquidatedTo, a
<1>6. IsBooks(a) /\ a.troves[u].stake # 0
  BY <1>5 DEF BooksKeep
<1>7. /\ BooksKeep(a, c, {"troves", "closedBy", "losses", "gains"})
      /\ Puts(a, c, u, "closedByLiquidation", 0, 0, 0)
      /\ TrovesBooked(c) /\ PoolBooked(c)
  BY <1>5, <1>6, LiquidateBooks DEF c
<1>8. /\ debt \in Nat \ {0} /\ rest \in Nat /\ o \in 0 .. debt /\ t \in 0 .. rest
      /\ o = debt => t = rest
  BY <1>5, <1>6, LiquidationAmounts DEF debt, rest, o, t
<1>9. LeftOver(s)
  <2>1. /\ step.coll \in Nat /\ step.debt \in Nat /\ step.allDebt \in Nat
        /\ step.debt = 0 => step.coll = 0
    BY <1>5 DEF LeftOver
  <2>2. s.coll \in Nat /\ s.debt \in Nat /\ s.allDebt \in Nat
    BY <1>3, <1>8, <2>1
  <2>3. ASSUME s.debt = 0 PROVE s.coll = 0
    <3>1. step.debt + (debt - o) = 0 /\ debt \in Nat /\ o \in Nat /\ o <= debt
      BY <1>3, <1>8, <2>1, <2>3
    <3>2. step.debt = 0 /\ o = debt
      BY <2>1, <3>1
    <3>3. t = rest /\ step.coll = 0
      BY <1>8, <2>1, <3>2
    <3> QED
      BY <1>3, <1>8, <3>3
  <2> QED
    BY <2>2, <2>3 DEF LeftOver
<1>10. /\ IsLiquidation(op) /\ ~IsRedemption(op) /\ StatusAfter(op, 0) = "closedByLiquidation"
  BY DEF IsLiquidation, IsRedemption, StatusAfter
<1>11. e.tx # Null /\ e.name = "TroveLiquidated" /\ e.user = u
  BY NumberIsNotNull DEF e
<1>a. step.coll \in Int /\ step.debt \in Int
  BY <1>5 DEF LeftOver
<1>12. PICK d2, m : /\ Replays(d, <<e>>, d2) /\ Follows(d2, m, liq, {}) /\ Accrued(a, m, u)
                    /\ Tallied(d2, m, step.coll, step.debt) /\ d2.state.price = a.price
  BY <1>4, <1>5, <1>6, <1>11, <1>a, LiquidatedReplayed
<1>13. PICK r : /\ Replays(d2, <<word>>, r) /\ Follows(r, c, liq \union {u}, {})
                /\ SameUsers(d2, r) /\ TroveTallied(d2, r, op, u, 0, 0)
  <2>1. ~(0 = Entire(a, u).coll /\ 0 = Entire(a, u).debt)
    BY <1>8 DEF debt
  <2>2. a.closedBy[u] \in ClosedStatuses => StatusAfter(op, 0) = "open"
    BY <1>5, <1>6 DEF TrovesBooked, ClosedStatuses
  <2>3. HasBooks(m) /\ Puts(m, c, u, StatusAfter(op, 0), 0, 0, 0)
    BY <1>7, <1>10, <1>12 DEF Accrued
  <2>4. SameAccounts(m, c)
    <3>1. SameAccounts(a, c)
      BY <1>7 DEF BooksKeep, BookNames, SameAccounts
    <3> QED
      BY <1>12, <3>1 DEF Accrued, SameAccounts
  <2>a. /\ ~(0 = m.troves[u].coll /\ 0 = m.troves[u].debt)
        /\ m.closedBy[u] \in ClosedStatuses => StatusAfter(op, 0) = "open"
    BY <1>12, <2>1, <2>2 DEF Accrued
  <2>b. HasState(d2)
    BY <1>12 DEF Tallied
  <2>5. \E r : /\ Replays(d2, <<TroveEvent(tx, op, u, 0, 0, 0)>>, r)
               /\ Follows(r, c, InLiquidation(op, liq, u), InRedemption(op, {}, u))
               /\ SameUsers(d2, r) /\ TroveTallied(d2, r, op, u, 0, 0)
    BY <1>10, <1>12, <2>3, <2>4, <2>a, <2>b, WordReplayed
  <2>6. InLiquidation(op, liq, u) = liq \union {u} /\ InRedemption(op, {}, u) = {}
    BY <1>10 DEF InLiquidation, InRedemption
  <2> QED
    BY <2>5, <2>6 DEF word
<1>14. Replays(d, <<e, word>>, r)
  BY <1>12, <1>13, TwoReplayed
<1>15. Replays(d0, step.events \o <<e, word>>, r)
  BY <1>4, <1>14, QueuesReplayed
<1>16. BooksKeep(b, c, {"troves", "closedBy", "losses", "gains"})
  BY <1>5, <1>7 DEF BooksKeep
<1>17. \A v \in Users \ (liq \union {u}) : c.troves[v] = b.troves[v]
  <2>1. a.troves = [v \in Users |-> a.troves[v]]
    BY <1>5 DEF TrovesBooked
  <2>2. \A v \in Users \ {u} : c.troves[v] = a.troves[v]
    BY <1>7, <2>1 DEF Puts
  <2> QED
    BY <1>5, <2>2
<1>b. Tallied(r, c, s.coll, s.debt) /\ r.state.price = c.price
  <2>1. d2.troves[u].collateral = m.troves[u].coll /\ d2.troves[u].debt = m.troves[u].debt
    BY <1>12 DEF Follows, TroveSide, TroveFollows
  <2>2. Tallied(r, c, step.coll + rest - t, step.debt + debt - o) /\ r.state.price = a.price
    BY <1>5, <1>6, <1>12, <1>13, <1>a, <2>1, LiquidationTallied DEF c, rest, t, debt, o
  <2>3. c.price = a.price
    BY <1>7 DEF BooksKeep, BookNames
  <2> QED
    BY <1>3, <2>2, <2>3
<1>18. LiquidatedTo(d0, b, s, liq \union {u})
  BY <1>1, <1>2, <1>7, <1>9, <1>13, <1>15, <1>16, <1>17, <1>b DEF LiquidatedTo
<1> QED
  BY <1>18 DEF s

\* The event that ends a liquidation, which had troves.
LEMMA LiquidationReplayed ==
    ASSUME NEW d, NEW b, NEW liq, Follows(d, b, liq, {}), liq # {}, Tallied(d, b, 0, 0),
           NEW e, e.tx # Null, e.name = "Liquidation"
    PROVE  LET r == Handle(d, e)
           IN Replays(d, <<e>>, r) /\ Follows(r, b, {}, {}) /\ r.liquidation.troves = liq
<1> DEFINE r == FinishCurrentLiquidation(d, e)
           F == {"liquidation", "transaction"}
           K == {"transactionCount", "liquidationCount", "currentLiquidation"}
<1>1. Handle(d, e) = r
  BY DEF Handle
<1>2. Fits(d, e)
  BY DEF Fits, Follows
<1>3. CallSide(d, liq, {}) /\ IsStore(d) /\ ChainInv(d)
  BY DEF Follows
<1>4. /\ Keeps(d, r, F, K)
      /\ ChainInv(r)
      /\ HasCalls(r)
      /\ r.global.currentLiquidation = Null
      /\ r.liquidation.troves = IF d.global.currentLiquidation # Null
                                THEN d.liquidation.troves ELSE {}
  BY <1>3, LiquidationFinished DEF CallSide
<1> HIDE DEF r
<1>5. r.liquidation.troves = liq
  BY <1>3, <1>4 DEF CallSide
<1>6. /\ r.global.currentRedemption = d.global.currentRedemption
      /\ r.global.tmpDepositUpdate = d.global.tmpDepositUpdate
      /\ r.redemption = d.redemption
  BY <1>4 DEF Keeps, GlobalKeys, OtherKeys, StoreFields
<1>7. CallSide(r, {}, {})
  BY <1>3, <1>4, <1>6 DEF CallSide
<1>8. /\ F \intersect {"troves", "deposits", "users", "frontends", "stakes", "token"} = {}
      /\ K \intersect (TroveCounters \union StakeCounters
                    \union {"rawTotalRedistributedCollateral", "rawTotalRedistributedDebt"}) = {}
  BY DEF TroveCounters, StakeCounters
<1>a. Tallied(r, b, 0, 0)
  BY <1>4, TallyKept
<1> HIDE DEF F, K
<1>9. TroveSide(r, b)
  BY <1>4, <1>8, TrovesKept DEF Follows
<1>10. HasAccounts(r)
  BY <1>4, <1>8, AccountsKept DEF Follows
<1>11. DepositSide(r, b) /\ StakeSide(r, b) /\ TokenSide(r, b)
  BY <1>4, <1>8, DepositsKept, StakesKept, TokensKept DEF Follows
<1>12. IsStore(r)
  BY <1>4 DEF Keeps
<1>13. Follows(r, b, {}, {})
  BY <1>4, <1>7, <1>9, <1>10, <1>11, <1>12, <1>a DEF Follows
<1>14. Replays(d, <<e>>, r)
  BY <1>1, <1>2, EventReplayed
<1> QED
  BY <1>1, <1>5, <1>13, <1>14

\* The terms of the redistribution: the books that have them in.
LEMMA TermsReplayed ==
    ASSUME NEW d, NEW b, NEW c, NEW liq, NEW red, Follows(d, b, liq, red), liq # {},
           BooksKeep(b, c, {"lColl", "lDebt"}),
           NEW e, e.name = "LTermsUpdated", e.coll = c.lColl, e.debt = c.lDebt
    PROVE  LET r == Handle(d, e)
           IN /\ Replays(d, <<e>>, r) /\ Follows(r, c, liq, red)
              /\ Tallied(d, c, 0, 0) => Tallied(r, c, 0, 0)
<1> DEFINE r == UpdateTotalRedistributed(d, e)
           K == {"rawTotalRedistributedCollateral", "rawTotalRedistributedDebt"}
<1>1. Handle(d, e) = r
  BY DEF Handle
<1>2. Fits(d, e)
  BY DEF Fits, Follows
<1>3. Replays(d, <<e>>, r)
  BY <1>1, <1>2, EventReplayed
<1>4. /\ Keeps(d, r, {}, K)
      /\ ChainInv(r)
      /\ r.global.rawTotalRedistributedCollateral = c.lColl
      /\ r.global.rawTotalRedistributedDebt = c.lDebt
  BY TermsHandled DEF Follows
<1> HIDE DEF r
<1>5. /\ c.troves = b.troves /\ c.closedBy = b.closedBy
      /\ c.deposits = b.deposits /\ c.tags = b.tags /\ c.frontends = b.frontends
      /\ c.staked = b.staked /\ c.balances = b.balances
  BY DEF BooksKeep, BookNames
<1>6. K \intersect (TroveCounters \union CallKeys \union StakeCounters
                    \union {"tmpDepositUpdate"}) = {}
  BY DEF TroveCounters, CallKeys, StakeCounters
<1>7. TroveSide(r, c)
  <2>1. r.troves = d.troves /\ TroveSide(d, b)
    BY <1>4 DEF Keeps, StoreFields, Follows
  <2>2. \A k \in TroveCounters : r.global[k] = d.global[k]
    BY <1>4, <1>6 DEF Keeps, GlobalKeys
  <2>3. \A s \in Statuses \ {"nonExistent"} : r.global[KeyOf(s)] = d.global[KeyOf(s)]
    BY <2>2, Keys DEF Statuses, ClosedStatuses, TroveCounters
  <2>4. r.global.totalNumberOfTroves = d.global.totalNumberOfTroves
    BY <2>2 DEF TroveCounters
  <2>5. \A s : With(r, s) = With(d, s)
    BY <2>1 DEF With
  <2>6. CountersFollow(r)
    BY <2>1, <2>3, <2>4, <2>5 DEF TroveSide, CountersFollow
  <2>7. HasTroves(r)
    BY <2>1 DEF TroveSide, HasTroves
  <2> QED
    BY <1>4, <1>5, <2>1, <2>6, <2>7 DEF TroveSide, TroveFollows
<1>8. HasAccounts(r)
  BY <1>4, AccountsKept DEF Follows
<1>9. DepositSide(r, c) /\ StakeSide(r, c) /\ TokenSide(r, c)
  <2>1. DepositSide(r, b) /\ StakeSide(r, b) /\ TokenSide(r, b)
    BY <1>4, <1>6, DepositsKept, StakesKept, TokensKept DEF Follows
  <2> QED
    BY <1>5, <2>1, SameDeposits, SameStakes, SameTokens
<1>10. CallSide(r, liq, red)
  BY <1>4, <1>6, CallsKept DEF Follows
<1>11. IsStore(r)
  BY <1>4 DEF Keeps
<1>12. Tallied(d, c, 0, 0) => Tallied(r, c, 0, 0)
  BY <1>4, TallyKept
<1> QED
  BY <1>1, <1>3, <1>4, <1>7, <1>8, <1>9, <1>10, <1>11, <1>12 DEF Follows

\* What is left over is shared out in whole amounts per unit of stake.
LEMMA Share ==
    ASSUME NEW x \in Nat, NEW S \in Nat \ {0}, x % S = 0
    PROVE  (x * Scaling) \div S \in Nat /\ IsTerm((x * Scaling) \div S)
<1> DEFINE k == x \div S
           y == k * Scaling
<1>1. k \in Nat /\ x = k * S
  BY SMT
<1> HIDE DEF k
<1>2. Scaling \in Nat
  BY Parameters
<1>3. y \in Nat
  BY <1>1, <1>2, SMT
<1>4. x * Scaling = y * S
  BY <1>1, <1>2, SMT
<1> HIDE DEF y
<1>5. (x * Scaling) \div S = y
  BY <1>3, <1>4, Divides
<1> QED
  BY <1>1, <1>3, <1>5 DEF IsTerm, y

LEMMA TermsAdd ==
    ASSUME NEW k, NEW l, IsTerm(k), IsTerm(l)
    PROVE  IsTerm(k + l)
<1>1. PICK i \in Nat : k = i * Scaling
  BY DEF IsTerm
<1>2. PICK j \in Nat : l = j * Scaling
  BY DEF IsTerm
<1>3. k + l = (i + j) * Scaling
  BY <1>1, <1>2, Parameters, SMT
<1> QED
  BY <1>3 DEF IsTerm

LEMMA NothingShared ==
    ASSUME NEW S \in Nat \ {0}
    PROVE  (0 * Scaling) \div S = 0
<1>1. 0 * Scaling = 0 * S
  BY Parameters, SMT
<1> QED
  BY <1>1, Divides

LEMMA StakesAreNumbers ==
    ASSUME NEW b, TrovesBooked(b)
    PROVE  StakesOf(b) \in Nat
<1> DEFINE f == [u \in Users |-> b.troves[u].stake]
           A == Active(b)
<1>1. \A u \in Users : f[u] \in Nat
  BY Worth
<1>2. A \subseteq Users
  BY DEF Active
<1>3. StakesOf(b) = Total(f, A)
  BY DEF StakesOf, Stakes
<1> HIDE DEF f, A
<1>4. IsFiniteSet(A)
  BY <1>2, SubgraphAssumption, FS_Subset
<1> QED
  BY <1>1, <1>2, <1>3, <1>4, TotalIsANumber

LEMMA SharedOutBooks ==
    ASSUME NEW done, IsBooks(done.books), TrovesBooked(done.books), LeftOver(done),
           CanRedistribute(done)
    PROVE  /\ BooksKeep(done.books, SharedOut(done), {"lColl", "lDebt"})
           /\ TrovesBooked(SharedOut(done))
           /\ done.debt = 0 => BooksKeep(done.books, SharedOut(done), {})
<1> DEFINE b == done.books
           c == SharedOut(done)
           S == StakesOf(b)
           moreColl == (done.coll * Scaling) \div S
           moreDebt == (done.debt * Scaling) \div S
           l == b.lColl + moreColl
           m == b.lDebt + moreDebt
<1>1. S \in Nat \ {0} /\ done.coll % S = 0 /\ done.debt % S = 0
  <2>1. S > 0 /\ done.coll % S = 0 /\ done.debt % S = 0
    BY DEF CanRedistribute, StakesOf
  <2>2. S \in Nat
    BY StakesAreNumbers
  <2> HIDE DEF S
  <2> QED
    BY <2>1, <2>2
<1>2. c = [b EXCEPT !.lColl = l, !.lDebt = m]
  BY DEF SharedOut
<1> HIDE DEF c, S
<1>3. done.coll \in Nat /\ done.debt \in Nat /\ (done.debt = 0 => done.coll = 0)
  BY DEF LeftOver
<1>4. /\ moreColl \in Nat /\ IsTerm(moreColl)
      /\ moreDebt \in Nat /\ IsTerm(moreDebt)
  BY <1>1, <1>3, Share
<1>5. done.debt = 0 => moreColl = 0 /\ moreDebt = 0
  BY <1>1, <1>3, NothingShared
<1> HIDE DEF moreColl, moreDebt
<1>6. b.lColl \in Nat /\ b.lDebt \in Nat /\ IsTerm(b.lColl) /\ IsTerm(b.lDebt)
  BY DEF TrovesBooked
<1>7. l \in Nat /\ m \in Nat /\ IsTerm(l) /\ IsTerm(m) /\ b.lColl <= l /\ b.lDebt <= m
  BY <1>4, <1>6, TermsAdd
<1>8. done.debt = 0 => l = b.lColl /\ m = b.lDebt
  BY <1>5, <1>6
<1> HIDE DEF l, m, b
<1>9. BooksKeep(b, c, {"lColl", "lDebt"}) /\ c.lColl = l /\ c.lDebt = m
  BY <1>2 DEF IsBooks, BooksKeep, BookNames, b
<1>10. c.troves = b.troves /\ c.closedBy = b.closedBy
  BY <1>9 DEF BooksKeep, BookNames
<1>11. TrovesBooked(c)
  <2>1. /\ b.troves = [u \in Users |-> b.troves[u]]
        /\ b.closedBy = [u \in Users |-> b.closedBy[u]]
        /\ \A u \in Users :
              /\ IsBooked(b, b.troves[u])
              /\ b.closedBy[u] \in Statuses
              /\ b.closedBy[u] = "open" <=> b.troves[u].stake # 0
    BY DEF TrovesBooked, b
  <2>2. ASSUME NEW u \in Users PROVE IsBooked(c, b.troves[u])
    <3> DEFINE t == b.troves[u]
    <3>1. /\ IsBooked(b, t)
      BY <2>1
    <3> HIDE DEF t
    <3>2. t.stake # 0 => t.snapColl \in Nat /\ t.snapDebt \in Nat
      BY <3>1 DEF IsBooked, TroveTerms
    <3>3. t.stake # 0 => t.snapColl <= c.lColl /\ t.snapDebt <= c.lDebt
      BY <1>6, <1>7, <1>9, <3>1, <3>2 DEF IsBooked, b
    <3>4. IsBooked(c, t)
      BY <3>1, <3>3 DEF IsBooked
    <3> QED
      BY <3>4 DEF t
  <2> QED
    BY <1>7, <1>9, <1>10, <2>1, <2>2 DEF TrovesBooked
<1>12. done.debt = 0 => BooksKeep(b, c, {})
  BY <1>8, <1>9 DEF BooksKeep
<1> QED
  BY <1>9, <1>11, <1>12 DEF b, c

LEMMA QuotientAdds ==
    ASSUME NEW n \in Nat, NEW k \in Nat, NEW d \in Nat \ {0}
    PROVE  (n + k * d) \div d = n \div d + k
<1> DEFINE p == n \div d
           l == n + k * d
           q == l \div d
<1>1. p \in Nat /\ d * p <= n /\ n < d * p + d
  BY SMT
<1>2. l \in Nat /\ l = n + d * k
  BY SMT
<1> HIDE DEF l, p
<1>3. q \in Nat /\ d * q <= l /\ l < d * q + d
  BY <1>2, SMT
<1> HIDE DEF q
<1>4. d * (p + k) = d * p + d * k
  BY <1>1, SMT
<1>5. ~(q < p + k)
  <2>1. q < p + k => d * (q + 1) <= d * (p + k)
    BY <1>1, <1>3, SMT
  <2>2. d * (q + 1) = d * q + d
    BY <1>3, SMT
  <2>3. d * q \in Int /\ d * p \in Int /\ d * k \in Int
    BY <1>1, <1>3, SMT
  <2> QED
    BY <1>1, <1>2, <1>3, <1>4, <2>1, <2>2, <2>3
<1>6. ~(p + k < q)
  <2>1. p + k < q => d * ((p + k) + 1) <= d * q
    BY <1>1, <1>3, SMT
  <2>2. d * ((p + k) + 1) = d * (p + k) + d
    BY <1>1, SMT
  <2>3. d * q \in Int /\ d * p \in Int /\ d * k \in Int
    BY <1>1, <1>3, SMT
  <2> QED
    BY <1>1, <1>2, <1>3, <1>4, <2>1, <2>2, <2>3
<1>7. q = p + k
  BY <1>1, <1>3, <1>5, <1>6
<1> QED
  BY <1>7 DEF p, q, l

\* Sharing out gives every trove its part, and all of them what was left over.
LEMMA SharedOutTallied ==
    ASSUME NEW done, IsBooks(done.books), TrovesBooked(done.books), LeftOver(done),
           CanRedistribute(done),
           NEW d, Tallied(d, done.books, done.coll, done.debt)
    PROVE  Tallied(d, SharedOut(done), 0, 0)
<1> DEFINE b == done.books
           c == SharedOut(done)
           S == StakesOf(b)
           k == done.coll \div S
           l == done.debt \div S
           w == [u \in Users |-> b.troves[u].stake]
<1>1. S \in Nat \ {0} /\ done.coll % S = 0 /\ done.debt % S = 0
  <2>1. S > 0 /\ done.coll % S = 0 /\ done.debt % S = 0
    BY DEF CanRedistribute, StakesOf
  <2>2. S \in Nat
    BY StakesAreNumbers
  <2> HIDE DEF S
  <2> QED
    BY <2>1, <2>2
<1>2. done.coll \in Nat /\ done.debt \in Nat
  BY DEF LeftOver
<1>3. /\ BooksKeep(b, c, {"lColl", "lDebt"}) /\ TrovesBooked(c)
  BY SharedOutBooks
<1>4. /\ c.lColl = b.lColl + (done.coll * Scaling) \div S
      /\ c.lDebt = b.lDebt + (done.debt * Scaling) \div S
  BY DEF SharedOut, IsBooks, BookNames
<1>5. /\ c.troves = b.troves /\ c.deposits = b.deposits /\ c.losses = b.losses
      /\ c.surplus = b.surplus /\ c.staked = b.staked
  BY <1>3 DEF BooksKeep, BookNames
<1>6. S = Total(w, Users)
  <2>1. \A u \in Users : w[u] \in Int /\ (u \notin Active(b) => w[u] = 0)
    BY Worth DEF Active
  <2>2. Active(b) \subseteq Users
    BY DEF Active
  <2>3. S = Total(w, Active(b))
    BY DEF StakesOf, Stakes
  <2> HIDE DEF w, S
  <2> QED
    BY <2>1, <2>2, <2>3, TotalWithoutZeros, SubgraphAssumption
<1> HIDE DEF c, S, b
<1>7. /\ k \in Nat /\ done.coll = k * S /\ l \in Nat /\ done.debt = l * S
  BY <1>1, <1>2, SMT
<1> HIDE DEF k, l
<1>8. c.lColl = b.lColl + k * Scaling /\ c.lDebt = b.lDebt + l * Scaling
  <2>1. (done.coll * Scaling) = (k * Scaling) * S /\ (done.debt * Scaling) = (l * Scaling) * S
    BY <1>1, <1>7, Parameters, SMT
  <2>2. k * Scaling \in Nat /\ l * Scaling \in Nat
    BY <1>7, Parameters, SMT
  <2> QED
    BY <1>1, <1>4, <2>1, <2>2, Divides
<1>9. /\ b.lColl \in Nat /\ b.lDebt \in Nat /\ IsTerm(b.lColl) /\ TrovesBooked(b)
  BY DEF TrovesBooked, b
<1>10. UnitNow(c) = UnitNow(b) + k
  <2>1. c.lColl \div Scaling = b.lColl \div Scaling + k
    <3> DEFINE n == b.lColl
    <3>1. n \in Nat /\ c.lColl = n + k * Scaling
      BY <1>8, <1>9
    <3> HIDE DEF n
    <3>2. (n + k * Scaling) \div Scaling = n \div Scaling + k
      BY <1>7, <3>1, QuotientAdds, Parameters
    <3> QED
      BY <3>1, <3>2 DEF n
  <2>2. b.lColl \div Scaling \in Nat
    BY <1>9, TermsNumbered
  <2> QED
    BY <1>7, <2>1, <2>2, Parameters DEF UnitNow
<1>11. ASSUME NEW u \in Users
       PROVE  /\ w[u] \in Nat
              /\ Entire(b, u).coll \in Nat /\ Entire(b, u).debt \in Nat
              /\ Entire(c, u).coll = Entire(b, u).coll + k * w[u]
              /\ Entire(c, u).debt = Entire(b, u).debt + l * w[u]
  <2> DEFINE t == b.troves[u]
             s == t.stake
             n == s * (b.lDebt - t.snapDebt)
  <2>1. s \in Nat /\ Entire(b, u).coll \in Nat /\ Entire(b, u).debt \in Nat
    BY <1>9, Worth
  <2>2. Entire(b, u).coll = s * UnitNow(b) /\ Entire(c, u).coll = s * UnitNow(c)
    BY <1>3, <1>5, <1>9, Worth
  <2>3. t.debt \in Nat /\ t.snapDebt \in Nat /\ IsBooked(b, t)
    BY <1>9 DEF TrovesBooked, IsBooked, TroveTerms
  <2>4. /\ Entire(b, u).debt = t.debt + n \div Scaling
        /\ Entire(c, u).debt = t.debt + (s * (c.lDebt - t.snapDebt)) \div Scaling
    BY <1>5 DEF Entire
  <2>5. s # 0 => t.snapDebt <= b.lDebt
    BY <2>3 DEF IsBooked
  <2>6. w[u] = s
    OBVIOUS
  <2> HIDE DEF t, s, w
  <2>7. n \in Nat
    BY <1>9, <2>1, <2>3, <2>5, SMT
  <2>8. s * (c.lDebt - t.snapDebt) = n + (l * s) * Scaling /\ l * s \in Nat
    <3> DEFINE a == b.lDebt - t.snapDebt
    <3>1. a \in Int /\ c.lDebt - t.snapDebt = a + l * Scaling
      <4>1. l * Scaling \in Int
        BY <1>7, Parameters, SMT
      <4> QED
        BY <1>8, <1>9, <2>3, <4>1
    <3>2. n = s * a
      OBVIOUS
    <3> HIDE DEF a, n
    <3>3. s * (a + l * Scaling) = s * a + (l * s) * Scaling /\ l * s \in Nat
      BY <1>7, <2>1, <3>1, Parameters, SMT
    <3> QED
      BY <3>1, <3>2, <3>3
  <2> HIDE DEF n
  <2>9. (n + (l * s) * Scaling) \div Scaling = n \div Scaling + l * s
    BY <2>7, <2>8, QuotientAdds, Parameters
  <2>10. n \div Scaling \in Nat
    BY <2>7, Quotient, Parameters
  <2>11. Entire(c, u).debt = Entire(b, u).debt + l * s
    BY <2>3, <2>4, <2>8, <2>9, <2>10
  <2>12. s * UnitNow(c) = s * UnitNow(b) + k * s
    <3>1. UnitNow(b) \in Nat
      BY <1>9, UnitIsPositive
    <3> QED
      BY <1>7, <1>10, <2>1, <3>1, SMT
  <2> QED
    BY <2>1, <2>2, <2>6, <2>11, <2>12
<1> HIDE DEF w
<1>12. /\ \A u \in Users : Parts(c).totalCollateral[u] \in Int
       /\ Total(Parts(c).totalCollateral, Users)
             = Total(Parts(b).totalCollateral, Users) + done.coll
  <2> DEFINE f == Parts(b).totalCollateral
             h == Parts(c).totalCollateral
  <2>1. \A u \in Users : f[u] = Entire(b, u).coll /\ h[u] = Entire(c, u).coll
    BY DEF Parts
  <2> HIDE DEF f, h
  <2>2. \A u \in Users : f[u] \in Int /\ w[u] \in Int /\ h[u] = f[u] + k * w[u]
    BY <1>11, <2>1
  <2>3. Total(h, Users) = Total(f, Users) + k * S
    BY <1>6, <1>7, <2>2, TotalAdds, SubgraphAssumption
  <2>4. \A u \in Users : h[u] \in Int
    <3> TAKE u \in Users
    <3>1. k * w[u] \in Int
      BY <1>7, <2>2, SMT
    <3> QED
      BY <2>2, <3>1
  <2> QED
    BY <1>7, <2>3, <2>4 DEF f, h
<1>13. /\ \A u \in Users : Parts(c).totalDebt[u] \in Int
       /\ Total(Parts(c).totalDebt, Users) = Total(Parts(b).totalDebt, Users) + done.debt
  <2> DEFINE f == Parts(b).totalDebt
             h == Parts(c).totalDebt
  <2>1. \A u \in Users : f[u] = Entire(b, u).debt /\ h[u] = Entire(c, u).debt
    BY DEF Parts
  <2> HIDE DEF f, h
  <2>2. \A u \in Users : f[u] \in Int /\ w[u] \in Int /\ h[u] = f[u] + l * w[u]
    BY <1>11, <2>1
  <2>3. Total(h, Users) = Total(f, Users) + l * S
    BY <1>6, <1>7, <2>2, TotalAdds, SubgraphAssumption
  <2>4. \A u \in Users : h[u] \in Int
    <3> TAKE u \in Users
    <3>1. l * w[u] \in Int
      BY <1>7, <2>2, SMT
    <3> QED
      BY <2>2, <3>1
  <2> QED
    BY <1>7, <2>3, <2>4 DEF f, h
<1>14. /\ Parts(c).tokensInStabilityPool = Parts(b).tokensInStabilityPool
       /\ Parts(c).collSurplusPoolBalance = Parts(b).collSurplusPoolBalance
       /\ Parts(c).totalProtocolTokensStaked = Parts(b).totalProtocolTokensStaked
  BY <1>5 DEF Parts, Compounded
<1>15. /\ Tallied(d, b, done.coll, done.debt)
  BY DEF b
<1>16. \A f \in TallyNames :
          /\ \A u \in Users : Parts(c)[f][u] \in Int
          /\ d.state[f] = Total(Parts(c)[f], Users) + Moved(0, 0)[f]
  <2>1. \A f \in TallyNames :
           /\ Total(Parts(b)[f], Users) \in Int
           /\ \A u \in Users : Parts(b)[f][u] \in Int
           /\ d.state[f] = Total(Parts(b)[f], Users) + Moved(done.coll, done.debt)[f]
    BY <1>15, TotalIsANumber, SubgraphAssumption DEF Tallied
  <2>2. ASSUME NEW f \in TallyNames \ {"totalCollateral", "totalDebt"}
        PROVE  Parts(c)[f] = Parts(b)[f]
    BY <1>14 DEF TallyNames
  <2>3. \A f \in TallyNames : Moved(0, 0)[f] = 0
    BY DEF Moved
  <2>4. \A f \in TallyNames : Moved(done.coll, done.debt)[f]
                                 = IF f = "totalCollateral" THEN done.coll
                                   ELSE IF f = "totalDebt" THEN done.debt ELSE 0
    BY DEF Moved
  <2> QED
    BY <1>2, <1>12, <1>13, <2>1, <2>2, <2>3, <2>4
<1> QED
  BY <1>5, <1>15, <1>16 DEF Tallied, c

\* liquidate() and liquidateTroves().
LEMMA LiquidateReplayed ==
    ASSUME NEW d, NEW b, Follows(d, b, {}, {}), IsBooks(b), TrovesBooked(b), PoolBooked(b),
           NEW tx \in Nat, NEW u \in Users, NEW v \in Users,
           NEW us, OneOrTwo(us, u, v), TrovesOpen(b, us),
           NEW op \in {"liquidateInNormalMode", "liquidateInRecoveryMode"},
           CanRedistribute(LiquidateTroves(b, tx, us, op))
    PROVE  LET call == Liquidate(b, tx, us, op)
               c == call.books
           IN /\ \E r : /\ Replays(d, call.events, r)
                        /\ Follows(r, c, {}, {})
                        /\ r.liquidation.troves = ToSet(us)
              /\ BooksKeep(b, c, {"troves", "closedBy", "losses", "gains", "lColl", "lDebt"})
              /\ TrovesBooked(c) /\ PoolBooked(c)
<1>0. /\ us \in {<<u>>, <<u, v>>} /\ (us = <<u, v>> => u # v)
      /\ \A i \in DOMAIN us : b.troves[us[i]].stake # 0
  BY DEF OneOrTwo, TrovesOpen
<1> USE <1>0
<1> DEFINE start == LiquidationStart(b, tx)
           done == LiquidateTroves(b, tx, us, op)
           call == Liquidate(b, tx, us, op)
           c == SharedOut(done)
           terms == [name |-> "LTermsUpdated", tx |-> tx, coll |-> c.lColl, debt |-> c.lDebt]
           end == [name |-> "Liquidation", tx |-> tx, coll |-> done.coll, debt |-> done.allDebt]
           mid == IF done.debt = 0 THEN <<>> ELSE <<terms>>
<1>1. call.books = c /\ call.events = (done.events \o mid) \o <<end>>
  BY DEF Liquidate, SharedOut, StakesOf
<1>2. /\ end.tx # Null /\ end.name = "Liquidation"
      /\ terms.name = "LTermsUpdated" /\ terms.coll = c.lColl /\ terms.debt = c.lDebt
  BY NumberIsNotNull
<1> HIDE DEF call, terms, end
<1>3. LiquidatedTo(d, b, start, {})
  <2>1. /\ start.books = b /\ start.events = <<Price(b, tx)>>
        /\ start.coll = 0 /\ start.debt = 0 /\ start.allDebt = 0
    BY DEF LiquidationStart
  <2> HIDE DEF start
  <2>2. \E r : /\ Replays(d, start.events, r) /\ Follows(r, start.books, {}, {})
               /\ Tallied(r, start.books, start.coll, start.debt)
               /\ r.state.price = start.books.price
    BY <2>1, PriceReplayed DEF Follows
  <2>3. LeftOver(start)
    BY <2>1 DEF LeftOver
  <2>4. BooksKeep(b, start.books, {"troves", "closedBy", "losses", "gains"})
    BY <2>1 DEF BooksKeep
  <2> QED
    BY <2>1, <2>2, <2>3, <2>4 DEF LiquidatedTo
<1>4. LiquidatedTo(d, b, done, ToSet(us)) /\ ToSet(us) # {}
  <2>1. CASE us = <<u>>
    <3>1. b.troves[u].stake # 0 /\ ToSet(us) = {u} /\ {} \union {u} = {u}
      BY <2>1 DEF ToSet
    <3>2. done = LiquidateOne(start, tx, u, op)
      BY <2>1, LiquidatesOne
    <3> HIDE DEF start, done
    <3>3. LiquidatedTo(d, b, LiquidateOne(start, tx, u, op), {} \union {u})
      BY <1>3, <3>1, LiquidateStep
    <3> QED
      BY <3>1, <3>2, <3>3
  <2>2. CASE us = <<u, v>>
    <3>1. /\ b.troves[u].stake # 0 /\ b.troves[v].stake # 0 /\ ToSet(us) = {u, v}
          /\ {} \union {u} = {u} /\ {u} \union {v} = {u, v} /\ v \notin {u}
      BY <2>2 DEF ToSet
    <3> DEFINE one == LiquidateOne(start, tx, u, op)
    <3>2. done = LiquidateOne(one, tx, v, op)
      BY <2>2, LiquidatesTwo
    <3> HIDE DEF start, done
    <3>3. LiquidatedTo(d, b, one, {} \union {u})
      BY <1>3, <3>1, LiquidateStep
    <3> HIDE DEF one
    <3>4. LiquidatedTo(d, b, one, {u})
      BY <3>1, <3>3
    <3>5. LiquidatedTo(d, b, LiquidateOne(one, tx, v, op), {u} \union {v})
      BY <3>1, <3>4, LiquidateStep
    <3> QED
      BY <3>1, <3>2, <3>5
  <2> QED
    BY <2>1, <2>2
<1>5. CanRedistribute(done)
  OBVIOUS
<1> HIDE DEF done
<1>6. PICK m : /\ Replays(d, done.events, m) /\ Follows(m, done.books, ToSet(us), {})
               /\ Tallied(m, done.books, done.coll, done.debt)
  BY <1>4 DEF LiquidatedTo
<1>7. /\ BooksKeep(b, done.books, {"troves", "closedBy", "losses", "gains"})
      /\ TrovesBooked(done.books) /\ PoolBooked(done.books) /\ LeftOver(done)
  BY <1>4 DEF LiquidatedTo
<1>8. /\ BooksKeep(done.books, c, {"lColl", "lDebt"})
      /\ TrovesBooked(c)
      /\ done.debt = 0 => BooksKeep(done.books, c, {})
  BY <1>5, <1>7, SharedOutBooks DEF BooksKeep
<1>a. Tallied(m, c, 0, 0)
  BY <1>5, <1>6, <1>7, SharedOutTallied DEF BooksKeep
<1> HIDE DEF c
<1>9. PICK n : /\ Replays(m, mid, n) /\ Follows(n, c, ToSet(us), {})
               /\ Tallied(n, c, 0, 0)
  <2>1. CASE done.debt = 0
    <3>1. Follows(m, c, ToSet(us), {})
      BY <1>6, <1>8, <2>1, FollowsOtherBooks
    <3>2. Replays(m, mid, m)
      BY <2>1, NothingReplayed
    <3> QED
      BY <1>a, <3>1, <3>2
  <2>2. CASE done.debt # 0
    <3> DEFINE r == Handle(m, terms)
    <3>1. /\ Replays(m, <<terms>>, r) /\ Follows(r, c, ToSet(us), {})
          /\ Tallied(r, c, 0, 0)
      BY <1>2, <1>4, <1>6, <1>8, <1>a, TermsReplayed
    <3> HIDE DEF r
    <3> QED
      BY <2>2, <3>1
  <2> QED
    BY <2>1, <2>2
<1> HIDE DEF mid
<1> DEFINE r == Handle(n, end)
<1>10. Replays(n, <<end>>, r) /\ Follows(r, c, {}, {}) /\ r.liquidation.troves = ToSet(us)
  BY <1>2, <1>4, <1>9, LiquidationReplayed
<1> HIDE DEF r
<1>11. Replays(d, (done.events \o mid) \o <<end>>, r)
  <2>1. Replays(d, done.events \o mid, n)
    BY <1>6, <1>9, QueuesReplayed
  <2> QED
    BY <1>10, <2>1, QueuesReplayed
<1>12. BooksKeep(b, c, {"troves", "closedBy", "losses", "gains", "lColl", "lDebt"})
  BY <1>7, <1>8 DEF BooksKeep
<1>13. PoolBooked(c)
  <2>1. /\ c.deposits = done.books.deposits /\ c.losses = done.books.losses
        /\ c.gains = done.books.gains /\ c.tags = done.books.tags
    BY <1>8 DEF BooksKeep, BookNames
  <2> QED
    BY <1>7, <2>1 DEF PoolBooked
<1> QED
  BY <1>1, <1>8, <1>10, <1>11, <1>12, <1>13 DEF call

-----------------------------------------------------------------------------
(* Deposits: two events of one call, in either order.                       *)

LEMMA DepositBooked ==
    ASSUME NEW b, PoolBooked(b), NEW c, NEW u \in Users, NEW amount \in Nat,
           DepositPut(b, c, u, amount)
    PROVE  PoolBooked(c)
<1>1. c.tags = b.tags
  BY DEF DepositPut, BooksKeep, BookNames
<1>2. /\ c.deposits \in [Users -> Nat] /\ c.losses \in [Users -> Nat]
      /\ c.gains = [v \in Users |-> c.gains[v]]
      /\ \A v \in Users : c.losses[v] <= c.deposits[v]
  BY DEF DepositPut, PoolBooked
<1> QED
  BY <1>1, <1>2 DEF PoolBooked

LEMMA DepositFollowed ==
    ASSUME NEW d, NEW b, Follows(d, b, {}, {}), PoolBooked(b), NEW u \in Users,
           NEW c, NEW amount, DepositPut(b, c, u, amount),
           NEW r, Keeps(d, r, ChangeFields \union {"deposits"},
                        ChainKeys \union {"tmpDepositUpdate"}), ChainInv(r),
           r.global.tmpDepositUpdate = Null,
           NEW frontend, DepositIs(d, r, u, amount, frontend),
           amount > 0 => frontend = b.tags[u],
           amount \in Nat, Moves(d, r, Pooled(amount - Compounded(b, u)))
    PROVE  Follows(r, c, {}, {})
<1> DEFINE F == ChangeFields \union {"deposits"}
           K == ChainKeys \union {"tmpDepositUpdate"}
<1>1. Keeps(d, r, F, K)
  OBVIOUS
<1>2. /\ F \intersect {"troves", "users", "frontends", "stakes", "token",
                       "liquidation", "redemption"} = {}
      /\ K \intersect (TroveCounters \union CallKeys \union StakeCounters
                    \union {"rawTotalRedistributedCollateral", "rawTotalRedistributedDebt"}) = {}
  BY DEF ChangeFields, ChainKeys, TroveCounters, CallKeys, StakeCounters
<1> HIDE DEF F, K
<1>3. /\ r.users = d.users /\ r.frontends = d.frontends /\ r.stakes = d.stakes
      /\ r.token = d.token /\ r.liquidation = d.liquidation /\ r.redemption = d.redemption
      /\ IsStore(r)
  BY <1>1, <1>2 DEF Keeps, StoreFields
<1>4. /\ c.troves = b.troves /\ c.closedBy = b.closedBy
      /\ c.lColl = b.lColl /\ c.lDebt = b.lDebt
      /\ c.tags = b.tags /\ c.frontends = b.frontends
      /\ c.staked = b.staked /\ c.balances = b.balances
  BY DEF DepositPut, BooksKeep, BookNames
<1>5. HasAccounts(d) /\ DepositSide(d, b)
  BY DEF Follows
<1>6. r.deposits = [v \in Users |-> IF v = u THEN [amount |-> amount, frontend |-> frontend]
                                    ELSE d.deposits[v]]
  BY <1>5 DEF HasAccounts, DepositIs
<1>7. HasAccounts(r)
  <2>1. r.deposits = [v \in Users |-> [amount |-> r.deposits[v].amount,
                                       frontend |-> r.deposits[v].frontend]]
    <3>1. d.deposits = [v \in Users |-> [amount |-> d.deposits[v].amount,
                                         frontend |-> d.deposits[v].frontend]]
      BY <1>5 DEF HasAccounts
    <3> QED
      BY <1>6, <3>1
  <2> QED
    BY <1>3, <1>5, <2>1 DEF HasAccounts
<1>8. DepositSide(r, c)
  <2>1. c.deposits = [v \in Users |-> IF v = u THEN amount ELSE b.deposits[v]]
    BY DEF DepositPut, PoolBooked
  <2>2. ASSUME NEW v \in Users PROVE DepositFollows(r, c, v)
    <3>1. DepositFollows(d, b, v)
      BY <1>5 DEF DepositSide
    <3>2. CASE v = u
      BY <1>3, <1>4, <1>6, <2>1, <3>1, <3>2 DEF DepositFollows
    <3>3. CASE v # u
      BY <1>3, <1>4, <1>6, <2>1, <3>1, <3>3 DEF DepositFollows
    <3> QED
      BY <3>2, <3>3
  <2> QED
    BY <1>3, <1>4, <1>5, <2>2 DEF DepositSide
<1>9. TroveSide(r, c) /\ StakeSide(r, c) /\ TokenSide(r, c)
  <2>1. TroveSide(r, b) /\ StakeSide(r, b) /\ TokenSide(r, b)
    BY <1>1, <1>2, TrovesKept, StakesKept, TokensKept DEF Follows
  <2> QED
    BY <1>4, <2>1, SameTroves, SameStakes, SameTokens
<1>10. CallSide(r, {}, {})
  <2>1. CallSide(d, {}, {})
    BY DEF Follows
  <2>2. \A k \in CallKeys : r.global[k] = d.global[k]
    BY <1>1, <1>2 DEF Keeps, GlobalKeys, OtherKeys, CallKeys
  <2>3. /\ r.global.currentLiquidation = d.global.currentLiquidation
        /\ r.global.currentRedemption = d.global.currentRedemption
        /\ r.global.liquidationCount = d.global.liquidationCount
        /\ r.global.redemptionCount = d.global.redemptionCount
    BY <2>2 DEF CallKeys
  <2> QED
    BY <1>3, <2>1, <2>3 DEF CallSide, HasCalls
<1>11. Tallied(r, c, 0, 0)
  <2> DEFINE k == amount - Compounded(b, u)
             f == "tokensInStabilityPool"
  <2>1. Tallied(d, b, 0, 0)
    BY DEF Follows
  <2>2. b.deposits \in [Users -> Nat] /\ b.losses \in [Users -> Nat]
    BY DEF PoolBooked
  <2>3. k \in Int /\ f \in TallyNames
    BY <2>2 DEF Compounded, TallyNames
  <2>4. c.surplus = b.surplus
    BY DEF DepositPut, BooksKeep, BookNames
  <2>5. \A g \in TallyNames \ {f} : Parts(c)[g] = Parts(b)[g]
    BY <1>4, <2>4 DEF Parts, TallyNames, Entire
  <2>6. ASSUME NEW v \in Users
        PROVE  Parts(c)[f][v] = Parts(b)[f][v] + (IF v = u THEN k ELSE 0)
    <3>1. Parts(c)[f][v] = Compounded(c, v) /\ Parts(b)[f][v] = Compounded(b, v)
      BY DEF Parts
    <3>2. /\ c.deposits[v] = IF v = u THEN amount ELSE b.deposits[v]
          /\ c.losses[v] = IF v = u THEN 0 ELSE b.losses[v]
      BY <2>2 DEF DepositPut
    <3>3. b.deposits[v] \in Int /\ b.losses[v] \in Int
      BY <2>2
    <3> QED
      BY <3>1, <3>2, <3>3 DEF Compounded
  <2>7. c.surplus \in [Users -> Int] /\ \A v \in Users : r.users[v].collSurplus = c.surplus[v]
    BY <1>3, <2>1, <2>4 DEF Tallied
  <2>8. Moves(d, r, Only(f, k))
    BY DEF Pooled
  <2> HIDE DEF k, f
  <2> QED
    BY <2>1, <2>3, <2>5, <2>6, <2>7, <2>8, OnePartMoves
<1> QED
  BY <1>3, <1>7, <1>8, <1>9, <1>10, <1>11 DEF Follows

\* A deposit that keeps its amount keeps the frontend it has.
LEMMA FrontendIsTheTag ==
    ASSUME NEW d, NEW b, Follows(d, b, {}, {}), PoolBooked(b), NEW u \in Users,
           NEW left, NEW amount \in Nat,
           left = b.deposits[u] \/ left = b.deposits[u] - b.losses[u],
           NEW m, m.users = d.users, m.deposits[u].frontend = d.deposits[u].frontend,
           amount > 0
    PROVE  TagFor(m, u, left, amount) = b.tags[u]
<1>1. /\ d.users[u].frontend = b.tags[u]
      /\ b.deposits[u] > 0 => d.deposits[u].frontend = b.tags[u]
  BY DEF Follows, DepositSide, DepositFollows
<1>2. b.deposits[u] \in Nat /\ b.losses[u] \in Nat
  BY DEF PoolBooked
<1>3. amount = left => b.deposits[u] > 0
  BY <1>2
<1> QED
  BY <1>1, <1>3 DEF TagFor

\* A deposit that is written as it was.
LEMMA DepositsSame ==
    ASSUME NEW d, NEW m, HasAccounts(d), NEW u \in Users,
           DepositIs(d, m, u, d.deposits[u].amount, d.deposits[u].frontend)
    PROVE  m.deposits = d.deposits
<1> DEFINE f == d.deposits
           x == [amount |-> f[u].amount, frontend |-> f[u].frontend]
<1>1. f = [v \in Users |-> [amount |-> f[v].amount, frontend |-> f[v].frontend]]
  BY DEF HasAccounts
<1>2. m.deposits = [f EXCEPT ![u] = x]
  BY DEF DepositIs
<1> HIDE DEF f
<1>3. f[u] = x
  BY <1>1
<1>4. f = [v \in Users |-> f[v]]
  BY <1>1
<1> HIDE DEF x
<1> QED
  BY <1>2, <1>3, <1>4 DEF f

\* provideToSP() and withdrawFromSP(): the deposit, then the gain.
LEMMA GainAfterDeposit ==
    ASSUME NEW d, NEW b, Follows(d, b, {}, {}), PoolBooked(b), NEW tx \in Nat, NEW u \in Users,
           NEW amount \in Nat, NEW c, DepositPut(b, c, u, amount),
           NEW a, a.losses = b.losses
    PROVE  \E r : /\ Replays(d, <<DepositEvent(tx, u, amount), GainEvent(a, tx, u)>>, r)
                  /\ Follows(r, c, {}, {})
<1> DEFINE e == DepositEvent(tx, u, amount)
           g == GainEvent(a, tx, u)
           m == HandleUserDepositChanged(d, e)
           r == HandleFILGainWithdrawn(m, g)
           F == ChangeFields \union {"deposits"}
           K == ChainKeys \union {"tmpDepositUpdate"}
<1>1. /\ e.tx # Null /\ e.name = "UserDepositChanged" /\ e.user = u /\ e.amount = amount
      /\ g.tx # Null /\ g.name = "FILGainWithdrawn" /\ g.user = u /\ g.loss = b.losses[u]
  BY NumberIsNotNull DEF DepositEvent, GainEvent
<1> HIDE DEF e, g
<1>2. Handle(d, e) = m /\ Handle(m, g) = r
  BY <1>1 DEF Handle
<1>3. IsStore(d) /\ ChainInv(d) /\ HasAccounts(d) /\ d.global.tmpDepositUpdate = Null
      /\ d.deposits[u].amount = b.deposits[u]
  BY DEF Follows, CallSide, DepositSide, DepositFollows
<1>4. /\ Keeps(d, m, F, K) /\ ChainInv(m)
      /\ m.global.tmpDepositUpdate = amount
      /\ DepositIs(d, m, u, d.deposits[u].amount, d.deposits[u].frontend)
  BY <1>1, <1>3, DepositChangedHandled
<1> HIDE DEF m
<1>5. IsStore(m) /\ m.users = d.users /\ m.stakes = d.stakes /\ m.token = d.token
  BY <1>4 DEF Keeps, StoreFields, ChangeFields
<1>6. m.deposits = d.deposits
  BY <1>3, <1>4, DepositsSame
<1>7. HasAccounts(m)
  BY <1>3, <1>5, <1>6 DEF HasAccounts
<1>8. amount # Null
  BY NumberIsNotNull
<1> DEFINE left == IF g.gain = 0 /\ g.loss = 0 THEN m.deposits[u].amount
                   ELSE m.deposits[u].amount - g.loss
           f == TagFor(m, u, left, amount)
<1>9. /\ Keeps(m, r, F, K) /\ ChainInv(r)
      /\ r.global.tmpDepositUpdate = Null
      /\ DepositIs(m, r, u, amount, f)
  BY <1>1, <1>4, <1>5, <1>7, <1>8, GainHandled
<1> HIDE DEF r
<1>10. left = b.deposits[u] \/ left = b.deposits[u] - b.losses[u]
  BY <1>1, <1>3, <1>6
<1> HIDE DEF left
<1>11. amount > 0 => f = b.tags[u]
  BY <1>5, <1>6, <1>10, FrontendIsTheTag
<1> HIDE DEF f
<1>a. Moves(d, r, Pooled(amount - Compounded(b, u)))
  <2>1. m.deposits[u].amount \in Int /\ g.loss \in Int /\ HasState(d)
    BY <1>1, <1>3, <1>6 DEF PoolBooked, Follows, Tallied
  <2>2. Moves(d, m, Pooled(0))
    BY <1>1, <1>3, <1>6, <2>1, DepositChangedMoves DEF m
  <2>3. Steady(d, m)
    BY <2>1, <2>2, NothingMoves DEF Pooled
  <2>4. amount \in Int /\ Moves(m, r, Pooled(amount - left))
    BY <1>1, <1>4, <1>5, <1>7, <1>8, <2>1, <2>3, GainMoves DEF r, left, Steady
  <2>5. left = Compounded(b, u)
    BY <1>1, <1>3, <1>6, <2>1 DEF left, Compounded
  <2> QED
    BY <2>3, <2>4, <2>5, MovesAfter
<1>12. Keeps(d, r, F, K)
  BY <1>4, <1>9 DEF Keeps
<1>13. DepositIs(d, r, u, amount, f)
  BY <1>6, <1>9 DEF DepositIs
<1> HIDE DEF F, K
<1>14. Follows(r, c, {}, {})
  BY <1>9, <1>11, <1>12, <1>13, <1>a, DepositFollowed DEF F, K
<1>15. Fits(d, e) /\ Fits(m, g)
  BY <1>1, <1>3, <1>4, <1>5 DEF Fits
<1>16. Replays(d, <<e>>, m) /\ Replays(m, <<g>>, r)
  BY <1>2, <1>15, EventReplayed
<1>17. Replays(d, <<e, g>>, r)
  BY <1>16, TwoReplayed
<1> QED
  BY <1>14, <1>17 DEF e, g

\* A deposit written once, and written twice.
LEMMA DepositWritten ==
    ASSUME NEW d, NEW m, HasAccounts(d), NEW u \in Users, NEW amount, NEW frontend,
           DepositIs(d, m, u, amount, frontend),
           m.users = d.users, m.stakes = d.stakes, m.token = d.token
    PROVE  /\ HasAccounts(m)
           /\ m.deposits[u] = [amount |-> amount, frontend |-> frontend]
<1> DEFINE f == d.deposits
           x == [amount |-> amount, frontend |-> frontend]
<1>1. f = [v \in Users |-> [amount |-> f[v].amount, frontend |-> f[v].frontend]]
  BY DEF HasAccounts
<1>2. m.deposits = [f EXCEPT ![u] = x]
  BY DEF DepositIs
<1> HIDE DEF f
<1>3. m.deposits = [v \in Users |-> IF v = u THEN x ELSE f[v]]
  BY <1>1, <1>2
<1>4. m.deposits[u] = x
  BY <1>3
<1>5. m.deposits = [v \in Users |-> [amount   |-> m.deposits[v].amount,
                                     frontend |-> m.deposits[v].frontend]]
  <2>1. \A v \in Users : m.deposits[v] = [amount   |-> m.deposits[v].amount,
                                          frontend |-> m.deposits[v].frontend]
    <3> TAKE v \in Users
    <3>1. CASE v = u
      BY <1>4, <3>1
    <3>2. CASE v # u
      <4>1. m.deposits[v] = f[v]
        BY <1>3, <3>2
      <4> QED
        BY <1>1, <4>1
    <3> QED
      BY <3>1, <3>2
  <2>2. m.deposits = [v \in Users |-> m.deposits[v]]
    BY <1>3
  <2> QED
    BY <2>1, <2>2
<1> QED
  BY <1>4, <1>5 DEF HasAccounts, x

LEMMA DepositRewritten ==
    ASSUME NEW d, NEW m, NEW r, HasAccounts(d), NEW u \in Users, NEW x, NEW y, NEW w, NEW z,
           DepositIs(d, m, u, x, y), DepositIs(m, r, u, w, z)
    PROVE  DepositIs(d, r, u, w, z)
<1> DEFINE f == d.deposits
           a == [amount |-> x, frontend |-> y]
           c == [amount |-> w, frontend |-> z]
<1>1. f = [v \in Users |-> f[v]]
  BY DEF HasAccounts
<1>2. m.deposits = [f EXCEPT ![u] = a] /\ r.deposits = [m.deposits EXCEPT ![u] = c]
  BY DEF DepositIs
<1> HIDE DEF f, a, c
<1>3. r.deposits = [f EXCEPT ![u] = c]
  BY <1>1, <1>2
<1> QED
  BY <1>3 DEF DepositIs, f, c

\* withdrawFILGainToTrove(): the gain, then the deposit.
LEMMA DepositAfterGain ==
    ASSUME NEW d, NEW b, Follows(d, b, {}, {}), PoolBooked(b), NEW tx \in Nat, NEW u \in Users,
           NEW amount \in Nat, NEW c, DepositPut(b, c, u, amount),
           NEW a, a.losses = b.losses
    PROVE  \E r : /\ Replays(d, <<GainEvent(a, tx, u), DepositEvent(tx, u, amount)>>, r)
                  /\ Follows(r, c, {}, {})
<1> DEFINE e == DepositEvent(tx, u, amount)
           g == GainEvent(a, tx, u)
           m == HandleFILGainWithdrawn(d, g)
           r == HandleUserDepositChanged(m, e)
           F == ChangeFields \union {"deposits"}
           K == ChainKeys \union {"tmpDepositUpdate"}
<1>1. /\ e.tx # Null /\ e.name = "UserDepositChanged" /\ e.user = u /\ e.amount = amount
      /\ g.tx # Null /\ g.name = "FILGainWithdrawn" /\ g.user = u /\ g.loss = b.losses[u]
  BY NumberIsNotNull DEF DepositEvent, GainEvent
<1> HIDE DEF e, g
<1>2. Handle(d, g) = m /\ Handle(m, e) = r
  BY <1>1 DEF Handle
<1>3. IsStore(d) /\ ChainInv(d) /\ HasAccounts(d) /\ d.global.tmpDepositUpdate = Null
      /\ d.deposits[u].amount = b.deposits[u]
  BY DEF Follows, CallSide, DepositSide, DepositFollows
<1> DEFINE left == IF g.gain = 0 /\ g.loss = 0 THEN d.deposits[u].amount
                   ELSE d.deposits[u].amount - g.loss
<1>4. /\ Keeps(d, m, F, K) /\ ChainInv(m)
      /\ m.global.tmpDepositUpdate = 0
      /\ DepositIs(d, m, u, left, d.deposits[u].frontend)
  BY <1>1, <1>3, GainHandled
<1> HIDE DEF m
<1>5. left = b.deposits[u] \/ left = b.deposits[u] - b.losses[u]
  BY <1>1, <1>3
<1> HIDE DEF left
<1>6. IsStore(m) /\ m.users = d.users /\ m.stakes = d.stakes /\ m.token = d.token
  BY <1>4 DEF Keeps, StoreFields, ChangeFields
<1>7. HasAccounts(m) /\ m.deposits[u] = [amount |-> left, frontend |-> d.deposits[u].frontend]
  BY <1>3, <1>4, <1>6, DepositWritten
<1>8. 0 # Null
  BY NumberIsNotNull
<1> DEFINE f == TagFor(m, u, left, amount)
<1>9. m.deposits[u].amount = left /\ m.deposits[u].frontend = d.deposits[u].frontend
  BY <1>7
<1>10. /\ Keeps(m, r, F, K) /\ ChainInv(r)
       /\ r.global.tmpDepositUpdate = Null
       /\ DepositIs(m, r, u, amount, f)
  BY <1>1, <1>4, <1>6, <1>7, <1>8, <1>9, DepositChangedHandled
<1> HIDE DEF r
<1>11. amount > 0 => f = b.tags[u]
  BY <1>5, <1>6, <1>9, FrontendIsTheTag
<1> HIDE DEF f
<1>a. Moves(d, r, Pooled(amount - Compounded(b, u)))
  <2>1. d.deposits[u].amount \in Int /\ g.loss \in Int /\ HasState(d) /\ Null \in Int
    BY <1>1, <1>3 DEF PoolBooked, Follows, Tallied, Null
  <2>2. Moves(d, m, Pooled(0))
    BY <1>1, <1>3, <2>1, GainMoves DEF m
  <2>3. Steady(d, m)
    BY <2>1, <2>2, NothingMoves DEF Pooled
  <2>5. left = Compounded(b, u) /\ left \in Int
    BY <1>1, <1>3, <2>1 DEF left, Compounded
  <2>4. Moves(m, r, Pooled(amount - left))
    BY <1>1, <1>4, <1>6, <1>7, <1>8, <1>9, <2>3, <2>5, DepositChangedMoves DEF r, Steady
  <2> QED
    BY <2>3, <2>4, <2>5, MovesAfter
<1>12. Keeps(d, r, F, K)
  BY <1>4, <1>10 DEF Keeps
<1>13. DepositIs(d, r, u, amount, f)
  BY <1>3, <1>4, <1>10, DepositRewritten
<1> HIDE DEF F, K
<1>14. Follows(r, c, {}, {})
  BY <1>10, <1>11, <1>12, <1>13, <1>a, DepositFollowed DEF F, K
<1>15. Fits(d, g) /\ Fits(m, e)
  BY <1>1, <1>3, <1>4, <1>6 DEF Fits
<1>16. Replays(d, <<g>>, m) /\ Replays(m, <<e>>, r)
  BY <1>2, <1>15, EventReplayed
<1>17. Replays(d, <<g, e>>, r)
  BY <1>16, TwoReplayed
<1> QED
  BY <1>14, <1>17 DEF e, g

LEMMA DepositBookWritten ==
    ASSUME NEW b, IsBooks(b), NEW u, NEW amount
    PROVE  DepositPut(b, WithDeposit(b, u, amount), u, amount)
BY DEF WithDeposit, DepositPut, BooksKeep, IsBooks, BookNames

LEMMA TagBookWritten ==
    ASSUME NEW b, IsBooks(b), NEW u, NEW tag
    PROVE  TagPut(b, WithTag(b, u, tag), u, tag)
BY DEF TagPut, WithTag, BooksKeep, IsBooks, BookNames

LEMMA SetBooksWritten ==
    ASSUME NEW b, IsBooks(b), NEW u, NEW amount, NEW tag
    PROVE  DepositPut(WithTag(b, u, tag), SetBooks(b, u, amount, tag), u, amount)
<1> DEFINE c == SetBooks(b, u, amount, tag)
           t == WithTag(b, u, tag)
<1>1. /\ IsBooks(c)
      /\ c.deposits = [b.deposits EXCEPT ![u] = amount]
      /\ c.losses = [b.losses EXCEPT ![u] = 0]
      /\ c.gains = [b.gains EXCEPT ![u] = 0]
      /\ c.tags = [b.tags EXCEPT ![u] = tag]
      /\ \A f \in BookNames \ {"deposits", "losses", "gains", "tags"} : c[f] = b[f]
  BY DEF SetBooks, IsBooks, BookNames
<1> HIDE DEF c
<1>2. BooksKeep(b, t, {"tags"}) /\ t.tags = [b.tags EXCEPT ![u] = tag]
  BY TagBookWritten DEF TagPut
<1> HIDE DEF t
<1>3. t.deposits = b.deposits /\ t.losses = b.losses /\ t.gains = b.gains
  BY <1>2 DEF BooksKeep, BookNames
<1>4. \A f \in BookNames \ {"deposits", "losses", "gains"} : c[f] = t[f]
  BY <1>1, <1>2 DEF BooksKeep, BookNames
<1> QED
  BY <1>1, <1>3, <1>4 DEF DepositPut, BooksKeep, c, t

LEMMA SameTag ==
    ASSUME NEW b, IsBooks(b), PoolBooked(b), NEW u \in Users
    PROVE  WithTag(b, u, b.tags[u]) = b
<1> DEFINE f == b.tags
<1>1. f = [v \in Users |-> f[v]]
  BY DEF PoolBooked
<1> HIDE DEF f
<1>2. [f EXCEPT ![u] = f[u]] = f
  BY <1>1
<1>3. WithTag(b, u, b.tags[u]) = [b EXCEPT !.tags = b.tags]
  BY <1>2 DEF WithTag, f
<1> QED
  BY <1>3 DEF IsBooks, BookNames

LEMMA TagBooked ==
    ASSUME NEW b, IsBooks(b), PoolBooked(b), NEW u \in Users, NEW tag
    PROVE  PoolBooked(WithTag(b, u, tag))
<1> DEFINE c == WithTag(b, u, tag)
<1>1. BooksKeep(b, c, {"tags"}) /\ c.tags = [b.tags EXCEPT ![u] = tag]
  BY TagBookWritten DEF TagPut
<1> HIDE DEF c
<1>2. /\ c.deposits = b.deposits /\ c.losses = b.losses /\ c.gains = b.gains
  BY <1>1 DEF BooksKeep, BookNames
<1>3. c.tags = [v \in Users |-> c.tags[v]]
  BY <1>1 DEF PoolBooked
<1> QED
  BY <1>2, <1>3 DEF PoolBooked, c

\* The tag of a first deposit: the user has it, the deposit gets it with its
\* amount.
LEMMA TagReplayed ==
    ASSUME NEW d, NEW b, Follows(d, b, {}, {}), IsBooks(b), PoolBooked(b),
           NEW u \in Users, NEW tag \in b.frontends, b.deposits[u] = 0,
           NEW e, e.name = "FrontEndTagSet", e.user = u, e.frontend = tag
    PROVE  LET r == Handle(d, e)
           IN Replays(d, <<e>>, r) /\ Follows(r, WithTag(b, u, tag), {}, {})
<1> DEFINE r == AssignFrontendToDepositor(d, e)
           c == WithTag(b, u, tag)
<1>1. Handle(d, e) = r
  BY DEF Handle
<1>2. /\ IsStore(d) /\ ChainInv(d) /\ HasAccounts(d) /\ DepositSide(d, b)
      /\ d.frontends = b.frontends
  BY DEF Follows, DepositSide
<1>3. /\ Keeps(d, r, {"users"}, {}) /\ ChainInv(r)
      /\ r.users = [d.users EXCEPT ![u] = [collSurplus |-> d.users[u].collSurplus,
                                           frontend    |-> tag]]
  BY <1>2, TagHandled
<1> HIDE DEF r
<1>4. BooksKeep(b, c, {"tags"}) /\ c.tags = [b.tags EXCEPT ![u] = tag]
  <2>1. TagPut(b, c, u, tag)
    BY TagBookWritten
  <2> QED
    BY <2>1 DEF TagPut
<1> HIDE DEF c
<1>5. /\ c.troves = b.troves /\ c.closedBy = b.closedBy
      /\ c.lColl = b.lColl /\ c.lDebt = b.lDebt
      /\ c.deposits = b.deposits /\ c.frontends = b.frontends
      /\ c.staked = b.staked /\ c.balances = b.balances
  BY <1>4 DEF BooksKeep, BookNames
<1>6. /\ r.deposits = d.deposits /\ r.frontends = d.frontends /\ r.stakes = d.stakes
      /\ r.token = d.token /\ IsStore(r)
  BY <1>3 DEF Keeps, StoreFields
<1>7. r.users = [v \in Users |-> IF v = u THEN [collSurplus |-> d.users[u].collSurplus,
                                                frontend    |-> tag]
                                 ELSE d.users[v]]
  BY <1>2, <1>3 DEF HasAccounts
<1>8. c.tags = [v \in Users |-> IF v = u THEN tag ELSE b.tags[v]]
  BY <1>4 DEF PoolBooked
<1>9. HasAccounts(r)
  <2>1. r.users = [v \in Users |-> [collSurplus |-> r.users[v].collSurplus,
                                    frontend    |-> r.users[v].frontend]]
    <3>1. d.users = [v \in Users |-> [collSurplus |-> d.users[v].collSurplus,
                                      frontend    |-> d.users[v].frontend]]
      BY <1>2 DEF HasAccounts
    <3> QED
      BY <1>7, <3>1
  <2> QED
    BY <1>2, <1>6, <2>1 DEF HasAccounts
<1>10. DepositSide(r, c)
  <2>1. ASSUME NEW v \in Users PROVE DepositFollows(r, c, v)
    <3>1. DepositFollows(d, b, v)
      BY <1>2 DEF DepositSide
    <3>2. CASE v = u
      BY <1>5, <1>6, <1>7, <1>8, <3>1, <3>2 DEF DepositFollows
    <3>3. CASE v # u
      BY <1>5, <1>6, <1>7, <1>8, <3>1, <3>3 DEF DepositFollows
    <3> QED
      BY <3>2, <3>3
  <2> QED
    BY <1>2, <1>5, <1>6, <2>1 DEF DepositSide
<1>11. TroveSide(r, b) /\ StakeSide(r, b) /\ TokenSide(r, b) /\ CallSide(r, {}, {})
  <2>1. /\ {"users"} \intersect {"liquidation", "redemption"} = {}
        /\ {} \intersect (CallKeys \union {"tmpDepositUpdate"}) = {}
        /\ {} \intersect StakeCounters = {}
        /\ {} \intersect (TroveCounters \union {"rawTotalRedistributedCollateral",
                                                "rawTotalRedistributedDebt"}) = {}
    OBVIOUS
  <2>2. TroveSide(d, b) /\ StakeSide(d, b) /\ TokenSide(d, b) /\ CallSide(d, {}, {})
    BY DEF Follows
  <2>3. TroveSide(r, b) /\ StakeSide(r, b)
    BY <1>3, <2>1, <2>2, TrovesKept, StakesKept
  <2>4. TokenSide(r, b) /\ CallSide(r, {}, {})
    BY <1>3, <2>1, <2>2, TokensKept, CallsKept
  <2> QED
    BY <2>3, <2>4
<1>12. TroveSide(r, c) /\ StakeSide(r, c) /\ TokenSide(r, c)
  BY <1>5, <1>11, SameTroves, SameStakes, SameTokens
<1>a. Tallied(r, c, 0, 0)
  <2>1. Tallied(d, b, 0, 0) /\ HasState(d)
    BY DEF Follows, Tallied
  <2>2. Steady(d, r)
    BY <1>3, <2>1, StateKept
  <2>3. \A v \in Users : r.users[v].collSurplus = d.users[v].collSurplus
    BY <1>7
  <2>4. c.losses = b.losses /\ c.surplus = b.surplus
    BY <1>4 DEF BooksKeep, BookNames
  <2>5. Parts(c) = Parts(b)
    BY <1>5, <2>4, SameParts
  <2> QED
    BY <2>1, <2>2, <2>3, <2>4, <2>5, TallyStays DEF Steady, SameNumbers
<1>13. Follows(r, c, {}, {})
  BY <1>3, <1>6, <1>9, <1>10, <1>11, <1>12, <1>a DEF Follows
<1>14. Replays(d, <<e>>, Handle(d, e))
  BY <1>2, EventReplayed DEF Fits
<1> QED
  BY <1>1, <1>13, <1>14 DEF c, r

\* provideToSP() and withdrawFromSP().
LEMMA SetDepositReplayed ==
    ASSUME NEW d, NEW b, Follows(d, b, {}, {}), IsBooks(b), PoolBooked(b),
           NEW tx \in Nat, NEW u \in Users, NEW amount \in Nat,
           NEW tag \in b.frontends \union {Nobody}
    PROVE  LET call == SetDeposit(b, tx, u, amount, tag)
               c == call.books
           IN /\ \E r : Replays(d, call.events, r) /\ Follows(r, c, {}, {})
              /\ BooksKeep(b, c, {"deposits", "losses", "gains", "tags"})
              /\ PoolBooked(c)
<1> DEFINE first == b.deposits[u] = 0 /\ tag # Nobody
           e == [name |-> "FrontEndTagSet", tx |-> tx, user |-> u, frontend |-> tag]
           tagged == IF first THEN <<e>> ELSE <<>>
           two == <<DepositEvent(tx, u, amount), GainEvent(b, tx, u)>>
           x == IF first THEN tag ELSE b.tags[u]
           c == SetBooks(b, u, amount, x)
           m == WithTag(b, u, x)
           call == SetDeposit(b, tx, u, amount, tag)
<1>1. call.events = tagged \o two /\ call.books = c
  <2>1. call.books = c
    BY DEF SetDeposit, SetBooks, IsBooks, BookNames
  <2>2. call.events = tagged \o two
    BY DEF SetDeposit
  <2> QED
    BY <2>1, <2>2
<1> HIDE DEF call, c
<1>2. e.name = "FrontEndTagSet" /\ e.user = u /\ e.frontend = tag
  OBVIOUS
<1> HIDE DEF e
<1>3. \E r : Replays(d, tagged, r) /\ Follows(r, m, {}, {})
  <2>1. CASE first
    <3>1. tag \in b.frontends
      BY <2>1
    <3> DEFINE r == Handle(d, e)
    <3>2. Replays(d, <<e>>, r) /\ Follows(r, WithTag(b, u, tag), {}, {})
      BY <1>2, <2>1, <3>1, TagReplayed
    <3> HIDE DEF r
    <3>3. tagged = <<e>> /\ m = WithTag(b, u, tag)
      BY <2>1
    <3> HIDE DEF tagged, m
    <3> QED
      BY <3>2, <3>3
  <2>2. CASE ~first
    <3>1. tagged = <<>> /\ m = b
      BY <2>2, SameTag
    <3> HIDE DEF tagged, m
    <3>2. Replays(d, tagged, d)
      BY <3>1, NothingReplayed
    <3> QED
      BY <3>1, <3>2
  <2> QED
    BY <2>1, <2>2
<1> HIDE DEF tagged
<1>4. PICK d1 : Replays(d, tagged, d1) /\ Follows(d1, m, {}, {})
  BY <1>3
<1>5. PoolBooked(m) /\ DepositPut(m, c, u, amount)
  BY TagBooked, SetBooksWritten DEF c
<1>6. BooksKeep(b, m, {"tags"})
  BY TagBookWritten DEF TagPut
<1>7. b.losses = m.losses
  BY <1>6 DEF BooksKeep, BookNames
<1> HIDE DEF m
<1>8. PICK r : Replays(d1, two, r) /\ Follows(r, c, {}, {})
  BY <1>4, <1>5, <1>7, GainAfterDeposit
<1> HIDE DEF two
<1>9. Replays(d, tagged \o two, r)
  BY <1>4, <1>8, QueuesReplayed
<1>10. BooksKeep(b, c, {"deposits", "losses", "gains", "tags"})
  BY <1>5, <1>6 DEF DepositPut, BooksKeep
<1>11. PoolBooked(c)
  BY <1>5, DepositBooked
<1>12. /\ \E q : Replays(d, call.events, q) /\ Follows(q, call.books, {}, {})
       /\ BooksKeep(b, call.books, {"deposits", "losses", "gains", "tags"})
       /\ PoolBooked(call.books)
  BY <1>1, <1>8, <1>9, <1>10, <1>11
<1> QED
  BY <1>12 DEF call

\* Troves that did not change are worth the same.
LEMMA WorthTheSame ==
    ASSUME NEW b, NEW c, c.troves = b.troves, c.lColl = b.lColl, c.lDebt = b.lDebt, NEW u
    PROVE  Entire(c, u) = Entire(b, u) /\ UnitNow(c) = UnitNow(b)
BY DEF Entire, UnitNow

LEMMA SameTrovesBooked ==
    ASSUME NEW b, NEW c, c.troves = b.troves, c.lColl = b.lColl, c.lDebt = b.lDebt,
           c.closedBy = b.closedBy, TrovesBooked(b)
    PROVE  TrovesBooked(c)
BY DEF TrovesBooked, IsBooked

\* withdrawFILGainToTrove(): the deposit is compounded, the gain becomes stake.
LEMMA GainToTroveReplayed ==
    ASSUME NEW d, NEW b, Follows(d, b, {}, {}), IsBooks(b), TrovesBooked(b), PoolBooked(b),
           NEW tx \in Nat, NEW u \in Users, b.troves[u].stake # 0,
           NEW stake \in Nat, stake > b.troves[u].stake
    PROVE  LET call == GainToTrove(b, tx, u, stake)
               c == call.books
           IN /\ \E r : Replays(d, call.events, r) /\ Follows(r, c, {}, {})
              /\ BooksKeep(b, c, {"deposits", "losses", "gains", "troves", "closedBy"})
              /\ TrovesBooked(c) /\ PoolBooked(c)
<1> DEFINE x == Compounded(b, u)
           m == WithDeposit(b, u, x)
           debt == Entire(b, u).debt
           put == PutTrove(m, tx, u, "adjustTrove", stake, debt, 0)
           two == <<GainEvent(b, tx, u), DepositEvent(tx, u, x)>>
           call == GainToTrove(b, tx, u, stake)
<1>1. call.events = two \o put.events /\ call.books = put.books
  BY DEF GainToTrove, WithDeposit
<1> HIDE DEF call
<1>2. x \in Nat
  BY DEF PoolBooked, Compounded
<1> HIDE DEF x
<1>3. DepositPut(b, m, u, x)
  BY DepositBookWritten
<1> HIDE DEF m
<1>4. /\ BooksKeep(b, m, {"deposits", "losses", "gains"}) /\ IsBooks(m)
      /\ m.troves = b.troves /\ m.closedBy = b.closedBy
      /\ m.lColl = b.lColl /\ m.lDebt = b.lDebt
  BY <1>3 DEF DepositPut, BooksKeep, BookNames
<1>5. PoolBooked(m) /\ TrovesBooked(m)
  BY <1>2, <1>3, <1>4, DepositBooked, SameTrovesBooked
<1>6. PICK d1 : Replays(d, two, d1) /\ Follows(d1, m, {}, {})
  BY <1>2, <1>3, DepositAfterGain
<1> HIDE DEF two
<1>7. /\ debt \in Nat \ {0} /\ stake \in Nat \ {0}
      /\ ~(stake * UnitNow(m) = Entire(m, u).coll /\ debt = Entire(m, u).debt)
  <2>1. /\ debt \in Nat \ {0} /\ b.troves[u].stake \in Nat
        /\ Entire(b, u).coll = b.troves[u].stake * UnitNow(b)
    BY Worth
  <2>2. UnitNow(b) \in Nat \ {0}
    BY UnitIsPositive DEF TrovesBooked
  <2>3. Entire(m, u) = Entire(b, u) /\ UnitNow(m) = UnitNow(b)
    BY <1>4, WorthTheSame
  <2> DEFINE s == b.troves[u].stake
             k == UnitNow(b)
  <2>4. s \in Nat /\ k \in Nat \ {0} /\ stake > s
    BY <2>1, <2>2
  <2> HIDE DEF s, k
  <2>5. stake * k # s * k
    <3>1. PICK n \in Nat : stake = s + n /\ n > 0
      <4>1. stake - s \in Nat /\ stake = s + (stake - s) /\ stake - s > 0
        BY <2>4
      <4> QED
        BY <4>1
    <3>2. stake * k = s * k + n * k
      BY <2>4, <3>1
    <3>3. n * k > 0 /\ n * k \in Nat /\ s * k \in Nat
      BY <2>4, <3>1
    <3> QED
      BY <3>2, <3>3
  <2> QED
    BY <2>1, <2>3, <2>5 DEF s, k
<1> HIDE DEF debt
<1>8. /\ \E r : Replays(d1, put.events, r) /\ Follows(r, put.books, {}, {})
      /\ BooksKeep(m, put.books, {"troves", "closedBy"})
      /\ TrovesBooked(put.books)
  BY <1>4, <1>5, <1>6, <1>7, PutReplayed
<1> HIDE DEF put
<1>9. PICK r : Replays(d1, put.events, r) /\ Follows(r, put.books, {}, {})
  BY <1>8
<1>10. Replays(d, two \o put.events, r)
  BY <1>6, <1>9, QueuesReplayed
<1>11. BooksKeep(b, put.books, {"deposits", "losses", "gains", "troves", "closedBy"})
  BY <1>4, <1>8 DEF BooksKeep
<1>12. PoolBooked(put.books)
  <2>1. {"troves", "closedBy"} \intersect {"deposits", "losses", "gains", "tags", "surplus",
                                           "staked", "balances", "frontends"} = {}
    OBVIOUS
  <2> QED
    BY <1>5, <1>8, <2>1, AccountsKeptInBooks
<1>13. /\ \E q : Replays(d, call.events, q) /\ Follows(q, call.books, {}, {})
       /\ BooksKeep(b, call.books, {"deposits", "losses", "gains", "troves", "closedBy"})
       /\ TrovesBooked(call.books) /\ PoolBooked(call.books)
  BY <1>1, <1>8, <1>9, <1>10, <1>11, <1>12
<1> QED
  BY <1>13 DEF call

-----------------------------------------------------------------------------
(* The other accounts: one handler each.                                    *)

\* claimCollateral().
LEMMA ClaimReplayed ==
    ASSUME NEW d, NEW b, Follows(d, b, {}, {}), IsBooks(b), AccountsBooked(b),
           NEW tx \in Nat, NEW u \in Users
    PROVE  LET call == ClaimSurplus(b, tx, u)
               c == call.books
           IN /\ \E r : Replays(d, call.events, r) /\ Follows(r, c, {}, {})
              /\ BooksKeep(b, c, {"surplus"})
              /\ AccountsBooked(c)
<1> DEFINE c == WithSurplus(b, u, 0)
           call == ClaimSurplus(b, tx, u)
<1>1. call.events = <<Surplus(c, tx, u)>> /\ call.books = c
  BY DEF ClaimSurplus, WithSurplus
<1> HIDE DEF call
<1>2. BooksKeep(b, c, {"surplus"}) /\ c.surplus[u] = 0
  <2>1. b.surplus \in [Users -> Int]
    BY DEF Follows, Tallied
  <2>2. BooksKeep(b, c, {"surplus"}) /\ c.surplus = Replaced(b.surplus, u, 0)
    BY SurplusBookWritten
  <2> HIDE DEF c
  <2> QED
    BY <2>1, <2>2 DEF Replaced
<1>3. c = WithSurplus(b, u, 0)
  OBVIOUS
<1> HIDE DEF c
<1>4. PICK r : /\ Replays(d, <<Surplus(c, tx, u)>>, r)
               /\ Follows(r, WithSurplus(b, u, c.surplus[u]), {}, {})
  BY <1>2, SurplusReplayed
<1>5. AccountsBooked(c)
  BY <1>2 DEF AccountsBooked, BooksKeep, BookNames
<1>6. /\ \E q : Replays(d, call.events, q) /\ Follows(q, call.books, {}, {})
      /\ BooksKeep(b, call.books, {"surplus"})
      /\ AccountsBooked(call.books)
  BY <1>1, <1>2, <1>3, <1>4, <1>5, Zenon
<1> QED
  BY <1>6 DEF call

LEMMA FrontendBookWritten ==
    ASSUME NEW b, IsBooks(b), NEW u
    PROVE  /\ BooksKeep(b, WithFrontend(b, u), {"frontends"})
           /\ WithFrontend(b, u).frontends = b.frontends \union {u}
BY DEF WithFrontend, BooksKeep, IsBooks, BookNames

\* registerFrontEnd().
LEMMA RegisterReplayed ==
    ASSUME NEW d, NEW b, Follows(d, b, {}, {}), IsBooks(b),
           NEW tx \in Nat, NEW u \in Users
    PROVE  LET call == Register(b, tx, u)
               c == call.books
           IN /\ \E r : Replays(d, call.events, r) /\ Follows(r, c, {}, {})
              /\ BooksKeep(b, c, {"frontends"})
<1> DEFINE c == WithFrontend(b, u)
           call == Register(b, tx, u)
           e == [name |-> "FrontEndRegistered", tx |-> tx, user |-> u]
           r == RegisterFrontend(d, e)
<1>1. call.events = <<e>> /\ call.books = c
  BY DEF Register, WithFrontend
<1> HIDE DEF call
<1>2. BooksKeep(b, c, {"frontends"}) /\ c.frontends = b.frontends \union {u}
  BY FrontendBookWritten
<1> HIDE DEF c
<1>3. e.name = "FrontEndRegistered" /\ e.user = u
  OBVIOUS
<1> HIDE DEF e
<1>4. Handle(d, e) = r
  BY <1>3 DEF Handle
<1>5. IsStore(d) /\ ChainInv(d) /\ HasAccounts(d)
  BY DEF Follows
<1>6. /\ Keeps(d, r, {"frontends"}, {}) /\ ChainInv(r)
      /\ r.frontends = d.frontends \union {u}
  BY <1>3, <1>5, FrontendHandled
<1> HIDE DEF r
<1>7. /\ c.troves = b.troves /\ c.closedBy = b.closedBy
      /\ c.lColl = b.lColl /\ c.lDebt = b.lDebt
      /\ c.deposits = b.deposits /\ c.tags = b.tags
      /\ c.staked = b.staked /\ c.balances = b.balances
  BY <1>2 DEF BooksKeep, BookNames
<1>8. /\ {"frontends"} \intersect {"liquidation", "redemption"} = {}
      /\ {"frontends"} \intersect {"deposits", "users", "stakes", "token"} = {}
      /\ {} \intersect (CallKeys \union {"tmpDepositUpdate"}) = {}
      /\ {} \intersect StakeCounters = {}
      /\ {} \intersect (TroveCounters \union {"rawTotalRedistributedCollateral",
                                              "rawTotalRedistributedDebt"}) = {}
  OBVIOUS
<1>9. TroveSide(d, b) /\ StakeSide(d, b) /\ TokenSide(d, b) /\ CallSide(d, {}, {})
      /\ DepositSide(d, b)
  BY DEF Follows
<1>10. TroveSide(r, b) /\ StakeSide(r, b)
  BY <1>6, <1>8, <1>9, TrovesKept, StakesKept
<1>11. TokenSide(r, b) /\ CallSide(r, {}, {})
  BY <1>6, <1>8, <1>9, TokensKept, CallsKept
<1>12. TroveSide(r, c) /\ StakeSide(r, c) /\ TokenSide(r, c)
  BY <1>7, <1>10, <1>11, SameTroves, SameStakes, SameTokens
<1>13. HasAccounts(r)
  BY <1>5, <1>6, <1>8, AccountsKept
<1>14. DepositSide(r, c)
  <2>1. r.deposits = d.deposits /\ r.users = d.users
    BY <1>6 DEF Keeps, StoreFields
  <2> QED
    BY <1>2, <1>6, <1>7, <1>9, <2>1 DEF DepositSide, DepositFollows
<1>a. Tallied(r, c, 0, 0)
  <2>1. Tallied(r, b, 0, 0)
    BY <1>6, TallyKept DEF Follows
  <2>2. /\ c.losses = b.losses /\ c.surplus = b.surplus
        /\ Parts(c) = Parts(b)
    BY <1>2, <1>7, SameParts DEF BooksKeep, BookNames
  <2> QED
    BY <2>1, <2>2, TallyStays DEF Tallied
<1>15. Follows(r, c, {}, {})
  BY <1>6, <1>11, <1>12, <1>13, <1>14, <1>a DEF Follows, Keeps
<1>16. Replays(d, <<e>>, r)
  BY <1>3, <1>4, <1>5, EventReplayed DEF Fits
<1>17. /\ \E q : Replays(d, call.events, q) /\ Follows(q, call.books, {}, {})
       /\ BooksKeep(b, call.books, {"frontends"})
  BY <1>1, <1>2, <1>15, <1>16
<1> QED
  BY <1>17 DEF call

LEMMA AllowanceBookWritten ==
    ASSUME NEW b, IsBooks(b), NEW owner, NEW spender, NEW value
    PROVE  BooksKeep(b, WithAllowance(b, owner, spender, value), {"allowances"})
BY DEF WithAllowance, BooksKeep, IsBooks, BookNames

\* What a handler that replaces the token leaves: its balances and its supply
\* are those of the books c.
LEMMA TokenFollowed ==
    ASSUME NEW d, NEW b, NEW c, NEW r, Follows(d, b, {}, {}), Keeps(d, r, {"token"}, {}),
           ChainInv(r), TokenSide(r, c),
           r.token = [totalSupply |-> r.token.totalSupply, balances |-> r.token.balances,
                      allowances |-> r.token.allowances],
           BooksKeep(b, c, {"allowances", "balances"})
    PROVE  Follows(r, c, {}, {})
<1>1. /\ {"token"} \intersect {"liquidation", "redemption"} = {}
      /\ {"token"} \intersect {"deposits", "users", "frontends"} = {}
      /\ {} \intersect (CallKeys \union {"tmpDepositUpdate"}) = {}
      /\ {} \intersect StakeCounters = {}
      /\ {} \intersect (TroveCounters \union {"rawTotalRedistributedCollateral",
                                              "rawTotalRedistributedDebt"}) = {}
  OBVIOUS
<1>2. TroveSide(d, b) /\ StakeSide(d, b) /\ DepositSide(d, b) /\ CallSide(d, {}, {})
      /\ HasAccounts(d)
  BY DEF Follows
<1>3. TroveSide(r, b) /\ StakeSide(r, b)
  BY <1>1, <1>2, TrovesKept, StakesKept
<1>4. DepositSide(r, b) /\ CallSide(r, {}, {})
  BY <1>1, <1>2, DepositsKept, CallsKept
<1>5. /\ c.troves = b.troves /\ c.closedBy = b.closedBy
      /\ c.lColl = b.lColl /\ c.lDebt = b.lDebt
      /\ c.deposits = b.deposits /\ c.tags = b.tags /\ c.frontends = b.frontends
      /\ c.staked = b.staked
  BY DEF BooksKeep, BookNames
<1>6. TroveSide(r, c) /\ StakeSide(r, c) /\ DepositSide(r, c)
  BY <1>3, <1>4, <1>5, SameTroves, SameStakes, SameDeposits
<1>7. HasAccounts(r)
  <2>1. r.deposits = d.deposits /\ r.users = d.users /\ r.stakes = d.stakes
    BY DEF Keeps, StoreFields
  <2> QED
    BY <1>2, <2>1 DEF HasAccounts
<1>8. Tallied(r, c, 0, 0)
  <2>1. Tallied(r, b, 0, 0)
    BY TallyKept DEF Follows
  <2>2. /\ c.losses = b.losses /\ c.surplus = b.surplus
        /\ Parts(c) = Parts(b)
    BY <1>5, SameParts DEF BooksKeep, BookNames
  <2> QED
    BY <2>1, <2>2, TallyStays DEF Tallied
<1> QED
  BY <1>4, <1>6, <1>7, <1>8 DEF Follows, Keeps

\* approve() of the token.
LEMMA ApproveReplayed ==
    ASSUME NEW d, NEW b, Follows(d, b, {}, {}), IsBooks(b),
           NEW tx \in Nat, NEW owner, NEW spender, NEW value
    PROVE  LET call == Approve(b, tx, owner, spender, value)
               c == call.books
           IN /\ \E r : Replays(d, call.events, r) /\ Follows(r, c, {}, {})
              /\ BooksKeep(b, c, {"allowances"})
<1> DEFINE c == WithAllowance(b, owner, spender, value)
           call == Approve(b, tx, owner, spender, value)
           e == [name |-> "Approval", tx |-> tx, owner |-> owner, spender |-> spender,
                 value |-> value]
           r == UpdateAllowance(d, e)
<1>1. call.events = <<e>> /\ call.books = c
  BY DEF Approve, WithAllowance
<1> HIDE DEF call
<1>2. BooksKeep(b, c, {"allowances"})
  BY AllowanceBookWritten
<1> HIDE DEF c
<1>3. e.name = "Approval"
  OBVIOUS
<1> HIDE DEF e
<1>4. Handle(d, e) = r
  BY <1>3 DEF Handle
<1>5. IsStore(d) /\ ChainInv(d) /\ HasAccounts(d) /\ TokenSide(d, b)
  BY DEF Follows
<1>6. /\ Keeps(d, r, {"token"}, {}) /\ ChainInv(r)
      /\ r.token.totalSupply = d.token.totalSupply
      /\ r.token.balances = d.token.balances
      /\ r.token = [totalSupply |-> r.token.totalSupply, balances |-> r.token.balances,
                    allowances |-> r.token.allowances]
  BY <1>5, ApprovalHandled
<1> HIDE DEF r
<1>7. TokenSide(r, b) /\ c.balances = b.balances
  BY <1>2, <1>5, <1>6 DEF TokenSide, BooksKeep, BookNames
<1>8. TokenSide(r, c)
  BY <1>7, SameTokens
<1>9. BooksKeep(b, c, {"allowances", "balances"})
  BY <1>2 DEF BooksKeep
<1>10. Follows(r, c, {}, {})
  BY <1>6, <1>8, <1>9, TokenFollowed
<1>11. Replays(d, <<e>>, r)
  BY <1>3, <1>4, <1>5, EventReplayed DEF Fits
<1>12. /\ \E q : Replays(d, call.events, q) /\ Follows(q, call.books, {}, {})
       /\ BooksKeep(b, call.books, {"allowances"})
  BY <1>1, <1>2, <1>10, <1>11
<1> QED
  BY <1>12 DEF call

\* Taking from a balance, and giving to one.
LEMMA Debited ==
    ASSUME NEW f \in [Users -> Int], NEW u \in Users \union {Nobody}, NEW value \in Int
    PROVE  /\ Debit(f, u, value) \in [Users -> Int]
           /\ Total(Debit(f, u, value), Users)
                 = Total(f, Users) - (IF u = Nobody THEN 0 ELSE value)
<1> DEFINE h == Debit(f, u, value)
<1>1. IsFiniteSet(Users) /\ Nobody \notin Users
  BY SubgraphAssumption, StoreAssumption
<1>2. Total(f, Users) \in Int
  <2>1. \A x \in Users : f[x] \in Int
    OBVIOUS
  <2> QED
    BY <1>1, <2>1, TotalIsANumber
<1>3. CASE u = Nobody
  BY <1>2, <1>3 DEF Debit
<1>4. CASE u # Nobody
  <2>1. h = [f EXCEPT ![u] = f[u] - value] /\ u \in Users
    BY <1>4 DEF Debit
  <2> HIDE DEF h
  <2>2. /\ h \in [Users -> Int] /\ u \in Users /\ h[u] = f[u] - value /\ f[u] \in Int
        /\ \A x \in Users \ {u} : h[x] = f[x]
        /\ \A x \in Users : f[x] \in Int
    BY <2>1
  <2>3. h[u] \in Int
    BY <2>2
  <2>4. Total(h, Users) = Total(f, Users) + (h[u] - f[u])
    BY <1>1, <2>2, <2>3, TotalMoves
  <2>5. Total(h, Users) = Total(f, Users) - value
    BY <1>2, <2>2, <2>4
  <2> QED
    BY <1>4, <2>2, <2>5 DEF h
<1> QED
  BY <1>3, <1>4

LEMMA Credited ==
    ASSUME NEW f \in [Users -> Int], NEW u \in Users \union {Nobody}, NEW value \in Int
    PROVE  /\ Credit(f, u, value) \in [Users -> Int]
           /\ Total(Credit(f, u, value), Users)
                 = Total(f, Users) + (IF u = Nobody THEN 0 ELSE value)
<1>1. Credit(f, u, value) = Debit(f, u, -value)
  <2>1. u # Nobody => f[u] - (-value) = f[u] + value
    OBVIOUS
  <2> QED
    BY <2>1 DEF Credit, Debit
<1>2. Total(f, Users) \in Int
  BY SubgraphAssumption, TotalIsANumber
<1> QED
  BY <1>1, <1>2, Debited

LEMMA BalanceBookWritten ==
    ASSUME NEW b, IsBooks(b), NEW balances
    PROVE  /\ BooksKeep(b, WithBalances(b, balances), {"balances"})
           /\ WithBalances(b, balances).balances = balances
BY DEF WithBalances, BooksKeep, IsBooks, BookNames

\* A transfer of the token: the supply moves as the sum of the balances does.
LEMMA TransferReplayed ==
    ASSUME NEW d, NEW b, Follows(d, b, {}, {}), IsBooks(b), AccountsBooked(b),
           NEW tx \in Nat, NEW from \in Users \union {Nobody}, NEW to \in Users \union {Nobody},
           NEW value \in Int
    PROVE  LET call == Transfer(b, tx, from, to, value)
               c == call.books
           IN /\ \E r : Replays(d, call.events, r) /\ Follows(r, c, {}, {})
              /\ BooksKeep(b, c, {"balances"})
              /\ AccountsBooked(c)
<1> DEFINE m == Debit(b.balances, from, value)
           f == Credit(m, to, value)
           c == WithBalances(b, f)
           call == Transfer(b, tx, from, to, value)
           e == [name |-> "Transfer", tx |-> tx, from |-> from, to |-> to, value |-> value]
           r == UpdateBalance(d, e)
<1>1. call.events = <<e>> /\ call.books = c
  <2>1. call.books = [b EXCEPT !.balances = Credit(Debit(@, from, value), to, value)]
    BY DEF Transfer
  <2>2. [b EXCEPT !.balances = Credit(Debit(@, from, value), to, value)] = c
    BY DEF WithBalances
  <2> QED
    BY <2>1, <2>2 DEF Transfer
<1> HIDE DEF call
<1>2. e.name = "Transfer" /\ e.from = from /\ e.to = to /\ e.value = value
  OBVIOUS
<1> HIDE DEF e
<1>3. BooksKeep(b, c, {"balances"}) /\ c.balances = f
  BY BalanceBookWritten
<1> HIDE DEF c
<1>4. b.balances \in [Users -> Int]
  BY DEF AccountsBooked
<1>5. /\ m \in [Users -> Int]
      /\ Total(m, Users) = Total(b.balances, Users) - (IF from = Nobody THEN 0 ELSE value)
  BY <1>4, Debited
<1>6. f = Credit(Debit(b.balances, from, value), to, value)
  OBVIOUS
<1> HIDE DEF m
<1>7. /\ f \in [Users -> Int]
      /\ Total(f, Users) = Total(m, Users) + (IF to = Nobody THEN 0 ELSE value)
  BY <1>5, Credited
<1> HIDE DEF f
<1>8. Total(b.balances, Users) \in Int
  <2>1. IsFiniteSet(Users) /\ \A x \in Users : b.balances[x] \in Int
    BY <1>4, SubgraphAssumption
  <2> QED
    BY <2>1, TotalIsANumber
<1>9. Handle(d, e) = r
  BY <1>2 DEF Handle
<1>10. IsStore(d) /\ ChainInv(d) /\ HasAccounts(d) /\ TokenSide(d, b)
  BY DEF Follows
<1>11. /\ Keeps(d, r, {"token"}, {}) /\ ChainInv(r)
       /\ r.token = [totalSupply |-> d.token.totalSupply
                                        + (IF from = Nobody THEN value ELSE 0)
                                        - (IF to = Nobody THEN value ELSE 0),
                     balances |-> Credit(Debit(d.token.balances, from, value), to, value),
                     allowances |-> d.token.allowances]
  BY <1>2, <1>10, TransferHandled
<1> HIDE DEF r
<1>12. r.token = [totalSupply |-> r.token.totalSupply, balances |-> r.token.balances,
                  allowances |-> r.token.allowances]
  BY <1>11
<1>13. /\ r.token.balances = f
       /\ r.token.totalSupply = Total(b.balances, Users)
                                  + (IF from = Nobody THEN value ELSE 0)
                                  - (IF to = Nobody THEN value ELSE 0)
  BY <1>6, <1>10, <1>11 DEF TokenSide
<1>14. Total(f, Users) = r.token.totalSupply
  BY <1>5, <1>7, <1>8, <1>13
<1>15. TokenSide(r, c)
  BY <1>3, <1>13, <1>14 DEF TokenSide
<1>16. BooksKeep(b, c, {"allowances", "balances"})
  BY <1>3 DEF BooksKeep
<1>17. Follows(r, c, {}, {})
  BY <1>11, <1>12, <1>15, <1>16, TokenFollowed
<1>18. Replays(d, <<e>>, r)
  BY <1>2, <1>9, <1>10, EventReplayed DEF Fits
<1>19. AccountsBooked(c)
  BY <1>3, <1>7 DEF AccountsBooked, BooksKeep, BookNames
<1>20. /\ \E q : Replays(d, call.events, q) /\ Follows(q, call.books, {}, {})
       /\ BooksKeep(b, call.books, {"balances"})
       /\ AccountsBooked(call.books)
  BY <1>1, <1>3, <1>17, <1>18, <1>19
<1> QED
  BY <1>20 DEF call

LEMMA Operations ==
    ASSUME NEW old \in Nat, NEW amount \in Nat, amount # old
    PROVE  /\ GetOperationType(old, amount) = "stakeCreated" <=> old = 0
           /\ GetOperationType(old, amount) = "stakeRemoved" <=> amount = 0
BY DEF GetOperationType

LEMMA StakeSideMoved ==
    ASSUME NEW d, NEW b, StakeSide(d, b), HasAccounts(d), b.staked \in [Users -> Nat],
           NEW u \in Users, NEW amount \in Nat, amount # b.staked[u],
           NEW c, c.staked = [b.staked EXCEPT ![u] = amount],
           NEW r, StakeIs(d, r, u, amount), StakeRecounts(d, r, u, b.staked[u], amount)
    PROVE  StakeSide(r, c)
<1> DEFINE old == b.staked[u]
<1>1. r.stakes = [v \in Users |-> IF v = u THEN [amount |-> amount, exists |-> TRUE]
                                  ELSE d.stakes[v]]
  BY DEF HasAccounts, StakeIs
<1>2. c.staked = [v \in Users |-> IF v = u THEN amount ELSE b.staked[v]]
  OBVIOUS
<1>3. old \in Nat /\ amount # old
  OBVIOUS
<1>4. /\ \A v \in Users : /\ d.stakes[v].exists \in BOOLEAN
                          /\ d.stakes[v].amount = b.staked[v]
                          /\ b.staked[v] > 0 => d.stakes[v].exists
      /\ d.global.totalNumberOfProtocolTokenStakes = Cardinality(Stakers(d))
      /\ d.global.numberOfActiveProtocolTokenStakes = Cardinality(Staking(b))
  BY DEF StakeSide, Stakers, Staking
<1>5. Stakers(r) = Stakers(d) \union {u}
  <2>1. ASSUME NEW v \in Users PROVE r.stakes[v].exists <=> (d.stakes[v].exists \/ v = u)
    BY <1>1
  <2> QED
    BY <2>1 DEF Stakers
<1>6. Staking(c) = IF amount = 0 THEN Staking(b) \ {u} ELSE Staking(b) \union {u}
  <2>1. ASSUME NEW v \in Users PROVE c.staked[v] = IF v = u THEN amount ELSE b.staked[v]
    BY <1>2
  <2>2. CASE amount = 0
    BY <2>1, <2>2 DEF Staking
  <2>3. CASE amount # 0
    <3>1. amount > 0
      BY <2>3
    <3> QED
      BY <2>1, <2>3, <3>1 DEF Staking
  <2> QED
    BY <2>2, <2>3
<1>7. /\ u \in Stakers(d) <=> d.stakes[u].exists
      /\ u \in Staking(b) <=> old # 0
      /\ Stakers(d) \in SUBSET Users /\ Staking(b) \in SUBSET Users
  BY <1>3 DEF Stakers, Staking
<1>8. old # 0 => d.stakes[u].exists
  BY <1>3, <1>4
<1>9. r.global.totalNumberOfProtocolTokenStakes = Cardinality(Stakers(r))
  <2>1. Cardinality(Stakers(r)) = Cardinality(Stakers(d))
                                    + (IF u \in Stakers(d) THEN 0 ELSE 1)
    BY <1>5, <1>7, OneMore
  <2>2. r.global.totalNumberOfProtocolTokenStakes
           = Cardinality(Stakers(d)) + (IF old = 0 /\ ~d.stakes[u].exists THEN 1 ELSE 0)
    BY <1>3, <1>4, Operations DEF StakeRecounts
  <2>3. (old = 0 /\ ~d.stakes[u].exists) <=> u \notin Stakers(d)
    BY <1>7, <1>8
  <2> HIDE DEF old
  <2> QED
    BY <2>1, <2>2, <2>3
<1>10. r.global.numberOfActiveProtocolTokenStakes = Cardinality(Staking(c))
  <2>1. r.global.numberOfActiveProtocolTokenStakes
           = Cardinality(Staking(b)) + (IF old = 0 THEN 1 ELSE 0)
                                     - (IF amount = 0 THEN 1 ELSE 0)
    BY <1>3, <1>4, Operations DEF StakeRecounts
  <2>2. CASE amount = 0
    <3>1. Staking(c) = Staking(b) \ {u}
      BY <1>6, <2>2
    <3>2. Cardinality(Staking(c)) = Cardinality(Staking(b)) - (IF u \in Staking(b) THEN 1 ELSE 0)
          /\ Cardinality(Staking(b)) \in Nat
      BY <1>7, <3>1, OneMore
    <3>3. u \in Staking(b) /\ old # 0
      BY <1>3, <1>7, <2>2
    <3> HIDE DEF old
    <3> QED
      BY <2>1, <2>2, <3>2, <3>3
  <2>3. CASE amount # 0
    <3>1. Staking(c) = Staking(b) \union {u}
      BY <1>6, <2>3
    <3>2. Cardinality(Staking(c)) = Cardinality(Staking(b)) + (IF u \in Staking(b) THEN 0 ELSE 1)
          /\ Cardinality(Staking(b)) \in Nat
      BY <1>7, <3>1, OneMore
    <3>3. u \in Staking(b) <=> old # 0
      BY <1>7
    <3> HIDE DEF old
    <3> QED
      BY <2>1, <2>3, <3>2, <3>3
  <2> QED
    BY <2>2, <2>3
<1>11. ASSUME NEW v \in Users
       PROVE  /\ r.stakes[v].exists \in BOOLEAN
              /\ r.stakes[v].amount = c.staked[v]
              /\ c.staked[v] > 0 => r.stakes[v].exists
  <2>1. CASE v = u
    <3>1. r.stakes[u] = [amount |-> amount, exists |-> TRUE]
      BY <1>1
    <3>2. c.staked[u] = amount
      BY <1>2
    <3> QED
      BY <2>1, <3>1, <3>2
  <2>2. CASE v # u
    BY <1>1, <1>2, <1>4, <2>2
  <2> QED
    BY <2>1, <2>2
<1> QED
  BY <1>9, <1>10, <1>11 DEF StakeSide, Stakers, Staking

LEMMA StakedBookWritten ==
    ASSUME NEW b, IsBooks(b), NEW u, NEW amount
    PROVE  /\ BooksKeep(b, WithStaked(b, u, amount), {"staked"})
           /\ WithStaked(b, u, amount).staked = [b.staked EXCEPT ![u] = amount]
BY DEF WithStaked, BooksKeep, IsBooks, BookNames

\* The total of the stakes moves as the stake does.
LEMMA StakeTallied ==
    ASSUME NEW d, NEW b, Tallied(d, b, 0, 0), b.staked \in [Users -> Nat],
           NEW u \in Users, NEW amount \in Nat,
           NEW r, r.users = d.users, Moves(d, r, Staked(amount - b.staked[u])),
           NEW c, BooksKeep(b, c, {"staked"}), c.staked = [b.staked EXCEPT ![u] = amount]
    PROVE  Tallied(r, c, 0, 0)
<1> DEFINE f == "totalProtocolTokensStaked"
           k == amount - b.staked[u]
<1>1. /\ c.troves = b.troves /\ c.lColl = b.lColl /\ c.lDebt = b.lDebt
      /\ c.deposits = b.deposits /\ c.losses = b.losses /\ c.surplus = b.surplus
  BY DEF BooksKeep, BookNames
<1>2. /\ f \in TallyNames
      /\ \A g \in TallyNames \ {f} : Parts(c)[g] = Parts(b)[g]
  BY <1>1 DEF Parts, Entire, Compounded, TallyNames
<1>3. k \in Int /\ \A v \in Users : c.staked[v] = b.staked[v] + (IF v = u THEN k ELSE 0)
  OBVIOUS
<1>4. \A v \in Users : Parts(c)[f][v] = c.staked[v] /\ Parts(b)[f][v] = b.staked[v]
  BY DEF Parts
<1>5. \A v \in Users : Parts(c)[f][v] = Parts(b)[f][v] + (IF v = u THEN k ELSE 0)
  <2> HIDE DEF k
  <2> QED
    BY <1>3, <1>4
<1>6. Moves(d, r, Only(f, k))
  BY DEF Staked
<1>7. /\ c.surplus \in [Users -> Int]
      /\ \A v \in Users : r.users[v].collSurplus = c.surplus[v]
  BY <1>1 DEF Tallied
<1> HIDE DEF f, k
<1> QED
  BY <1>2, <1>3, <1>5, <1>6, <1>7, OnePartMoves

\* A store whose stakes are those of the books c, its other accounts as before.
LEMMA StakesFollowed ==
    ASSUME NEW d, NEW b, NEW c, NEW r, Follows(d, b, {}, {}),
           Keeps(d, r, ChangeFields \union {"stakes"}, ChainKeys \union StakeCounters),
           ChainInv(r), StakeSide(r, c), BooksKeep(b, c, {"staked"}), Tallied(r, c, 0, 0),
           NEW u \in Users, NEW amount,
           StakeIs(d, r, u, amount) \/ r.stakes = d.stakes
    PROVE  Follows(r, c, {}, {})
<1> DEFINE F == ChangeFields \union {"stakes"}
           K == ChainKeys \union StakeCounters
<1>1. /\ F \intersect {"liquidation", "redemption"} = {}
      /\ F \intersect {"deposits", "users", "frontends"} = {}
      /\ "troves" \notin F /\ "token" \notin F
      /\ K \intersect (CallKeys \union {"tmpDepositUpdate"}) = {}
      /\ K \intersect (TroveCounters \union {"rawTotalRedistributedCollateral",
                                             "rawTotalRedistributedDebt"}) = {}
  BY DEF ChangeFields, ChainKeys, StakeCounters, CallKeys, TroveCounters
<1>2. Keeps(d, r, F, K)
  OBVIOUS
<1>3. /\ r.deposits = d.deposits /\ r.users = d.users /\ r.token = d.token /\ IsStore(r)
  BY DEF Keeps, StoreFields, ChangeFields
<1> HIDE DEF F, K
<1>4. TroveSide(d, b) /\ TokenSide(d, b) /\ DepositSide(d, b) /\ CallSide(d, {}, {})
      /\ HasAccounts(d)
  BY DEF Follows
<1>5. TroveSide(r, b) /\ TokenSide(r, b)
  BY <1>1, <1>2, <1>4, TrovesKept, TokensKept
<1>6. DepositSide(r, b) /\ CallSide(r, {}, {})
  BY <1>1, <1>2, <1>4, DepositsKept, CallsKept
<1>7. /\ c.troves = b.troves /\ c.closedBy = b.closedBy
      /\ c.lColl = b.lColl /\ c.lDebt = b.lDebt
      /\ c.deposits = b.deposits /\ c.tags = b.tags /\ c.frontends = b.frontends
      /\ c.balances = b.balances
  BY DEF BooksKeep, BookNames
<1>8. TroveSide(r, c) /\ TokenSide(r, c) /\ DepositSide(r, c)
  BY <1>5, <1>6, <1>7, SameTroves, SameTokens, SameDeposits
<1>9. HasAccounts(r)
  <2>1. d.stakes = [v \in Users |-> [amount |-> d.stakes[v].amount,
                                     exists |-> d.stakes[v].exists]]
    BY <1>4 DEF HasAccounts
  <2>2. CASE StakeIs(d, r, u, amount)
    <3> DEFINE x == [amount |-> amount, exists |-> TRUE]
    <3>1. r.stakes = [v \in Users |-> IF v = u THEN x ELSE d.stakes[v]]
      BY <2>1, <2>2 DEF StakeIs
    <3>2. x = [amount |-> x.amount, exists |-> x.exists]
      OBVIOUS
    <3> HIDE DEF x
    <3>3. \A v \in Users : r.stakes[v] = [amount |-> r.stakes[v].amount,
                                          exists |-> r.stakes[v].exists]
      <4> TAKE v \in Users
      <4>1. CASE v = u
        <5>1. r.stakes[v] = x
          BY <3>1, <4>1
        <5> QED
          BY <3>2, <5>1
      <4>2. CASE v # u
        <5>1. r.stakes[v] = d.stakes[v]
          BY <3>1, <4>2
        <5> QED
          BY <2>1, <5>1
      <4> QED
        BY <4>1, <4>2
    <3>4. r.stakes = [v \in Users |-> r.stakes[v]]
      BY <3>1
    <3>5. r.stakes = [v \in Users |-> [amount |-> r.stakes[v].amount,
                                       exists |-> r.stakes[v].exists]]
      BY <3>3, <3>4
    <3> QED
      BY <1>3, <1>4, <3>5 DEF HasAccounts
  <2>3. CASE r.stakes = d.stakes
    BY <1>3, <1>4, <2>3 DEF HasAccounts
  <2> QED
    BY <2>2, <2>3
<1> QED
  BY <1>3, <1>6, <1>8, <1>9 DEF Follows

\* The stake's change, when there is one.
LEMMA StakeReplayed ==
    ASSUME NEW d, NEW b, Follows(d, b, {}, {}), IsBooks(b), b.staked \in [Users -> Nat],
           NEW u \in Users, NEW amount \in Nat, amount # b.staked[u],
           NEW e, e.name = "StakeChanged", e.user = u, e.amount = amount, e.tx # Null
    PROVE  LET r == Handle(d, e)
           IN Replays(d, <<e>>, r) /\ Follows(r, WithStaked(b, u, amount), {}, {})
<1> DEFINE r == UpdateStake(d, e)
           c == WithStaked(b, u, amount)
<1>1. Handle(d, e) = r
  BY DEF Handle
<1>2. IsStore(d) /\ ChainInv(d) /\ HasAccounts(d) /\ StakeSide(d, b)
  BY DEF Follows
<1>3. /\ d.stakes[u].exists \in BOOLEAN /\ d.stakes[u].amount = b.staked[u]
      /\ \A k \in StakeCounters : d.global[k] \in Int
  <2>1. /\ Stakers(d) \in SUBSET Users /\ Staking(b) \in SUBSET Users
    BY DEF Stakers, Staking
  <2>2. /\ Cardinality(Stakers(d)) \in Nat /\ Cardinality(Staking(b)) \in Nat
    BY <2>1, OneMore
  <2> QED
    BY <1>2, <2>2 DEF StakeSide, Stakers, Staking, StakeCounters
<1>4. /\ Keeps(d, r, ChangeFields \union {"stakes"}, ChainKeys \union StakeCounters)
      /\ ChainInv(r)
      /\ StakeIs(d, r, u, amount)
      /\ StakeRecounts(d, r, u, d.stakes[u].amount, amount)
  BY <1>2, <1>3, StakeUpdated
<1> HIDE DEF r
<1>5. BooksKeep(b, c, {"staked"}) /\ c.staked = [b.staked EXCEPT ![u] = amount]
  BY StakedBookWritten
<1> HIDE DEF c
<1>6. StakeRecounts(d, r, u, b.staked[u], amount)
  BY <1>3, <1>4
<1>7. StakeSide(r, c)
  BY <1>2, <1>4, <1>5, <1>6, StakeSideMoved
<1>a. Tallied(r, c, 0, 0)
  <2>1. Tallied(d, b, 0, 0) /\ HasState(d) /\ b.staked[u] \in Int
    BY DEF Follows, Tallied
  <2>2. Moves(d, r, Staked(amount - b.staked[u]))
    BY <1>2, <1>3, <2>1, StakeMoves DEF r
  <2>3. r.users = d.users
    BY <1>4 DEF Keeps, StoreFields, ChangeFields
  <2> QED
    BY <1>5, <2>1, <2>2, <2>3, StakeTallied
<1>8. Follows(r, c, {}, {})
  BY <1>4, <1>5, <1>7, <1>a, StakesFollowed
<1>9. Replays(d, <<e>>, r)
  BY <1>1, <1>2, EventReplayed DEF Fits
<1> QED
  BY <1>1, <1>8, <1>9 DEF c

\* The gains of a stake that there is.
LEMMA StakeGainsReplayed ==
    ASSUME NEW d, NEW b, Follows(d, b, {}, {}), b.staked \in [Users -> Nat], NEW u \in Users,
           NEW e, e.name = "StakingGainsWithdrawn", e.user = u, e.tx # Null,
           e.gain = 0 \/ d.stakes[u].exists
    PROVE  LET r == Handle(d, e)
           IN Replays(d, <<e>>, r) /\ Follows(r, b, {}, {})
<1> DEFINE r == WithdrawStakeGains(d, e)
           amount == d.stakes[u].amount
<1>1. Handle(d, e) = r
  BY DEF Handle
<1>2. IsStore(d) /\ ChainInv(d) /\ HasAccounts(d) /\ StakeSide(d, b)
  BY DEF Follows
<1>3. /\ Keeps(d, r, ChangeFields \union {"stakes"}, ChainKeys) /\ ChainInv(r)
      /\ IF e.gain = 0 THEN r.stakes = d.stakes ELSE StakeIs(d, r, u, amount)
  BY <1>2, StakeGainsHandled
<1> HIDE DEF r
<1>4. r.stakes = d.stakes
  <2>1. CASE e.gain = 0
    BY <1>3, <2>1
  <2>2. CASE e.gain # 0
    <3> DEFINE f == d.stakes
    <3>1. f = [v \in Users |-> [amount |-> f[v].amount, exists |-> f[v].exists]]
      BY <1>2 DEF HasAccounts
    <3>2. f[u].exists = TRUE
      BY <1>2, <2>2 DEF StakeSide
    <3>3. r.stakes = [f EXCEPT ![u] = [amount |-> f[u].amount, exists |-> TRUE]]
      BY <1>3, <2>2 DEF StakeIs
    <3> HIDE DEF f
    <3>4. f[u] = [amount |-> f[u].amount, exists |-> TRUE]
      BY <3>1, <3>2
    <3>5. f = [v \in Users |-> f[v]]
      BY <3>1
    <3> QED
      BY <3>3, <3>4, <3>5 DEF f
  <2> QED
    BY <2>1, <2>2
<1> HIDE DEF amount
<1>5. /\ r.global.totalNumberOfProtocolTokenStakes = d.global.totalNumberOfProtocolTokenStakes
      /\ r.global.numberOfActiveProtocolTokenStakes = d.global.numberOfActiveProtocolTokenStakes
  BY <1>3 DEF Keeps, GlobalKeys, OtherKeys, ChainKeys
<1>6. StakeSide(r, b)
  BY <1>2, <1>4, <1>5 DEF StakeSide
<1>7. Keeps(d, r, ChangeFields \union {"stakes"}, ChainKeys \union StakeCounters)
  BY <1>3 DEF Keeps
<1>8. TroveSide(d, b) /\ TokenSide(d, b) /\ DepositSide(d, b) /\ CallSide(d, {}, {})
  BY DEF Follows
<1>9. /\ (ChangeFields \union {"stakes"}) \intersect {"liquidation", "redemption"} = {}
      /\ (ChangeFields \union {"stakes"}) \intersect {"deposits", "users", "frontends"} = {}
      /\ "troves" \notin (ChangeFields \union {"stakes"})
      /\ "token" \notin (ChangeFields \union {"stakes"})
      /\ ChainKeys \intersect (CallKeys \union {"tmpDepositUpdate"}) = {}
      /\ ChainKeys \intersect (TroveCounters \union {"rawTotalRedistributedCollateral",
                                                     "rawTotalRedistributedDebt"}) = {}
  BY DEF ChangeFields, ChainKeys, CallKeys, TroveCounters
<1>10. TroveSide(r, b) /\ TokenSide(r, b)
  BY <1>3, <1>8, <1>9, TrovesKept, TokensKept
<1>11. DepositSide(r, b) /\ CallSide(r, {}, {})
  BY <1>3, <1>8, <1>9, DepositsKept, CallsKept
<1>12. HasAccounts(r)
  <2>1. r.deposits = d.deposits /\ r.users = d.users /\ r.token = d.token
    BY <1>3 DEF Keeps, StoreFields, ChangeFields
  <2> QED
    BY <1>2, <1>4, <2>1 DEF HasAccounts
<1>a. Tallied(r, b, 0, 0)
  <2>1. Tallied(d, b, 0, 0) /\ HasState(d) /\ d.stakes[u].amount \in Int
    BY <1>2 DEF Follows, Tallied, StakeSide
  <2>2. Steady(d, r)
    BY <1>2, <2>1, StakeGainsMove, NothingMoves DEF r, Staked
  <2>3. r.users = d.users
    BY <1>3 DEF Keeps, StoreFields, ChangeFields
  <2> QED
    BY <2>1, <2>2, <2>3, TallyStays DEF Steady, SameNumbers
<1>13. Follows(r, b, {}, {})
  BY <1>3, <1>6, <1>10, <1>11, <1>12, <1>a DEF Follows, Keeps
<1>14. Replays(d, <<e>>, r)
  BY <1>1, <1>2, EventReplayed DEF Fits
<1> QED
  BY <1>1, <1>13, <1>14

\* The change of a stake, then its gains: a call that does not change the stake
\* withdraws a gain of one there is.
LEMMA SetStakeReplayed ==
    ASSUME NEW d, NEW b, Follows(d, b, {}, {}), IsBooks(b), AccountsBooked(b),
           NEW tx \in Nat, NEW u \in Users, NEW amount \in Nat, NEW gain \in Nat,
           gain > 0 => b.staked[u] > 0
    PROVE  LET call == SetStake(b, tx, u, amount, gain)
               c == call.books
           IN /\ \E r : Replays(d, call.events, r) /\ Follows(r, c, {}, {})
              /\ BooksKeep(b, c, {"staked"})
              /\ AccountsBooked(c)
<1> DEFINE c == WithStaked(b, u, amount)
           call == SetStake(b, tx, u, amount, gain)
           e == [name |-> "StakeChanged", tx |-> tx, user |-> u, amount |-> amount]
           g == [name |-> "StakingGainsWithdrawn", tx |-> tx, user |-> u, gain |-> gain]
           changes == IF amount = b.staked[u] THEN <<>> ELSE <<e>>
<1>1. call.events = changes \o <<g>> /\ call.books = c
  BY DEF SetStake, WithStaked
<1> HIDE DEF call
<1>2. /\ e.name = "StakeChanged" /\ e.user = u /\ e.amount = amount /\ e.tx # Null
      /\ g.name = "StakingGainsWithdrawn" /\ g.user = u /\ g.gain = gain /\ g.tx # Null
  BY NumberIsNotNull
<1> HIDE DEF e, g
<1>3. b.staked \in [Users -> Nat]
  BY DEF AccountsBooked
<1>4. BooksKeep(b, c, {"staked"}) /\ c.staked = [b.staked EXCEPT ![u] = amount]
  BY StakedBookWritten
<1>5. \E m : /\ Replays(d, changes, m) /\ Follows(m, c, {}, {})
             /\ gain = 0 \/ m.stakes[u].exists
  <2>1. CASE amount = b.staked[u]
    <3>1. changes = <<>>
      BY <2>1
    <3>2. Replays(d, changes, d)
      BY <3>1, NothingReplayed
    <3> HIDE DEF c
    <3>3. c.staked = b.staked
      BY <1>3, <1>4, <2>1
    <3>4. BooksKeep(b, c, {}) /\ IsBooks(c)
      BY <1>4, <3>3 DEF BooksKeep
    <3>5. c = b
      BY <3>4 DEF BooksKeep, IsBooks
    <3>6. gain > 0 => d.stakes[u].exists
      BY DEF Follows, StakeSide
    <3> QED
      BY <3>2, <3>5, <3>6
  <2>2. CASE amount # b.staked[u]
    <3> DEFINE m == Handle(d, e)
    <3>1. Replays(d, <<e>>, m) /\ Follows(m, c, {}, {})
      BY <1>2, <1>3, <2>2, StakeReplayed
    <3>2. changes = <<e>>
      BY <2>2
    <3>3. gain > 0 => m.stakes[u].exists
      <4>1. m = UpdateStake(d, e)
        BY <1>2 DEF Handle
      <4>2. IsStore(d) /\ ChainInv(d) /\ HasAccounts(d) /\ StakeSide(d, b)
        BY DEF Follows
      <4>3. /\ d.stakes[u].exists \in BOOLEAN
            /\ \A k \in StakeCounters : d.global[k] \in Int
        <5>1. Stakers(d) \in SUBSET Users /\ Staking(b) \in SUBSET Users
          BY DEF Stakers, Staking
        <5>2. Cardinality(Stakers(d)) \in Nat /\ Cardinality(Staking(b)) \in Nat
          BY <5>1, OneMore
        <5> QED
          BY <4>2, <5>2 DEF StakeSide, Stakers, Staking, StakeCounters
      <4>4. StakeIs(d, m, u, amount)
        BY <1>2, <4>1, <4>2, <4>3, StakeUpdated
      <4>5. m.stakes[u] = [amount |-> amount, exists |-> TRUE]
        BY <4>2, <4>4 DEF StakeIs, HasAccounts
      <4> QED
        BY <4>5
    <3> HIDE DEF m
    <3> QED
      BY <3>1, <3>2, <3>3
  <2> QED
    BY <2>1, <2>2
<1> HIDE DEF changes, c
<1>6. PICK m : /\ Replays(d, changes, m) /\ Follows(m, c, {}, {})
               /\ gain = 0 \/ m.stakes[u].exists
  BY <1>5
<1> DEFINE r == Handle(m, g)
<1>a. c.staked \in [Users -> Nat]
  BY <1>3, <1>4
<1>7. Replays(m, <<g>>, r) /\ Follows(r, c, {}, {})
  BY <1>2, <1>6, <1>a, StakeGainsReplayed
<1> HIDE DEF r
<1>8. Replays(d, changes \o <<g>>, r)
  BY <1>6, <1>7, QueuesReplayed
<1>9. AccountsBooked(c)
  <2>1. c.staked \in [Users -> Nat]
    BY <1>3, <1>4
  <2> QED
    BY <1>4, <2>1 DEF AccountsBooked, BooksKeep, BookNames
<1>10. /\ \E q : Replays(d, call.events, q) /\ Follows(q, call.books, {}, {})
       /\ BooksKeep(b, call.books, {"staked"})
       /\ AccountsBooked(call.books)
  BY <1>1, <1>4, <1>7, <1>8, <1>9
<1> QED
  BY <1>10 DEF call

-----------------------------------------------------------------------------
(* Sort keys.  A redistribution adds the same to the debt of every unit of  *)
(* stake, so keys need not be written again.                                *)

\* The key, with what was redistributed since, is the debt of a unit of stake.
LEMMA KeyIs ==
    ASSUME NEW d, NEW b, TroveSide(d, b), TrovesBooked(b), NEW u \in Users,
           b.troves[u].stake # 0
    PROVE  LET t == d.troves[u]
               k == t.sortKey + b.lDebt
               s == b.troves[u].stake
               e == Entire(b, u).debt
           IN /\ t.sortKey \in Int /\ k \in Int /\ s \in Nat \ {0} /\ e \in Nat
              /\ k * s <= e * Scaling /\ e * Scaling < (k + 1) * s
              /\ (t.debt * Scaling) % t.rawStake = 0 => k * s = e * Scaling
<1> DEFINE t == d.troves[u]
           k == t.sortKey + b.lDebt
           s == b.troves[u].stake
           D == b.troves[u].debt
           n == b.troves[u].snapDebt
           e == Entire(b, u).debt
           w == D * Scaling
           q == w \div s
<1>1. /\ s \in Nat \ {0} /\ D \in Nat /\ n \in Nat /\ IsTerm(n) /\ n <= b.lDebt
      /\ IsTerm(b.lDebt) /\ b.lDebt \in Nat
  BY DEF TrovesBooked, IsBooked, TroveTerms
<1>2. t.debt = D /\ t.rawStake = s /\ k = q - n + b.lDebt /\ t.sortKey = q - n
  BY DEF TroveSide, TroveFollows, SortKey
<1>3. e = D + (s * (b.lDebt - n)) \div Scaling
  BY DEF Entire
<1> HIDE DEF k, s, D, n, e, t
<1>a. PICK m \in Nat : Gained(b.lDebt, n, s, m)
  BY <1>1, TermsBetween
<1>4. /\ b.lDebt = n + m * Scaling
      /\ (s * (b.lDebt - n)) \div Scaling = s * m /\ s * m \in Nat
  BY <1>a DEF Gained
<1> DEFINE z == m * Scaling
<1>5. w \in Nat /\ z \in Nat
  BY <1>1, <1>4, Parameters, SMT
<1>6. q \in Nat /\ q * s <= w /\ w < (q + 1) * s /\ (w % s = 0 => q * s = w)
  <2> HIDE DEF w
  <2>1. q \in Nat /\ s * q <= w /\ w < s * q + s /\ (w % s = 0 => s * q = w)
    BY <1>1, <1>5, SMT
  <2> HIDE DEF q
  <2>2. s * q = q * s /\ (q + 1) * s = q * s + s /\ q * s \in Nat
    BY <1>1, <2>1, SMT
  <2> QED
    BY <1>1, <1>5, <2>1, <2>2
<1>7. k = q + z /\ e = D + s * m
  <2> HIDE DEF q, z
  <2> QED
    BY <1>1, <1>2, <1>3, <1>4, <1>5, <1>6 DEF z
<1>8. e * Scaling = w + z * s /\ z * s \in Nat
  BY <1>1, <1>4, <1>7, Parameters, SMT
<1> HIDE DEF q, w, z
<1>9. k * s = q * s + z * s /\ (k + 1) * s = (q + 1) * s + z * s
  BY <1>1, <1>5, <1>6, <1>7, SMT
<1>10. /\ t.sortKey \in Int /\ k \in Int /\ e \in Nat
       /\ k * s <= e * Scaling /\ e * Scaling < (k + 1) * s
       /\ (t.debt * Scaling) % t.rawStake = 0 => k * s = e * Scaling
  <2>1. q * s \in Nat /\ (q + 1) * s \in Nat
    BY <1>1, <1>6, SMT
  <2>2. (t.debt * Scaling) % t.rawStake = 0 => w % s = 0
    BY <1>2 DEF w
  <2> QED
    BY <1>1, <1>2, <1>4, <1>5, <1>6, <1>7, <1>8, <1>9, <2>1, <2>2
<1> QED
  BY <1>1, <1>10 DEF k, s, e, t

LEMMA Scaled ==
    ASSUME NEW x \in Int, NEW y \in Int, NEW n \in Nat \ {0}
    PROVE  x < y <=> x * n < y * n
BY SMT

\* Two troves, e owed on s, with keys k: less owed per stake is less owed per
\* collateral.
LEMMA KeysOrder ==
    ASSUME NEW k1 \in Int, NEW k2 \in Int, NEW e1 \in Nat, NEW e2 \in Nat,
           NEW s1 \in Nat \ {0}, NEW s2 \in Nat \ {0}, NEW n \in Nat \ {0},
           NEW unit \in Nat \ {0},
           k1 * s1 <= e1 * n, e1 * n < (k1 + 1) * s1, k2 * s2 <= e2 * n
    PROVE  LET less == e1 * (s2 * unit) < e2 * (s1 * unit)
           IN /\ k1 < k2 => less
              /\ less /\ k2 * s2 = e2 * n => k1 < k2
<1> DEFINE a == e1 * s2
           b == e2 * s1
           p == s1 * s2
<1>1. a \in Nat /\ b \in Nat /\ p \in Nat \ {0}
  BY SMT
<1>2. e1 * (s2 * unit) = a * unit /\ e2 * (s1 * unit) = b * unit
  BY SMT
<1>3. e1 * (s2 * unit) < e2 * (s1 * unit) <=> a * n < b * n
  <2> HIDE DEF a, b
  <2> QED
    BY <1>1, <1>2, Scaled
<1>4. /\ a * n = (e1 * n) * s2 /\ b * n = (e2 * n) * s1
      /\ k1 * p = (k1 * s1) * s2 /\ (k1 + 1) * p = ((k1 + 1) * s1) * s2
      /\ k2 * p = (k2 * s2) * s1
  BY SMT
<1>5. e1 * n \in Int /\ e2 * n \in Int /\ k1 * s1 \in Int /\ (k1 + 1) * s1 \in Int
      /\ k2 * s2 \in Int /\ k1 * p \in Int /\ (k1 + 1) * p \in Int /\ k2 * p \in Int
      /\ a * n \in Int /\ b * n \in Int
  BY <1>1, SMT
<1> HIDE DEF a, b, p
<1>6. k1 * p <= a * n /\ a * n < (k1 + 1) * p
  BY <1>4, <1>5, Scaled
<1>7. k2 * p <= b * n /\ (k2 * s2 = e2 * n => k2 * p = b * n)
  BY <1>4, <1>5, Scaled
<1>8. CASE k1 < k2
  <2>1. k1 + 1 = k2 \/ (k1 + 1) * p < k2 * p
    BY <1>1, <1>8, Scaled
  <2> QED
    BY <1>3, <1>5, <1>6, <1>7, <1>8, <2>1
<1>9. CASE ~(k1 < k2)
  <2>1. k1 = k2 \/ k2 * p < k1 * p
    BY <1>1, <1>9, Scaled
  <2> QED
    BY <1>3, <1>5, <1>6, <1>7, <1>9, <2>1
<1> QED
  BY <1>8, <1>9

-----------------------------------------------------------------------------
(* The beginning.                                                           *)

LEMMA NothingAdded ==
    ASSUME NEW f, \A u \in Users : f[u] = 0
    PROVE  Total(f, Users) = 0
<1>1. IsFiniteSet(Users) /\ \A u \in Users : f[u] \in {0}
  BY SubgraphAssumption
<1>2. Total(f, Users) \in {0}
  BY <1>1, TotalIsANumber
<1> QED
  BY <1>2

LEMMA EmptyFollows ==
    ASSUME NEW price
    PROVE  /\ BooksInv(NewBooks(price))
           /\ Follows(EmptyStore, NewBooks(price), {}, {})
<1> DEFINE b == NewBooks(price)
           d == EmptyStore
<1>1. /\ b.lColl = 0 /\ b.lDebt = 0
      /\ b.troves = [u \in Users |-> Closed]
      /\ b.closedBy = [u \in Users |-> "nonExistent"]
      /\ b.deposits = [u \in Users |-> 0] /\ b.losses = [u \in Users |-> 0]
      /\ b.gains = [u \in Users |-> 0] /\ b.tags = [u \in Users |-> Nobody]
      /\ b.frontends = {} /\ b.staked = [u \in Users |-> 0]
      /\ b.balances = [u \in Users |-> 0] /\ b.surplus = [u \in Users |-> 0]
  BY DEF NewBooks
<1>2. b = [f \in BookNames |-> b[f]]
  BY DEF NewBooks, BookNames
<1> HIDE DEF b
<1>3. IsTerm(0)
  BY Parameters DEF IsTerm
<1>4. TrovesBooked(b)
  BY <1>1, <1>3 DEF TrovesBooked, IsBooked, Closed, TroveTerms, Statuses
<1>5. PoolBooked(b) /\ AccountsBooked(b)
  BY <1>1 DEF PoolBooked, AccountsBooked
<1>6. /\ d.global = NewGlobal /\ d.transaction.hash = Null /\ d.change = NoChange
      /\ d.troves = [u \in Users |-> NoTrove]
      /\ d.deposits = [u \in Users |-> [amount |-> 0, frontend |-> Nobody]]
      /\ d.stakes = [u \in Users |-> [amount |-> 0, exists |-> FALSE]]
      /\ d.users = [u \in Users |-> [collSurplus |-> 0, frontend |-> Nobody]]
      /\ d.frontends = {}
      /\ d.token = [totalSupply |-> 0, balances |-> [u \in Users |-> 0],
                    allowances |-> [p \in Users \X Users |-> 0]]
  BY DEF EmptyStore
<1>b. d.state = NewSystemState
  BY DEF EmptyStore
<1>7. d = [f \in StoreFields |-> d[f]]
  BY DEF EmptyStore, StoreFields
<1>8. HasCalls(d)
  <2>1. /\ d.liquidation = [id |-> Null, debt |-> 0, collateral |-> 0, troves |-> {}]
        /\ d.redemption = [id |-> Null, attempted |-> 0, actual |-> 0, troves |-> {}]
    BY DEF EmptyStore
  <2> HIDE DEF d
  <2> QED
    <3>1. d.liquidation = [f \in {"id", "debt", "collateral", "troves"} |-> d.liquidation[f]]
      BY <2>1
    <3>2. d.redemption = [f \in {"id", "attempted", "actual", "troves"} |-> d.redemption[f]]
      BY <2>1
    <3>3. {d.global.liquidationCount, d.global.redemptionCount} \subseteq Nat
      BY <1>6 DEF NewGlobal
    <3> QED
      BY <3>1, <3>2, <3>3 DEF HasCalls
<1> HIDE DEF d
<1>9. IsStore(d)
  BY <1>6, <1>7 DEF IsStore, NewGlobal, GlobalKeys, ChainKeys, TroveCounters, OtherKeys
<1>10. ChainInv(d)
  BY <1>6 DEF ChainInv, NewGlobal, NoChange, ChangeNames, Null
<1>11. HasTroves(d)
  BY <1>6 DEF HasTroves, NoTrove, TroveNames, Statuses
<1>12. CountersFollow(d)
  <2>1. \A u \in Users : d.troves[u].status = "nonExistent"
    BY <1>6 DEF NoTrove
  <2>2. \A s \in Statuses \ {"nonExistent"} : With(d, s) = {}
    BY <2>1 DEF With
  <2>3. With(d, "nonExistent") = Users
    BY <2>1 DEF With
  <2>4. Cardinality({}) = 0 /\ Cardinality(Users) \in Nat
    BY SubgraphAssumption, FS_EmptySet, FS_CardinalityType
  <2>5. \A k \in TroveCounters : d.global[k] = 0
    BY <1>6 DEF NewGlobal, TroveCounters
  <2>6. \A s \in Statuses \ {"nonExistent"} : KeyOf(s) \in TroveCounters
    BY DEF KeyOf, CounterOf, Statuses, ClosedStatuses, TroveCounters
  <2>7. d.global.totalNumberOfTroves = 0
    BY <2>5 DEF TroveCounters
  <2>8. \A s \in Statuses \ {"nonExistent"} : d.global[KeyOf(s)] = Cardinality(With(d, s))
    BY <2>2, <2>4, <2>5, <2>6
  <2>9. d.global.totalNumberOfTroves = Cardinality(Users) - Cardinality(With(d, "nonExistent"))
    BY <2>3, <2>4, <2>7
  <2> QED
    BY <2>8, <2>9 DEF CountersFollow
<1>13. TroveSide(d, b)
  <2>1. ASSUME NEW u \in Users PROVE TroveFollows(d.troves[u], b, u)
    BY <1>1, <1>6 DEF TroveFollows, NoTrove, Closed
  <2>2. d.global.rawTotalRedistributedCollateral = 0 /\ d.global.rawTotalRedistributedDebt = 0
    BY <1>6 DEF NewGlobal
  <2> QED
    BY <1>1, <1>11, <1>12, <2>1, <2>2 DEF TroveSide
<1>14. HasAccounts(d)
  BY <1>6 DEF HasAccounts
<1>15. DepositSide(d, b)
  BY <1>1, <1>6 DEF DepositSide, DepositFollows
<1>16. StakeSide(d, b)
  <2>1. /\ {u \in Users : d.stakes[u].exists} = {}
        /\ {u \in Users : b.staked[u] > 0} = {}
    BY <1>1, <1>6
  <2>2. Cardinality({}) = 0
    BY FS_EmptySet
  <2>3. /\ d.global.totalNumberOfProtocolTokenStakes = 0
        /\ d.global.numberOfActiveProtocolTokenStakes = 0
    BY <1>6 DEF NewGlobal
  <2>4. \A u \in Users : /\ d.stakes[u].exists \in BOOLEAN
                         /\ d.stakes[u].amount = b.staked[u]
                         /\ ~(b.staked[u] > 0)
    <3> TAKE u \in Users
    <3>1. d.stakes[u] = [amount |-> 0, exists |-> FALSE]
      BY <1>6
    <3>2. b.staked[u] = 0
      BY <1>1
    <3> QED
      BY <3>1, <3>2
  <2> QED
    BY <2>1, <2>2, <2>3, <2>4 DEF StakeSide
<1>17. TokenSide(d, b)
  <2>1. Total(b.balances, Users) = 0
    BY <1>1, NothingAdded
  <2> QED
    BY <1>1, <1>6, <2>1 DEF TokenSide
<1>18. CallSide(d, {}, {})
  BY <1>6, <1>8 DEF CallSide, NewGlobal
<1>19. BooksInv(b)
  BY <1>2, <1>4, <1>5 DEF BooksInv
<1>a. Tallied(d, b, 0, 0)
  <2>1. HasState(d)
    BY <1>6, <1>b DEF HasState, IsState, StateNames, TallyNames, NewSystemState
  <2>2. b.surplus = [u \in Users |-> 0]
    BY <1>1
  <2>3. \A f \in TallyNames :
           /\ \A u \in Users : Parts(b)[f][u] = 0
           /\ d.state[f] = 0 /\ Moved(0, 0)[f] = 0
    <3>1. \A u \in Users : /\ Entire(b, u).coll = 0 /\ Entire(b, u).debt = 0
                            /\ Compounded(b, u) = 0
      BY <1>1, Parameters DEF Entire, Compounded, Closed
    <3>2. \A f \in TallyNames : d.state[f] = 0 /\ Moved(0, 0)[f] = 0
      BY <1>b DEF TallyNames, Moved, NewSystemState
    <3> QED
      BY <1>1, <2>2, <3>1, <3>2 DEF Parts, TallyNames
  <2>4. \A f \in TallyNames : Total(Parts(b)[f], Users) = 0
    BY <2>3, NothingAdded
  <2>5. \A u \in Users : d.users[u].collSurplus = b.surplus[u]
    BY <1>6, <2>2
  <2>6. b.surplus \in [Users -> Int]
    BY <2>2
  <2>7. \A f \in TallyNames :
           /\ \A u \in Users : Parts(b)[f][u] \in Int
           /\ d.state[f] = Total(Parts(b)[f], Users) + Moved(0, 0)[f]
    BY <2>3, <2>4
  <2> QED
    BY <2>1, <2>5, <2>6, <2>7 DEF Tallied
<1>20. Follows(d, b, {}, {})
  BY <1>9, <1>10, <1>13, <1>14, <1>15, <1>16, <1>17, <1>18, <1>a DEF Follows
<1> QED
  BY <1>19, <1>20 DEF b, d

-----------------------------------------------------------------------------
(* The invariant: the books are in order, and handling the events that are  *)
(* left, one after the other, leads to a store that has followed them.      *)

LEMMA NothingAhead ==
    ASSUME NEW d, NEW s, s = <<>>, NEW b, NEW l, Ahead(d, s, b, l)
    PROVE  Follows(d, b, {}, {}) /\ CallIsLinked(d, l)
BY NothingLeft DEF Ahead

\* A call that is neither: nothing is said of its liquidation or redemption.
LEMMA AheadOf ==
    ASSUME NEW d, NEW s, NEW b, NEW l, l.call \notin {"liquidate", "redeem"},
           \E r : Replays(d, s, r) /\ Follows(r, b, {}, {})
    PROVE  Ahead(d, s, b, l)
BY DEF Ahead, CallIsLinked

\* What a call does not touch of the books stays in order.
LEMMA TrovesStayBooked ==
    ASSUME NEW b, NEW c, NEW F, BooksKeep(b, c, F), TrovesBooked(b),
           F \intersect {"troves", "closedBy", "lColl", "lDebt"} = {}
    PROVE  TrovesBooked(c)
<1>1. /\ c.troves = b.troves /\ c.closedBy = b.closedBy
      /\ c.lColl = b.lColl /\ c.lDebt = b.lDebt
  BY DEF BooksKeep, BookNames
<1> QED
  BY <1>1, SameTrovesBooked

LEMMA PoolStaysBooked ==
    ASSUME NEW b, NEW c, NEW F, BooksKeep(b, c, F), PoolBooked(b),
           F \intersect {"deposits", "losses", "gains", "tags"} = {}
    PROVE  PoolBooked(c)
<1>1. /\ c.deposits = b.deposits /\ c.losses = b.losses
      /\ c.gains = b.gains /\ c.tags = b.tags
  BY DEF BooksKeep, BookNames
<1> QED
  BY <1>1 DEF PoolBooked

LEMMA AccountsStayBooked ==
    ASSUME NEW b, NEW c, NEW F, BooksKeep(b, c, F), AccountsBooked(b),
           F \intersect {"staked", "balances"} = {}
    PROVE  AccountsBooked(c)
<1>1. c.staked = b.staked /\ c.balances = b.balances
  BY DEF BooksKeep, BookNames
<1> QED
  BY <1>1 DEF AccountsBooked

\* Before a call: no event is left, and the store follows the books.
LEMMA BeforeACall ==
    ASSUME IInv, events = <<>>
    PROVE  Ready
<1>1. Follows(db, books, {}, {})
  BY NothingAhead DEF IInv
<1> QED
  BY <1>1 DEF IInv, BooksInv, IsBooks, Ready

\* A call, neither liquidation nor redemption, that leaves its books in order.
LEMMA CallKeeps ==
    ASSUME IInv, NEW n, n \notin {"liquidate", "redeem"}, NEW us, NEW call, Call(n, us, call),
           \E r : Replays(db, call.events, r) /\ Follows(r, call.books, {}, {}),
           NEW F, BooksKeep(books, call.books, F),
           TrovesBooked(call.books), PoolBooked(call.books), AccountsBooked(call.books)
    PROVE  IInv'
<1>1. BooksInv(call.books)
  BY DEF BooksInv, BooksKeep, IsBooks
<1>2. Ahead(db, call.events, call.books, [call |-> n, users |-> us])
  BY DEF Ahead, CallIsLinked
<1>3. /\ calls' = calls + 1 /\ books' = call.books /\ events' = call.events
      /\ last' = [call |-> n, users |-> us] /\ db' = db
  BY DEF Call
<1> QED
  BY <1>1, <1>2, <1>3 DEF IInv

\* openTrove().
LEMMA OpenTroveKeeps ==
    ASSUME IInv, NEW u \in Users, OpenTrove(u)
    PROVE  IInv'
<1>1. PICK s \in StakeSizes, debt \in DebtSizes, fee \in Fees :
         Call("trove", {u}, PutTrove(books, calls, u, "openTrove", s, debt, fee))
  BY DEF OpenTrove
<1> DEFINE call == PutTrove(books, calls, u, "openTrove", s, debt, fee)
<1>2. Call("trove", {u}, call)
  BY <1>1
<1>3. Ready
  BY <1>2, BeforeACall DEF Call
<1>4. s \in Nat \ {0} /\ debt \in Nat \ {0}
  BY SubgraphAssumption
<1>5. ~(s * UnitNow(books) = Entire(books, u).coll /\ debt = Entire(books, u).debt)
  BY <1>3, <1>4, Worth DEF OpenTrove, Open, Ready
<1>6. /\ \E r : Replays(db, call.events, r) /\ Follows(r, call.books, {}, {})
      /\ BooksKeep(books, call.books, {"troves", "closedBy"})
      /\ TrovesBooked(call.books)
  BY <1>3, <1>4, <1>5, PutReplayed DEF Ready
<1> HIDE DEF call
<1>7. PoolBooked(call.books) /\ AccountsBooked(call.books)
  BY <1>3, <1>6, PoolStaysBooked, AccountsStayBooked DEF Ready
<1> QED
  BY <1>2, <1>6, <1>7, CallKeeps

\* adjustTrove().
LEMMA AdjustTroveKeeps ==
    ASSUME IInv, NEW u \in Users, AdjustTrove(u)
    PROVE  IInv'
<1>1. PICK s \in StakeSizes, debt \in DebtSizes, fee \in Fees :
         /\ [coll |-> s * UnitNow(books), debt |-> debt] # Entire(books, u)
         /\ Call("adjust", {u}, PutTrove(books, calls, u, "adjustTrove", s, debt, fee))
  BY DEF AdjustTrove
<1> DEFINE call == PutTrove(books, calls, u, "adjustTrove", s, debt, fee)
<1>2. Call("adjust", {u}, call)
  BY <1>1
<1>3. Ready
  BY <1>2, BeforeACall DEF Call
<1>4. s \in Nat \ {0} /\ debt \in Nat \ {0}
  BY SubgraphAssumption
<1>5. ~(s * UnitNow(books) = Entire(books, u).coll /\ debt = Entire(books, u).debt)
  <2>1. Entire(books, u) = [coll |-> Entire(books, u).coll, debt |-> Entire(books, u).debt]
    BY DEF Entire
  <2> QED
    BY <1>1, <2>1
<1>6. /\ \E r : Replays(db, call.events, r) /\ Follows(r, call.books, {}, {})
      /\ BooksKeep(books, call.books, {"troves", "closedBy"})
      /\ TrovesBooked(call.books)
  BY <1>3, <1>4, <1>5, PutReplayed DEF Ready
<1> HIDE DEF call
<1>7. PoolBooked(call.books) /\ AccountsBooked(call.books)
  BY <1>3, <1>6, PoolStaysBooked, AccountsStayBooked DEF Ready
<1> QED
  BY <1>2, <1>6, <1>7, CallKeeps

\* closeTrove().
LEMMA CloseKeeps ==
    ASSUME IInv, NEW u \in Users, Close(u)
    PROVE  IInv'
<1> DEFINE call == CloseTrove(books, calls, u)
<1>1. Call("close", {u}, call) /\ books.troves[u].stake # 0
  BY DEF Close, Open
<1>2. Ready
  BY <1>1, BeforeACall DEF Call
<1>3. /\ \E r : Replays(db, call.events, r) /\ Follows(r, call.books, {}, {})
      /\ BooksKeep(books, call.books, {"troves", "closedBy"})
      /\ TrovesBooked(call.books)
  BY <1>1, <1>2, CloseReplayed DEF Ready
<1> HIDE DEF call
<1>4. PoolBooked(call.books) /\ AccountsBooked(call.books)
  BY <1>2, <1>3, PoolStaysBooked, AccountsStayBooked DEF Ready
<1> QED
  BY <1>1, <1>3, <1>4, CallKeeps

\* liquidate() and liquidateTroves().
LEMMA LiquidateKeeps ==
    ASSUME IInv, NEW u \in Users, NEW v \in Users, NEW us, OneOrTwo(us, u, v),
           LiquidateCall(us)
    PROVE  IInv'
<1>1. PICK op \in {"liquidateInNormalMode", "liquidateInRecoveryMode"} :
         /\ CanRedistribute(LiquidateTroves(books, calls, us, op))
         /\ Call("liquidate", ToSet(us), Liquidate(books, calls, us, op))
  BY DEF LiquidateCall
<1> DEFINE call == Liquidate(books, calls, us, op)
<1>2. /\ events = <<>> /\ calls' = calls + 1 /\ books' = call.books /\ events' = call.events
      /\ last' = [call |-> "liquidate", users |-> ToSet(us)] /\ db' = db
  BY <1>1 DEF Call
<1>3. TrovesOpen(books, us)
  BY DEF LiquidateCall, Open, TrovesOpen
<1>4. Ready
  BY <1>2, BeforeACall
<1>5. /\ \E r : /\ Replays(db, call.events, r)
                /\ Follows(r, call.books, {}, {})
                /\ r.liquidation.troves = ToSet(us)
      /\ BooksKeep(books, call.books,
                   {"troves", "closedBy", "losses", "gains", "lColl", "lDebt"})
      /\ TrovesBooked(call.books) /\ PoolBooked(call.books)
  BY <1>1, <1>3, <1>4, LiquidateReplayed DEF Ready
<1> HIDE DEF call
<1>6. AccountsBooked(call.books)
  BY <1>4, <1>5, AccountsStayBooked DEF Ready
<1>7. BooksInv(call.books)
  BY <1>5, <1>6 DEF BooksInv, BooksKeep, IsBooks
<1>8. Ahead(db', events', books', last')
  BY <1>2, <1>5 DEF Ahead, CallIsLinked
<1> QED
  BY <1>2, <1>4, <1>7, <1>8 DEF IInv, Ready

\* redeemCollateral(): the whole debt of every trove, or part of the last one's.
LEMMA RedeemKeeps ==
    ASSUME IInv, NEW u \in Users, NEW v \in Users, NEW us, OneOrTwo(us, u, v),
           RedeemCall(us)
    PROVE  IInv'
<1>1. \E s, debt \in Nat :
         /\ debt # 0 => s # 0 /\ debt # Entire(books, Last(us)).debt
         /\ Call("redeem", ToSet(us), Redeem(books, calls, us, s, debt))
  <2>1. CASE Call("redeem", ToSet(us), Redeem(books, calls, us, 0, 0))
    BY <2>1
  <2>2. CASE \E s \in StakeSizes, d \in DebtSizes :
                /\ d < Entire(books, Last(us)).debt
                /\ Call("redeem", ToSet(us), Redeem(books, calls, us, s, d))
    <3>1. PICK s \in StakeSizes, d \in DebtSizes :
             /\ d < Entire(books, Last(us)).debt
             /\ Call("redeem", ToSet(us), Redeem(books, calls, us, s, d))
      BY <2>2
    <3>2. s \in Nat \ {0} /\ d \in Nat \ {0}
      BY SubgraphAssumption
    <3>3. d # Entire(books, Last(us)).debt
      <4>1. d < d => FALSE
        BY <3>2
      <4> QED
        BY <3>1, <4>1
    <3> QED
      BY <3>1, <3>2, <3>3
  <2> QED
    BY <2>1, <2>2 DEF RedeemCall
<1>2. PICK s \in Nat, debt \in Nat :
         /\ debt # 0 => s # 0 /\ debt # Entire(books, Last(us)).debt
         /\ Call("redeem", ToSet(us), Redeem(books, calls, us, s, debt))
  BY <1>1
<1> DEFINE call == Redeem(books, calls, us, s, debt)
<1>3. /\ events = <<>> /\ calls' = calls + 1 /\ books' = call.books /\ events' = call.events
      /\ last' = [call |-> "redeem", users |-> ToSet(us)] /\ db' = db
  BY <1>2 DEF Call
<1>4. TrovesOpen(books, us)
  BY DEF RedeemCall, Open, TrovesOpen
<1>5. Ready
  BY <1>3, BeforeACall
<1>6. /\ \E r : /\ Replays(db, call.events, r)
                /\ Follows(r, call.books, {}, {})
                /\ r.redemption.troves = ToSet(us)
      /\ BooksKeep(books, call.books, {"troves", "closedBy", "surplus"})
      /\ TrovesBooked(call.books)
  BY <1>2, <1>4, <1>5, RedeemReplayed DEF Ready
<1> HIDE DEF call
<1>7. PoolBooked(call.books) /\ AccountsBooked(call.books)
  BY <1>5, <1>6, PoolStaysBooked, AccountsStayBooked DEF Ready
<1>8. BooksInv(call.books)
  BY <1>6, <1>7 DEF BooksInv, BooksKeep, IsBooks
<1>9. Ahead(db', events', books', last')
  BY <1>3, <1>6 DEF Ahead, CallIsLinked
<1> QED
  BY <1>3, <1>5, <1>8, <1>9 DEF IInv, Ready

\* provideToSP() and withdrawFromSP().
LEMMA ChangeDepositKeeps ==
    ASSUME IInv, NEW u \in Users, ChangeDeposit(u)
    PROVE  IInv'
<1>1. PICK amount \in PoolSizes, tag \in books.frontends \union {Nobody} :
         Call("deposit", {u}, SetDeposit(books, calls, u, amount, tag))
  BY DEF ChangeDeposit
<1> DEFINE call == SetDeposit(books, calls, u, amount, tag)
<1>2. Call("deposit", {u}, call)
  BY <1>1
<1>3. Ready
  BY <1>2, BeforeACall DEF Call
<1>4. amount \in Nat
  BY SubgraphAssumption
<1>5. /\ \E r : Replays(db, call.events, r) /\ Follows(r, call.books, {}, {})
      /\ BooksKeep(books, call.books, {"deposits", "losses", "gains", "tags"})
      /\ PoolBooked(call.books)
  BY <1>1, <1>3, <1>4, SetDepositReplayed DEF Ready
<1> HIDE DEF call
<1>6. TrovesBooked(call.books) /\ AccountsBooked(call.books)
  BY <1>3, <1>5, TrovesStayBooked, AccountsStayBooked DEF Ready
<1> QED
  BY <1>2, <1>5, <1>6, CallKeeps

\* withdrawFILGainToTrove().
LEMMA MoveGainToTroveKeeps ==
    ASSUME IInv, NEW u \in Users, MoveGainToTrove(u)
    PROVE  IInv'
<1>1. PICK s \in StakeSizes :
         /\ books.troves[u].stake # 0 /\ s > books.troves[u].stake
         /\ Call("gain", {u}, GainToTrove(books, calls, u, s))
  BY DEF MoveGainToTrove, Open
<1> DEFINE call == GainToTrove(books, calls, u, s)
<1>2. Call("gain", {u}, call)
  BY <1>1
<1>3. Ready
  BY <1>2, BeforeACall DEF Call
<1>4. s \in Nat
  BY SubgraphAssumption
<1>5. /\ \E r : Replays(db, call.events, r) /\ Follows(r, call.books, {}, {})
      /\ BooksKeep(books, call.books, {"deposits", "losses", "gains", "troves", "closedBy"})
      /\ TrovesBooked(call.books)
      /\ PoolBooked(call.books)
  BY <1>1, <1>3, <1>4, GainToTroveReplayed DEF Ready
<1> HIDE DEF call
<1>6. AccountsBooked(call.books)
  BY <1>3, <1>5, AccountsStayBooked DEF Ready
<1> QED
  BY <1>2, <1>5, <1>6, CallKeeps

\* claimCollateral().
LEMMA ClaimKeeps ==
    ASSUME IInv, NEW u \in Users, Claim(u)
    PROVE  IInv'
<1> DEFINE call == ClaimSurplus(books, calls, u)
<1>1. Call("claim", {u}, call)
  BY DEF Claim
<1>2. Ready
  BY <1>1, BeforeACall DEF Call
<1>3. /\ \E r : Replays(db, call.events, r) /\ Follows(r, call.books, {}, {})
      /\ BooksKeep(books, call.books, {"surplus"})
      /\ AccountsBooked(call.books)
  BY <1>2, ClaimReplayed DEF Ready
<1> HIDE DEF call
<1>4. TrovesBooked(call.books) /\ PoolBooked(call.books)
  BY <1>2, <1>3, TrovesStayBooked, PoolStaysBooked DEF Ready
<1> QED
  BY <1>1, <1>3, <1>4, CallKeeps

\* stake() and unstake().
LEMMA ChangeStakeKeeps ==
    ASSUME IInv, NEW u \in Users, ChangeStake(u)
    PROVE  IInv'
<1>1. PICK amount \in Values \union {0}, gain \in Gains :
         /\ gain > 0 => books.staked[u] > 0
         /\ Call("stake", {u}, SetStake(books, calls, u, amount, gain))
  BY DEF ChangeStake
<1> DEFINE call == SetStake(books, calls, u, amount, gain)
<1>2. Call("stake", {u}, call)
  BY <1>1
<1>3. Ready
  BY <1>2, BeforeACall DEF Call
<1>4. amount \in Nat /\ gain \in Nat
  BY SubgraphAssumption
<1>5. /\ \E r : Replays(db, call.events, r) /\ Follows(r, call.books, {}, {})
      /\ BooksKeep(books, call.books, {"staked"})
      /\ AccountsBooked(call.books)
  BY <1>1, <1>3, <1>4, SetStakeReplayed DEF Ready
<1> HIDE DEF call
<1>6. TrovesBooked(call.books) /\ PoolBooked(call.books)
  BY <1>3, <1>5, TrovesStayBooked, PoolStaysBooked DEF Ready
<1> QED
  BY <1>2, <1>5, <1>6, CallKeeps

\* registerFrontEnd().
LEMMA RegisterKeeps ==
    ASSUME IInv, NEW u \in Users, RegisterCall(u)
    PROVE  IInv'
<1> DEFINE call == Register(books, calls, u)
<1>1. Call("frontend", {u}, call)
  BY DEF RegisterCall
<1>2. Ready
  BY <1>1, BeforeACall DEF Call
<1>3. /\ \E r : Replays(db, call.events, r) /\ Follows(r, call.books, {}, {})
      /\ BooksKeep(books, call.books, {"frontends"})
  BY <1>2, RegisterReplayed DEF Ready
<1> HIDE DEF call
<1>4. TrovesBooked(call.books) /\ PoolBooked(call.books) /\ AccountsBooked(call.books)
  BY <1>2, <1>3, TrovesStayBooked, PoolStaysBooked, AccountsStayBooked DEF Ready
<1> QED
  BY <1>1, <1>3, <1>4, CallKeeps

\* transfer(), and minting and burning.
LEMMA MoveKeeps ==
    ASSUME IInv, NEW u \in Users \union {Nobody}, NEW v \in Users \union {Nobody}, Move(u, v)
    PROVE  IInv'
<1>1. PICK value \in Values :
         Call("token", {}, Transfer(books, calls, u, v, value))
  BY DEF Move
<1> DEFINE call == Transfer(books, calls, u, v, value)
<1>2. Call("token", {}, call)
  BY <1>1
<1>3. Ready
  BY <1>2, BeforeACall DEF Call
<1>4. value \in Int
  BY SubgraphAssumption
<1>5. /\ \E r : Replays(db, call.events, r) /\ Follows(r, call.books, {}, {})
      /\ BooksKeep(books, call.books, {"balances"})
      /\ AccountsBooked(call.books)
  BY <1>1, <1>3, <1>4, TransferReplayed DEF Ready
<1> HIDE DEF call
<1>6. TrovesBooked(call.books) /\ PoolBooked(call.books)
  BY <1>3, <1>5, TrovesStayBooked, PoolStaysBooked DEF Ready
<1> QED
  BY <1>2, <1>5, <1>6, CallKeeps

\* approve().
LEMMA ApproveKeeps ==
    ASSUME IInv, NEW u \in Users, NEW v \in Users, ApproveCall(u, v)
    PROVE  IInv'
<1>1. PICK value \in Values :
         Call("token", {}, Approve(books, calls, u, v, value))
  BY DEF ApproveCall
<1> DEFINE call == Approve(books, calls, u, v, value)
<1>2. Call("token", {}, call)
  BY <1>1
<1>3. Ready
  BY <1>2, BeforeACall DEF Call
<1>4. /\ \E r : Replays(db, call.events, r) /\ Follows(r, call.books, {}, {})
      /\ BooksKeep(books, call.books, {"allowances"})
  BY <1>1, <1>3, ApproveReplayed DEF Ready
<1> HIDE DEF call
<1>5. TrovesBooked(call.books) /\ PoolBooked(call.books) /\ AccountsBooked(call.books)
  BY <1>3, <1>4, TrovesStayBooked, PoolStaysBooked, AccountsStayBooked DEF Ready
<1> QED
  BY <1>2, <1>4, <1>5, CallKeeps

\* The market moves: no event, and nothing that the store follows.
LEMMA PriceMovesKeeps ==
    ASSUME IInv, PriceMoves
    PROVE  IInv'
<1>1. PICK p : books' = [books EXCEPT !.price = p]
  BY DEF PriceMoves
<1>2. events = <<>> /\ calls' = calls + 1 /\ UNCHANGED <<events, db, last>>
  BY DEF PriceMoves
<1>3. Ready
  BY <1>2, BeforeACall
<1>4. CallIsLinked(db, last)
  BY <1>2, NothingAhead DEF IInv
<1> DEFINE c == [books EXCEPT !.price = p]
<1>5. BooksKeep(books, c, {"price"})
  BY <1>3 DEF BooksKeep, IsBooks, BookNames, Ready
<1> HIDE DEF c
<1>6. TrovesBooked(c) /\ PoolBooked(c) /\ AccountsBooked(c)
  BY <1>3, <1>5, TrovesStayBooked, PoolStaysBooked, AccountsStayBooked DEF Ready
<1>7. BooksInv(c)
  BY <1>5, <1>6 DEF BooksInv, BooksKeep, IsBooks
<1>8. Follows(db, c, {}, {})
  BY <1>3, <1>5, FollowsOtherBooks DEF Ready
<1>9. Replays(db, <<>>, db)
  BY NothingReplayed
<1>10. Ahead(db, events, c, last)
  BY <1>2, <1>4, <1>8, <1>9 DEF Ahead
<1>11. books' = c /\ db' = db /\ events' = events /\ last' = last
  BY <1>1, <1>2 DEF c
<1>12. Ahead(db', events', books', last') /\ BooksInv(books') /\ calls' \in Nat
  BY <1>2, <1>3, <1>7, <1>10, <1>11 DEF Ready
<1> QED
  BY <1>12 DEF IInv

\* The indexer handles the next event.
LEMMA IndexKeeps ==
    ASSUME IInv, Index
    PROVE  IInv'
<1>1. PICK r : Replays(db, events, r) /\ Follows(r, books, {}, {}) /\ CallIsLinked(r, last)
  BY DEF IInv, Ahead
<1>2. /\ events # <<>> /\ db' = Handle(db, Head(events)) /\ events' = Tail(events)
      /\ UNCHANGED <<books, calls, last>>
  BY DEF Index
<1>3. Replays(Handle(db, Head(events)), Tail(events), r)
  BY <1>1, <1>2, FirstReplayed
<1>4. Ahead(Handle(db, Head(events)), Tail(events), books, last)
  BY <1>1, <1>3 DEF Ahead
<1>5. Ahead(db', events', books', last') /\ BooksInv(books') /\ calls' \in Nat
  BY <1>2, <1>4 DEF IInv
<1> QED
  BY <1>5 DEF IInv

\* A client's query changes nothing of it.
LEMMA QueryKeeps ==
    ASSUME IInv, UNCHANGED <<books, events, db, calls, last>>
    PROVE  IInv'
<1>1. Ahead(db', events', books', last') /\ BooksInv(books') /\ calls' \in Nat
  BY DEF IInv
<1> QED
  BY <1>1 DEF IInv

-----------------------------------------------------------------------------
(* What follows from the invariant.                                         *)

LEMMA IInvHolds == Spec => []IInv
<1>1. Init => IInv
  <2> SUFFICES ASSUME Init PROVE IInv
    OBVIOUS
  <2>1. PICK p \in Prices : books = NewBooks(p)
    BY DEF Init
  <2>2. /\ events = <<>> /\ db = EmptyStore /\ calls = 0
        /\ last.call \notin {"liquidate", "redeem"}
    BY DEF Init
  <2>3. BooksInv(NewBooks(p)) /\ Follows(EmptyStore, NewBooks(p), {}, {})
    BY EmptyFollows
  <2>4. Replays(EmptyStore, <<>>, EmptyStore)
    BY NothingReplayed
  <2>5. BooksInv(books) /\ Ahead(db, events, books, last)
    BY <2>1, <2>2, <2>3, <2>4, AheadOf
  <2> QED
    BY <2>2, <2>5 DEF IInv
<1>2. IInv /\ [Next]_vars => IInv'
  <2> SUFFICES ASSUME IInv, [Next]_vars PROVE IInv'
    OBVIOUS
  <2>1. ASSUME NEW u \in Users, OpenTrove(u) PROVE IInv'
    BY <2>1, OpenTroveKeeps
  <2>2. ASSUME NEW u \in Users, AdjustTrove(u) PROVE IInv'
    BY <2>2, AdjustTroveKeeps
  <2>3. ASSUME NEW u \in Users, Close(u) PROVE IInv'
    BY <2>3, CloseKeeps
  <2>4. ASSUME NEW u \in Users, ChangeDeposit(u) PROVE IInv'
    BY <2>4, ChangeDepositKeeps
  <2>5. ASSUME NEW u \in Users, MoveGainToTrove(u) PROVE IInv'
    BY <2>5, MoveGainToTroveKeeps
  <2>6. ASSUME NEW u \in Users, Claim(u) PROVE IInv'
    BY <2>6, ClaimKeeps
  <2>7. ASSUME NEW u \in Users, ChangeStake(u) PROVE IInv'
    BY <2>7, ChangeStakeKeeps
  <2>8. ASSUME NEW u \in Users, RegisterCall(u) PROVE IInv'
    BY <2>8, RegisterKeeps
  <2>9. ASSUME NEW u \in Users, Ask(u) PROVE IInv'
    BY <2>9, QueryKeeps DEF Ask
  <2>10. ASSUME NEW u \in Users, NEW v \in Users, NEW us \in {<<u>>, <<u, v>>},
                Len(us) = 2 => u # v, LiquidateCall(us) \/ RedeemCall(us)
         PROVE  IInv'
    <3>1. OneOrTwo(us, u, v)
      BY <2>10 DEF OneOrTwo
    <3>2. CASE LiquidateCall(us)
      BY <3>1, <3>2, LiquidateKeeps
    <3>3. CASE RedeemCall(us)
      BY <3>1, <3>3, RedeemKeeps
    <3> QED
      BY <2>10, <3>2, <3>3
  <2>11. ASSUME NEW u \in Users \union {Nobody}, NEW v \in Users \union {Nobody}, Move(u, v)
         PROVE  IInv'
    BY <2>11, MoveKeeps
  <2>12. ASSUME NEW u \in Users, NEW v \in Users, ApproveCall(u, v) PROVE IInv'
    BY <2>12, ApproveKeeps
  <2>13. CASE PriceMoves
    BY <2>13, PriceMovesKeeps
  <2>14. CASE Index
    BY <2>14, IndexKeeps
  <2>15. CASE AnswerTrove \/ AnswerTotal
    BY <2>15, QueryKeeps DEF AnswerTrove, AnswerTotal
  <2>16. CASE UNCHANGED vars
    BY <2>16, QueryKeeps DEF vars
  <2> QED
    BY <2>1, <2>2, <2>3, <2>4, <2>5, <2>6, <2>7, <2>8, <2>9, <2>10, <2>11, <2>12, <2>13,
       <2>14, <2>15, <2>16 DEF Next
<1> QED
  BY <1>1, <1>2, PTL DEF Spec

\* When every event is handled the store has followed the contracts' books.
LEMMA FollowedWhenIndexed ==
    ASSUME IInv, Indexed
    PROVE  Follows(db, books, {}, {}) /\ TrovesBooked(books)
BY BeforeACall DEF Indexed, Ready

\* However far the indexer is, the changes so far are numbered without gaps and
\* each starts in the system state that the one before it ended in: no handler
\* of the mappings forgets to finish, or to save, a change it has begun.
THEOREM ChangesAlwaysChain == Spec => []ChangesAreAChain
<1>1. IInv => ChangesAreAChain
  <2> SUFFICES ASSUME IInv PROVE ChangesAreAChain
    OBVIOUS
  <2>1. PICK r : Replays(db, events, r) /\ Follows(r, books, {}, {})
    BY DEF IInv, Ahead
  <2>2. ChainInv(db)
    <3>1. CASE events = <<>>
      BY <2>1, <3>1, NothingLeft DEF Follows
    <3>2. CASE events # <<>>
      BY <2>1, <3>2, FirstReplayed DEF Fits
    <3> QED
      BY <3>1, <3>2
  <2> DEFINE g == db.global
  <2>3. /\ g.systemStateCount \in Nat /\ g.changeCount \in Nat
        /\ g.currentSystemState = g.systemStateCount - 1
        /\ g.systemStateCount = g.changeCount + (IF g.currentSystemState = Null THEN 0 ELSE 1)
        /\ g.changeCount > 0 => /\ db.change.id = g.changeCount - 1
                                /\ db.change.before = db.change.id
                                /\ db.change.after = db.change.id + 1
    BY <2>2 DEF ChainInv
  <2>4. g.changeCount > 0 => g.currentSystemState = g.changeCount
    BY <2>3 DEF Null
  <2>5. g.changeCount > 0 => g.currentSystemState = db.change.after
    BY <2>3, <2>4
  <2> QED
    BY <2>3, <2>5 DEF ChangesAreAChain
<1> QED
  BY <1>1, IInvHolds, PTL

\* Once a call is indexed the counters of Global are the numbers of troves with
\* each status, whatever calls came before.
THEOREM CountersAlwaysCount == Spec => []CountersCount
<1>1. IInv => CountersCount
  <2> SUFFICES ASSUME IInv, Indexed PROVE CountersCount
    BY DEF CountersCount
  <2>1. CountersFollow(db)
    BY FollowedWhenIndexed DEF Follows, TroveSide
  <2>2. \A s \in Statuses : With(db, s) = {u \in Users : db.troves[u].status = s}
    BY DEF With
  <2>3. \A s \in Statuses : WithStatus(s) = Cardinality(With(db, s))
    BY <2>2 DEF WithStatus
  <2>4. /\ {"open", "closedByOwner", "closedByLiquidation", "closedByRedemption"}
              \subseteq Statuses \ {"nonExistent"}
        /\ "nonExistent" \in Statuses
    BY DEF Statuses, ClosedStatuses
  <2>5. \A s \in Statuses \ {"nonExistent"} : db.global[KeyOf(s)] = WithStatus(s)
    BY <2>1, <2>3 DEF CountersFollow
  <2>6. db.global.totalNumberOfTroves = Cardinality(Users) - WithStatus("nonExistent")
    BY <2>1, <2>3, <2>4 DEF CountersFollow
  <2>7. /\ db.global[KeyOf("open")] = WithStatus("open")
        /\ db.global[KeyOf("closedByOwner")] = WithStatus("closedByOwner")
        /\ db.global[KeyOf("closedByLiquidation")] = WithStatus("closedByLiquidation")
        /\ db.global[KeyOf("closedByRedemption")] = WithStatus("closedByRedemption")
    BY <2>4, <2>5
  <2> QED
    BY <2>6, <2>7, Keys DEF CountersCount
<1> QED
  BY <1>1, IInvHolds, PTL

\* Once a call is indexed every trove of the subgraph is the contracts' trove:
\* its status, and its collateral and debt with the redistribution applied.
THEOREM TrovesAreAlwaysTheContracts == Spec => []TroveIsTheContracts
<1>1. IInv => TroveIsTheContracts
  <2> SUFFICES ASSUME IInv, Indexed, NEW u \in Users
               PROVE  /\ db.troves[u].status = books.closedBy[u]
                      /\ db.troves[u].collateral
                            + Redistribution(db.troves[u], db.troves[u].snapshotCollateral,
                                  db.global.rawTotalRedistributedCollateral)
                            = Entire(books, u).coll
                      /\ db.troves[u].debt
                            + Redistribution(db.troves[u], db.troves[u].snapshotDebt,
                                  db.global.rawTotalRedistributedDebt)
                            = Entire(books, u).debt
    BY DEF TroveIsTheContracts
  <2>1. TroveSide(db, books) /\ TrovesBooked(books)
    BY FollowedWhenIndexed DEF Follows
  <2>2. db.troves[u].status = books.closedBy[u]
    BY <2>1 DEF TroveSide, TroveFollows
  <2> QED
    BY <2>1, <2>2, EntitledAlike
<1> QED
  BY <1>1, IInvHolds, PTL

\* Once a call is indexed the totals of the system state are the sums of what
\* the contracts have: each handler adds the difference it makes to a total, and
\* the debt and the collateral a liquidation takes off its troves are back with
\* the other troves, to the last unit, when the call ends.
THEOREM TotalsAreAlwaysTheContracts == Spec => []TotalsAreTheContracts
<1>1. IInv => TotalsAreTheContracts
  <2> SUFFICES ASSUME IInv, Indexed PROVE TotalsAreTheContracts
    BY DEF TotalsAreTheContracts
  <2>1. Tallied(db, books, 0, 0)
    BY FollowedWhenIndexed DEF Follows
  <2>2. ASSUME NEW f \in TallyNames PROVE db.state[f] = Total(Parts(books)[f], Users)
    <3>1. \A u \in Users : Parts(books)[f][u] \in Int
      BY <2>1 DEF Tallied
    <3>2. Total(Parts(books)[f], Users) \in Int
      BY <3>1, TotalIsANumber, SubgraphAssumption
    <3>3. db.state[f] = Total(Parts(books)[f], Users) + Moved(0, 0)[f]
      BY <2>1 DEF Tallied
    <3>4. Moved(0, 0)[f] = 0
      BY DEF Moved
    <3> QED
      BY <3>2, <3>3, <3>4
  <2>3. /\ books.surplus = [u \in Users |-> books.surplus[u]]
        /\ books.staked = [u \in Users |-> books.staked[u]]
    <3>1. books.surplus \in [Users -> Int]
      BY <2>1 DEF Tallied
    <3>2. books.staked \in [Users -> Nat]
      BY DEF IInv, BooksInv, AccountsBooked
    <3> QED
      BY <3>1, <3>2
  <2>4. /\ Parts(books)["totalCollateral"] = [u \in Users |-> Entire(books, u).coll]
        /\ Parts(books)["totalDebt"] = [u \in Users |-> Entire(books, u).debt]
        /\ Parts(books)["tokensInStabilityPool"] = [u \in Users |-> Compounded(books, u)]
        /\ Parts(books)["collSurplusPoolBalance"] = books.surplus
        /\ Parts(books)["totalProtocolTokensStaked"] = books.staked
    BY <2>3 DEF Parts
  <2>5. /\ db.state["totalCollateral"] = Total(Parts(books)["totalCollateral"], Users)
        /\ db.state["totalDebt"] = Total(Parts(books)["totalDebt"], Users)
        /\ db.state["tokensInStabilityPool"]
              = Total(Parts(books)["tokensInStabilityPool"], Users)
        /\ db.state["collSurplusPoolBalance"]
              = Total(Parts(books)["collSurplusPoolBalance"], Users)
        /\ db.state["totalProtocolTokensStaked"]
              = Total(Parts(books)["totalProtocolTokensStaked"], Users)
    BY <2>2 DEF TallyNames
  <2> QED
    BY <2>4, <2>5 DEF TotalsAreTheContracts, PoolSize
<1> QED
  BY <1>1, IInvHolds, PTL

\* Once a call is indexed a page of open troves ordered by their keys is in the
\* order of their ratios: redistributions change what is owed and no key, and a
\* key that was rounded down can make two troves equal but never swap them.
THEOREM SortKeysAlwaysOrder == Spec => []SortKeyOrdersByRatio
<1>1. IInv => SortKeyOrdersByRatio
  <2> SUFFICES ASSUME IInv, Indexed, NEW u \in Active(books), NEW v \in Active(books)
               PROVE  LET p == Entire(books, u)
                          q == Entire(books, v)
                          t == db.troves[v]
                          isLess == p.debt * q.coll < q.debt * p.coll
                      IN /\ db.troves[u].sortKey < t.sortKey => isLess
                         /\ isLess /\ (t.debt * Scaling) % t.rawStake = 0
                               => db.troves[u].sortKey < t.sortKey
    BY DEF SortKeyOrdersByRatio
  <2> DEFINE k1 == db.troves[u].sortKey + books.lDebt
             k2 == db.troves[v].sortKey + books.lDebt
             s1 == books.troves[u].stake
             s2 == books.troves[v].stake
             e1 == Entire(books, u).debt
             e2 == Entire(books, v).debt
             x == UnitNow(books)
             exact == (db.troves[v].debt * Scaling) % db.troves[v].rawStake = 0
  <2>1. TroveSide(db, books) /\ TrovesBooked(books)
    BY FollowedWhenIndexed DEF Follows
  <2>2. u \in Users /\ v \in Users /\ s1 # 0 /\ s2 # 0
    BY DEF Active
  <2>3. /\ k1 \in Int /\ s1 \in Nat \ {0} /\ e1 \in Nat
        /\ k1 * s1 <= e1 * Scaling /\ e1 * Scaling < (k1 + 1) * s1
    BY <2>1, <2>2, KeyIs
  <2>4. /\ k2 \in Int /\ s2 \in Nat \ {0} /\ e2 \in Nat
        /\ k2 * s2 <= e2 * Scaling /\ (exact => k2 * s2 = e2 * Scaling)
    BY <2>1, <2>2, KeyIs
  <2>5. /\ x \in Nat \ {0}
        /\ Entire(books, u).coll = s1 * x /\ Entire(books, v).coll = s2 * x
    BY <2>1, <2>2, Worth, UnitIsPositive DEF TrovesBooked
  <2>6. k1 < k2 <=> db.troves[u].sortKey < db.troves[v].sortKey
    <3>1. /\ db.troves[u].sortKey \in Int /\ db.troves[v].sortKey \in Int
          /\ books.lDebt \in Int
      BY <2>1, <2>2, KeyIs DEF TrovesBooked
    <3> QED
      BY <3>1
  <2> HIDE DEF k1, k2, s1, s2, e1, e2, x, exact
  <2>7. /\ k1 < k2 => e1 * (s2 * x) < e2 * (s1 * x)
        /\ e1 * (s2 * x) < e2 * (s1 * x) /\ exact => k1 < k2
    BY <2>3, <2>4, <2>5, KeysOrder, Parameters
  <2> QED
    BY <2>5, <2>6, <2>7 DEF e1, e2, exact
<1> QED
  BY <1>1, IInvHolds, PTL

\* No call leaves a liquidation, a redemption or half of a deposit's update
\* behind: the next call of another user starts a new one.
THEOREM TemporariesAreAlwaysNull == Spec => []TemporariesAreNull
<1>1. IInv => TemporariesAreNull
  BY FollowedWhenIndexed DEF Follows, CallSide, TemporariesAreNull
<1> QED
  BY <1>1, IInvHolds, PTL

\* A fee finds the change of the trove that pays it, and a liquidation or a
\* redemption has exactly the changes of its own call.
THEOREM ChangesAlwaysFindTheirCall == Spec => []ChangesFindTheirCall
<1>1. IInv => ChangesFindTheirCall
  <2> SUFFICES ASSUME IInv PROVE ChangesFindTheirCall
    OBVIOUS
  <2>1. PICK r : /\ Replays(db, events, r) /\ Follows(r, books, {}, {})
                 /\ CallIsLinked(r, last)
    BY DEF IInv, Ahead
  <2>2. CASE events = <<>>
    <3>1. r = db
      BY <2>1, <2>2, NothingLeft
    <3> QED
      BY <2>1, <2>2, <3>1 DEF ChangesFindTheirCall, CallIsLinked
  <2>3. CASE events # <<>>
    <3>1. Fits(db, Head(events))
      BY <2>1, <2>3, FirstReplayed
    <3> QED
      BY <2>3, <3>1 DEF ChangesFindTheirCall, Fits, Indexed
  <2> QED
    BY <2>2, <2>3
<1> QED
  BY <1>1, IInvHolds, PTL

\* Deposits with their frontends, stakes with their counters, balances and the
\* supply: whichever of a call's two events comes first.
THEOREM AccountsAreAlwaysTheContracts == Spec => []AccountsAreTheContracts
<1>1. IInv => AccountsAreTheContracts
  <2> SUFFICES ASSUME IInv, Indexed PROVE AccountsAreTheContracts
    BY DEF AccountsAreTheContracts
  <2>1. DepositSide(db, books) /\ StakeSide(db, books) /\ TokenSide(db, books)
    BY FollowedWhenIndexed DEF Follows
  <2> QED
    BY <2>1 DEF DepositSide, DepositFollows, StakeSide, TokenSide, AccountsAreTheContracts
<1> QED
  BY <1>1, IInvHolds, PTL

=============================================================================
