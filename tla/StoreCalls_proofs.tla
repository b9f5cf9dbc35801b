------------------------- MODULE StoreCalls_proofs -------------------------
(***************************************************************************)
(* Two calls of a store that take many steps while other clients write.    *)
(*                                                                         *)
(* batch_update is atomic per key, and gives up only under contention, for *)
(* any number of calls, keys and attempts and any decisions.  A filter     *)
(* taken apart selects what it selected whole, however deep it is; a scan  *)
(* returns nothing but matches, passes over none that nobody wrote, and    *)
(* returns no key twice over all its pages; and delete_where deletes the   *)
(* matches: for any leaf, view, filter, page size and limit and any writes *)
(* of others.                                                              *)
(***************************************************************************)
EXTENDS BatchUpdate, ScanInvariants, NaturalsInduction, WellFoundedInduction, SequenceTheorems, TLAPS

\* The entry and its version agree: no entry has version 0, and a version is
\* never ahead of the changes made.
VersionsAgree ==
    \A k \in Key :
        /\ version[k] <= changed[k]
        /\ version[k] = 0 => value[k] = Nothing /\ ~expired[k]
        /\ value[k] = Nothing => version[k] = 0

\* A version names one content: while the entry still has the version a call
\* saw, what it saw is what the entry holds, or held before it expired.
SeenAgrees ==
    \A c \in Call, k \in Key :
        /\ seen[c][k].version <= changed[k]
        /\ seen[c][k].version = 0 => seen[c][k].value = Nothing
        /\ version[k] = seen[c][k].version => seen[c][k].value \in {value[k], Live(k)}

\* What the loop of batch_update keeps about its keys.
Visited(c, k) ==
    \/ pc[c] = "reading" /\ k \notin todo[c]
    \/ pc[c] = "writing" /\ k \in todo[c]

KeysInOrder ==
    \A c \in Call :
        /\ pc[c] = "idle" =>
             /\ keys[c] = {} /\ round[c] = 1
             /\ \A k \in Key : held[c][k] = Nothing
        /\ pending[c] \subseteq keys[c]
        /\ pc[c] \in {"reading", "writing"} => todo[c] \subseteq pending[c]
        /\ \A k \in pending[c] :
             /\ held[c][k] = Nothing
             /\ Visited(c, k) => NeedsWrite(decide[c][seen[c][k].value], seen[c][k])

\* Every round a key is still pending cost it one change by somebody else.
Contended(c, k, n) == changed[k] - began[c][k] >= n

RoundsCounted ==
    \A c \in Call : \A k \in pending[c] :
        /\ pc[c] \in {"reading", "writing"} => Contended(c, k, round[c] - 1)
        /\ Visited(c, k) /\ version[k] # seen[c][k].version => Contended(c, k, round[c])
        /\ pc[c] = "writing" /\ k \notin todo[c] => Contended(c, k, round[c])
        /\ pc[c] = "conflict" => Contended(c, k, Attempts)

IInv == TypeOK /\ VersionsAgree /\ SeenAgrees /\ KeysInOrder /\ RoundsCounted
-----------------------------------------------------------------------------
(* Type correctness.                                                       *)

\* A decision a call makes is one of the decisions, and what is put is a value.
LEMMA DecisionType ==
    ASSUME TypeOK, NEW c \in Call, NEW v \in Shown
    PROVE  /\ decide[c][v] \in Decision
           /\ decide[c][v].do = "put" => decide[c][v].value \in Value
BY BatchAssumption DEF TypeOK

\* The medium's two changes keep its types.
LEMMA StoreType ==
    ASSUME TypeOK, NEW k \in Key, NEW v \in Value, Store(k, v)
    PROVE  /\ value' \in [Key -> Shown] /\ expired' \in [Key -> BOOLEAN]
           /\ version' \in [Key -> Nat] /\ changed' \in [Key -> Nat]
BY DEF TypeOK, Store, Shown

\* Removing an entry keeps the types of the medium.
LEMMA DropType ==
    ASSUME TypeOK, NEW k \in Key, Drop(k)
    PROVE  /\ value' \in [Key -> Shown] /\ expired' \in [Key -> BOOLEAN]
           /\ version' \in [Key -> Nat] /\ changed' \in [Key -> Nat]
BY DEF TypeOK, Drop, Shown

\* Every variable keeps its type, whatever batch_update, the other writers of
\* the map and time do.
LEMMA TypeStep == TypeOK /\ [Next]_vars => TypeOK'
<1> SUFFICES ASSUME TypeOK, [Next]_vars PROVE TypeOK'
  OBVIOUS
<1> USE BatchAssumption
<1>1. ASSUME NEW c \in Call, NEW S \in SUBSET Key, Start(c, S) PROVE TypeOK'
  BY <1>1 DEF TypeOK, Start, medium, Stages
<1>2. ASSUME NEW c \in Call, NEW k \in Key, Read(c, k) PROVE TypeOK'
  <2>1. ReadVersioned(k) \in Versioned
    BY DEF TypeOK, ReadVersioned, Live, Versioned, Shown
  <2>2. seen' \in [Call -> [Key -> Versioned]]
    BY <1>2, <2>1 DEF TypeOK, Read
  <2>3. held' \in [Call -> [Key -> Shown]]
    BY <1>2, <2>1 DEF TypeOK, Read, Versioned
  <2>4. pending' \in [Call -> SUBSET Key] /\ todo' \in [Call -> SUBSET Key]
    BY <1>2 DEF TypeOK, Read
  <2> QED BY <1>2, <2>2, <2>3, <2>4 DEF TypeOK, Read, medium
<1>3. ASSUME NEW c \in Call, TurnToWrites(c) PROVE TypeOK'
  BY <1>3 DEF TypeOK, TurnToWrites, medium, Stages
<1>4. ASSUME NEW c \in Call, NEW k \in Key, WriteIfUnchanged(c, k) PROVE TypeOK'
  <2> DEFINE d == decide[c][seen[c][k].value]
  <2>1. seen[c][k].value \in Shown
    BY DEF TypeOK, Versioned
  <2>2. d \in Decision /\ (d.do = "put" => d.value \in Value)
    BY <2>1, DecisionType
  <2>3. todo' \in [Call -> SUBSET Key]
    BY <1>4 DEF TypeOK, WriteIfUnchanged
  <2>4. CASE ~Unchanged(c, k)
    BY <1>4, <2>3, <2>4 DEF TypeOK, WriteIfUnchanged, medium
  <2>5. CASE Unchanged(c, k)
    <3>1. Apply(c, k)
      BY <1>4, <2>5 DEF WriteIfUnchanged
    <3>2. pending' \in [Call -> SUBSET Key]
      BY <3>1 DEF TypeOK, Apply
    <3>3. CASE d.do = "put"
      <4>1. Store(k, d.value) /\ held' = [held EXCEPT ![c][k] = d.value]
        BY <3>1, <3>3 DEF Apply
      <4>2. held' \in [Call -> [Key -> Shown]]
        BY <2>2, <3>3, <4>1 DEF TypeOK, Shown
      <4>3. /\ value' \in [Key -> Shown] /\ expired' \in [Key -> BOOLEAN]
            /\ version' \in [Key -> Nat] /\ changed' \in [Key -> Nat]
        BY <2>2, <3>3, <4>1, StoreType
      <4> QED BY <1>4, <2>3, <3>2, <4>2, <4>3 DEF TypeOK, WriteIfUnchanged
    <3>4. CASE d.do # "put"
      <4>1. Drop(k) /\ UNCHANGED held
        BY <3>1, <3>4 DEF Apply
      <4> QED BY <1>4, <2>3, <3>2, <4>1, DropType DEF TypeOK, WriteIfUnchanged
    <3> QED BY <3>3, <3>4
  <2> QED BY <2>4, <2>5
<1>5. ASSUME NEW c \in Call, EndRound(c) PROVE TypeOK'
  <2>1. pc' \in [Call -> Stages]
    BY <1>5 DEF TypeOK, EndRound, Stages
  <2>2. round' \in [Call -> 1..Attempts]
    BY <1>5 DEF TypeOK, EndRound
  <2>3. todo' \in [Call -> SUBSET Key]
    BY <1>5 DEF TypeOK, EndRound
  <2> QED BY <1>5, <2>1, <2>2, <2>3 DEF TypeOK, EndRound, medium
<1>6. ASSUME NEW c \in Call, Raise(c) PROVE TypeOK'
  BY <1>6 DEF TypeOK, Raise, medium, Stages
<1>7. ASSUME NEW k \in Key, Set(k) PROVE TypeOK'
  BY <1>7, StoreType DEF TypeOK, Set, calls
<1>8. ASSUME NEW k \in Key, Delete(k) \/ LazyDelete(k) PROVE TypeOK'
  BY <1>8, DropType DEF TypeOK, Delete, LazyDelete, calls
<1>9. ASSUME NEW k \in Key, Expire(k) PROVE TypeOK'
  BY <1>9 DEF TypeOK, Expire, calls
<1>10. CASE UNCHANGED vars
  BY <1>10 DEF TypeOK, vars, medium
<1> QED
  BY <1>1, <1>2, <1>3, <1>4, <1>5, <1>6, <1>7, <1>8, <1>9, <1>10 DEF Next, Step

\* A map with no entries and no calls is well typed.
LEMMA TypeInit == Init => TypeOK
BY BatchAssumption DEF Init, TypeOK, Stages, Versioned, Unread, Shown

\* Every state of a behaviour of batch_update and its rivals is well typed.
THEOREM TypeCorrect == Spec => []TypeOK
<1>1. Init => TypeOK
  BY TypeInit
<1>2. TypeOK /\ [Next]_vars => TypeOK'
  BY TypeStep
<1> QED BY <1>1, <1>2, PTL DEF Spec
-----------------------------------------------------------------------------
(* Versions.                                                               *)

ExpireEntry(k) ==
    /\ version[k] # 0
    /\ expired' = [expired EXCEPT ![k] = TRUE]
    /\ UNCHANGED <<value, version, changed>>

MediumStep ==
    \/ UNCHANGED medium
    \/ \E k \in Key : \/ \E v \in Value : Store(k, v)
                      \/ Drop(k)
                      \/ ExpireEntry(k)

\* Whoever takes a step, the medium stores, drops or expires one entry at most,
\* and only a read, which changes nothing, gives a call something new to see.
LEMMA MediumSteps ==
    ASSUME TypeOK, [Next]_vars
    PROVE  /\ MediumStep
           /\ \/ UNCHANGED seen
              \/ /\ UNCHANGED medium
                 /\ \E c \in Call, k \in Key :
                      seen' = [seen EXCEPT ![c][k] = ReadVersioned(k)]
<1>1. ASSUME NEW c \in Call, NEW k \in Key, Read(c, k)
      PROVE  /\ UNCHANGED medium
             /\ seen' = [seen EXCEPT ![c][k] = ReadVersioned(k)]
  BY <1>1 DEF Read
<1>2. ASSUME NEW c \in Call, NEW k \in Key, WriteIfUnchanged(c, k)
      PROVE  MediumStep /\ UNCHANGED seen
  <2>1. CASE ~Unchanged(c, k)
    BY <1>2, <2>1 DEF WriteIfUnchanged, MediumStep, medium
  <2>2. CASE Unchanged(c, k)
    <3> DEFINE d == decide[c][seen[c][k].value]
    <3>1. d.do = "put" => d.value \in Value
      BY DecisionType DEF TypeOK, Versioned
    <3>2. (d.do = "put" /\ Store(k, d.value)) \/ Drop(k)
      BY <1>2, <2>2 DEF WriteIfUnchanged, Apply
    <3> QED BY <1>2, <3>1, <3>2 DEF WriteIfUnchanged, MediumStep
  <2> QED BY <2>1, <2>2
<1>3. ASSUME NEW k \in Key, Set(k) \/ Delete(k) \/ Expire(k) \/ LazyDelete(k)
      PROVE  MediumStep /\ UNCHANGED seen
  BY <1>3 DEF Set, Delete, Expire, LazyDelete, calls, MediumStep, ExpireEntry
<1>4. ASSUME NEW c \in Call,
             (\E S \in SUBSET Key : Start(c, S)) \/ TurnToWrites(c) \/ EndRound(c) \/ Raise(c)
      PROVE  UNCHANGED <<medium, seen>>
  BY <1>4 DEF Start, TurnToWrites, EndRound, Raise
<1>5. CASE UNCHANGED vars
  BY <1>5 DEF vars, MediumStep
<1> QED BY <1>1, <1>2, <1>3, <1>4, <1>5 DEF Next, Step, MediumStep

\* Changes are only ever counted up, and an entry has a new version, or none,
\* only after one more.
LEMMA ChangesCounted ==
    ASSUME TypeOK, MediumStep, NEW k \in Key
    PROVE  /\ changed'[k] >= changed[k]
           /\ version'[k] # version[k] => changed'[k] >= changed[k] + 1
<1>1. CASE UNCHANGED medium
  BY <1>1 DEF TypeOK, medium
<1>2. ASSUME NEW j \in Key, (\E v \in Value : Store(j, v)) \/ Drop(j)
      PROVE  /\ changed'[k] >= changed[k]
             /\ version'[k] # version[k] => changed'[k] >= changed[k] + 1
  BY <1>2 DEF TypeOK, Store, Drop
<1>3. ASSUME NEW j \in Key, ExpireEntry(j)
      PROVE  changed' = changed /\ version' = version
  BY <1>3 DEF ExpireEntry
<1> QED BY <1>1, <1>2, <1>3 DEF MediumStep, TypeOK

\* Storing, dropping and expiring keep the entry and its version together.
LEMMA VersionsStep ==
    ASSUME TypeOK, VersionsAgree, MediumStep
    PROVE  VersionsAgree'
<1> SUFFICES ASSUME NEW k \in Key
             PROVE  /\ version'[k] <= changed'[k]
                    /\ version'[k] = 0 => value'[k] = Nothing /\ ~expired'[k]
                    /\ value'[k] = Nothing => version'[k] = 0
  BY DEF VersionsAgree
<1> USE DEF TypeOK, VersionsAgree
<1>1. CASE UNCHANGED medium
  BY <1>1 DEF medium
<1>2. ASSUME NEW j \in Key, NEW v \in Value, Store(j, v) PROVE VersionsAgree'
  BY <1>2, BatchAssumption DEF Store
<1>3. ASSUME NEW j \in Key, Drop(j) PROVE VersionsAgree'
  BY <1>3 DEF Drop
<1>4. ASSUME NEW j \in Key, ExpireEntry(j) PROVE VersionsAgree'
  BY <1>4 DEF ExpireEntry
<1> QED BY <1>1, <1>2, <1>3, <1>4 DEF MediumStep

\* A version a call has seen goes on naming what the call saw: a write gives
\* the entry a version no call has, and nothing stored is shown as nothing.
LEMMA SeenStep ==
    ASSUME TypeOK, VersionsAgree, SeenAgrees, [Next]_vars
    PROVE  SeenAgrees'
<1> DEFINE Agrees(c, k) ==
      /\ seen[c][k].version <= changed[k]
      /\ seen[c][k].version = 0 => seen[c][k].value = Nothing
      /\ version[k] = seen[c][k].version => seen[c][k].value \in {value[k], Live(k)}
<1> SUFFICES ASSUME NEW c \in Call, NEW k \in Key PROVE Agrees(c, k)'
  BY DEF SeenAgrees
<1>0. Agrees(c, k) /\ seen[c][k].version \in Nat
  BY DEF SeenAgrees, TypeOK, Versioned
<1>1. ASSUME UNCHANGED medium, NEW b \in Call, NEW j \in Key,
             seen' = [seen EXCEPT ![b][j] = ReadVersioned(j)]
      PROVE  Agrees(c, k)'
  <2>1. CASE b = c /\ j = k
    <3>1. seen'[c][k] = ReadVersioned(k)
      BY <1>1, <2>1 DEF TypeOK
    <3> QED BY <1>1, <3>1 DEF ReadVersioned, Live, medium, VersionsAgree
  <2>2. CASE ~(b = c /\ j = k)
    <3>1. seen'[c][k] = seen[c][k]
      BY <1>1, <2>2 DEF TypeOK
    <3> QED BY <1>0, <1>1, <3>1 DEF Live, medium
  <2> QED BY <2>1, <2>2
<1>2. CASE UNCHANGED <<seen, medium>>
  BY <1>0, <1>2 DEF Live, medium
<1>3. ASSUME UNCHANGED seen, NEW j \in Key, NEW v \in Value, Store(j, v)
      PROVE  Agrees(c, k)'
  BY <1>0, <1>3 DEF Live, Store, TypeOK
<1>4. ASSUME UNCHANGED seen, NEW j \in Key, Drop(j) PROVE Agrees(c, k)'
  BY <1>0, <1>4 DEF Live, Drop, TypeOK
<1>5. ASSUME UNCHANGED seen, NEW j \in Key, ExpireEntry(j) PROVE Agrees(c, k)'
  BY <1>0, <1>5 DEF Live, ExpireEntry, TypeOK
<1> HIDE DEF Agrees
<1> QED BY <1>1, <1>2, <1>3, <1>4, <1>5, MediumSteps DEF MediumStep
-----------------------------------------------------------------------------
(* The loop of batch_update.                                               *)

Local(c) == <<pc[c], decide[c], keys[c], pending[c], todo[c], round[c], seen[c],
              held[c], began[c]>>

Acts(c) ==
    \/ \E S \in SUBSET Key : Start(c, S)
    \/ \E k \in Key : Read(c, k) \/ WriteIfUnchanged(c, k)
    \/ TurnToWrites(c)
    \/ EndRound(c)
    \/ Raise(c)

\* A call's own state is changed by the call alone.
LEMMA OnlyOwnSteps ==
    ASSUME TypeOK, [Next]_vars, NEW c \in Call
    PROVE  Acts(c) \/ UNCHANGED Local(c)
<1> USE DEF TypeOK, Local
<1>1. ASSUME NEW b \in Call, NEW S \in SUBSET Key, Start(b, S), b # c
      PROVE  UNCHANGED Local(c)
  BY <1>1 DEF Start
<1>2. ASSUME NEW b \in Call, NEW k \in Key, Read(b, k), b # c
      PROVE  UNCHANGED Local(c)
  BY <1>2 DEF Read
<1>3. ASSUME NEW b \in Call, NEW k \in Key, WriteIfUnchanged(b, k), b # c
      PROVE  UNCHANGED Local(c)
  <2>1. CASE ~Unchanged(b, k)
    BY <1>3, <2>1 DEF WriteIfUnchanged
  <2>2. CASE Unchanged(b, k)
    <3>1. held'[c] = held[c] /\ pending'[c] = pending[c]
      BY <1>3, <2>2 DEF WriteIfUnchanged, Apply
    <3> QED BY <1>3, <3>1 DEF WriteIfUnchanged
  <2> QED BY <2>1, <2>2
<1>4. ASSUME NEW b \in Call, TurnToWrites(b) \/ Raise(b), b # c
      PROVE  UNCHANGED Local(c)
  BY <1>4 DEF TurnToWrites, Raise
<1>5. ASSUME NEW b \in Call, EndRound(b), b # c
      PROVE  UNCHANGED Local(c)
  BY <1>5 DEF EndRound
<1>6. ASSUME NEW k \in Key, Set(k) \/ Delete(k) \/ Expire(k) \/ LazyDelete(k)
      PROVE  UNCHANGED Local(c)
  BY <1>6 DEF Set, Delete, Expire, LazyDelete, calls
<1>7. CASE UNCHANGED vars
  BY <1>7 DEF vars
<1> HIDE DEF TypeOK, Local
<1> QED BY <1>1, <1>2, <1>3, <1>4, <1>5, <1>6, <1>7 DEF Next, Step, Acts

\* The loop keeps its sets of keys in order.
LEMMA KeysStep ==
    ASSUME TypeOK, KeysInOrder, [Next]_vars
    PROVE  KeysInOrder'
<1> DEFINE InOrder(c) ==
      /\ pc[c] = "idle" =>
           /\ keys[c] = {} /\ round[c] = 1
           /\ \A k \in Key : held[c][k] = Nothing
      /\ pending[c] \subseteq keys[c]
      /\ pc[c] \in {"reading", "writing"} => todo[c] \subseteq pending[c]
      /\ \A k \in pending[c] :
           /\ held[c][k] = Nothing
           /\ Visited(c, k) => NeedsWrite(decide[c][seen[c][k].value], seen[c][k])
<1> SUFFICES ASSUME NEW c \in Call PROVE InOrder(c)'
  BY DEF KeysInOrder
<1>0. InOrder(c)
  BY DEF KeysInOrder
<1> USE DEF TypeOK
<1>1. ASSUME NEW S \in SUBSET Key, Start(c, S) PROVE InOrder(c)'
  BY <1>0, <1>1 DEF Start, Visited
<1>2. ASSUME NEW k \in Key, Read(c, k) PROVE InOrder(c)'
  <2> DEFINE s == ReadVersioned(k)
             d == decide[c][s.value]
  <2>1. UNCHANGED <<pc, decide, keys>> /\ pc[c] = "reading" /\ k \in todo[c]
    BY <1>2 DEF Read
  <2>2. todo'[c] = todo[c] \ {k}
    BY <1>2 DEF Read
  <2>3. seen'[c][k] = s /\ \A j \in Key \ {k} : seen'[c][j] = seen[c][j]
    BY <1>2 DEF Read
  <2>4. \A j \in Key \ {k} : held'[c][j] = held[c][j]
    BY <1>2 DEF Read
  <2>5. CASE NeedsWrite(d, s)
    <3>1. UNCHANGED <<held, pending>>
      BY <1>2, <2>5 DEF Read, NeedsWrite
    <3> HIDE DEF s
    <3> QED BY <1>0, <2>1, <2>2, <2>3, <2>5, <3>1 DEF Visited, NeedsWrite
  <2>6. CASE ~NeedsWrite(d, s)
    <3>1. pending'[c] = pending[c] \ {k}
      BY <1>2, <2>6 DEF Read
    <3> QED BY <1>0, <2>1, <2>2, <2>3, <2>4, <3>1 DEF Visited, NeedsWrite
  <2> QED BY <2>5, <2>6
<1>3. ASSUME NEW k \in Key, WriteIfUnchanged(c, k) PROVE InOrder(c)'
  <2>1. UNCHANGED <<pc, decide, keys, seen>> /\ pc[c] = "writing" /\ k \in todo[c]
    BY <1>3 DEF WriteIfUnchanged
  <2>2. todo'[c] = todo[c] \ {k}
    BY <1>3 DEF WriteIfUnchanged
  <2>3. CASE ~Unchanged(c, k)
    <3>1. UNCHANGED <<held, pending>>
      BY <1>3, <2>3 DEF WriteIfUnchanged
    <3> QED BY <1>0, <2>1, <2>2, <3>1 DEF Visited, NeedsWrite
  <2>4. CASE Unchanged(c, k)
    <3>1. Apply(c, k)
      BY <1>3, <2>4 DEF WriteIfUnchanged
    <3>2. pending'[c] = pending[c] \ {k}
      BY <3>1 DEF Apply
    <3>3. \A j \in Key \ {k} : held'[c][j] = held[c][j]
      BY <3>1 DEF Apply
    <3> QED BY <1>0, <2>1, <2>2, <3>2, <3>3 DEF Visited, NeedsWrite
  <2> QED BY <2>3, <2>4
<1>4. ASSUME TurnToWrites(c) PROVE InOrder(c)'
  BY <1>0, <1>4 DEF TurnToWrites, Visited
<1>5. ASSUME EndRound(c) PROVE InOrder(c)'
  BY <1>0, <1>5 DEF EndRound, Visited
<1>6. ASSUME Raise(c) PROVE InOrder(c)'
  BY <1>0, <1>6 DEF Raise, Visited
<1>7. CASE UNCHANGED Local(c)
  BY <1>0, <1>7 DEF Local, Visited, NeedsWrite
<1> HIDE DEF TypeOK, InOrder
<1> QED BY <1>1, <1>2, <1>3, <1>4, <1>5, <1>6, <1>7, OnlyOwnSteps DEF Acts
\* A round that leaves a key pending was lost to a change made since its read.
LEMMA RoundsStep ==
    ASSUME TypeOK, VersionsAgree, KeysInOrder, RoundsCounted, [Next]_vars
    PROVE  RoundsCounted'
<1> DEFINE Earned(c, k) ==
      /\ pc[c] \in {"reading", "writing"} => Contended(c, k, round[c] - 1)
      /\ Visited(c, k) /\ version[k] # seen[c][k].version => Contended(c, k, round[c])
      /\ pc[c] = "writing" /\ k \notin todo[c] => Contended(c, k, round[c])
      /\ pc[c] = "conflict" => Contended(c, k, Attempts)
<1> SUFFICES ASSUME NEW c \in Call, NEW k \in pending'[c] PROVE Earned(c, k)'
  BY DEF RoundsCounted
<1>a. TypeOK'
  BY TypeStep
<1>b. k \in Key
  BY <1>a DEF TypeOK
<1>c. k \in pending[c] => Earned(c, k)
  BY DEF RoundsCounted
<1>d. /\ changed'[k] >= changed[k]
      /\ version'[k] # version[k] => changed'[k] >= changed[k] + 1
  BY <1>b, MediumSteps, ChangesCounted
<1>e. /\ changed[k] \in Nat /\ changed'[k] \in Nat /\ began[c][k] \in Nat
      /\ round[c] \in 1..Attempts /\ Attempts \in Nat
  BY <1>a, <1>b, BatchAssumption DEF TypeOK
<1> USE DEF Contended, Visited
<1>1. ASSUME NEW S \in SUBSET Key, Start(c, S) PROVE Earned(c, k)'
  <2>1. pc'[c] = "reading" /\ k \in todo'[c] /\ UNCHANGED <<changed, round>>
    BY <1>1 DEF Start, TypeOK, medium
  <2>2. began'[c][k] = changed[k]
    BY <1>1, <1>b DEF Start, TypeOK
  <2>3. round[c] = 1
    BY <1>1 DEF Start, KeysInOrder
  <2> QED BY <1>e, <2>1, <2>2, <2>3
<1>2. ASSUME NEW j \in Key, Read(c, j) PROVE Earned(c, k)'
  <2>1. UNCHANGED <<pc, round, began, version, changed>> /\ pc[c] = "reading"
    BY <1>2 DEF Read, medium
  <2>2. todo'[c] = todo[c] \ {j} /\ k \in pending[c]
    BY <1>2 DEF Read, TypeOK
  <2>3. seen'[c][k] = IF k = j THEN ReadVersioned(k) ELSE seen[c][k]
    BY <1>2, <1>b DEF Read, TypeOK
  <2> QED BY <1>c, <1>e, <2>1, <2>2, <2>3 DEF ReadVersioned
<1>3. ASSUME NEW j \in Key, WriteIfUnchanged(c, j) PROVE Earned(c, k)'
  <2>1. UNCHANGED <<pc, round, seen, began>> /\ pc[c] = "writing" /\ j \in todo[c]
    BY <1>3 DEF WriteIfUnchanged
  <2>2. todo'[c] = todo[c] \ {j}
    BY <1>3 DEF WriteIfUnchanged, TypeOK
  <2>3. CASE ~Unchanged(c, j)
    <3>1. UNCHANGED <<pending, version, changed>>
      BY <1>3, <2>3 DEF WriteIfUnchanged, medium
    <3> QED BY <1>c, <1>e, <2>1, <2>2, <2>3, <3>1 DEF Unchanged
  <2>4. CASE Unchanged(c, j)
    <3>1. k # j /\ k \in pending[c]
      BY <1>3, <2>4 DEF WriteIfUnchanged, Apply, TypeOK
    <3> QED BY <1>c, <1>d, <1>e, <2>1, <2>2, <3>1
  <2> QED BY <2>3, <2>4
<1>4. ASSUME TurnToWrites(c) PROVE Earned(c, k)'
  <2>1. UNCHANGED <<round, seen, began, version, changed>> /\ pending'[c] = pending[c]
    BY <1>4 DEF TurnToWrites, medium
  <2>2. /\ pc[c] = "reading" /\ todo[c] = {} /\ todo'[c] = pending[c]
        /\ pc'[c] \in {"returned", "writing"}
    BY <1>4 DEF TurnToWrites, TypeOK
  <2> QED BY <1>c, <1>e, <2>1, <2>2
<1>5. ASSUME EndRound(c) PROVE Earned(c, k)'
  <2>1. UNCHANGED <<seen, began, version, changed>> /\ pending'[c] = pending[c]
    BY <1>5 DEF EndRound, medium
  <2>2. pc[c] = "writing" /\ todo[c] = {}
    BY <1>5 DEF EndRound
  <2>3. changed[k] - began[c][k] >= round[c]
    BY <1>c, <2>1, <2>2
  <2>4. \/ pc'[c] = "reading" /\ todo'[c] = pending[c] /\ round'[c] = round[c] + 1
        \/ pc'[c] = "conflict" /\ round[c] = Attempts
    BY <1>5, <2>1 DEF EndRound, TypeOK
  <2> QED BY <1>e, <2>1, <2>3, <2>4
<1>6. ASSUME Raise(c) PROVE Earned(c, k)'
  BY <1>6 DEF Raise, TypeOK
<1>7. CASE UNCHANGED Local(c)
  <2>1. /\ pc'[c] = pc[c] /\ round'[c] = round[c] /\ todo'[c] = todo[c]
        /\ seen'[c][k] = seen[c][k] /\ began'[c][k] = began[c][k] /\ k \in pending[c]
    BY <1>7 DEF Local
  <2> QED BY <1>c, <1>d, <1>e, <2>1
<1> HIDE DEF Earned
<1> QED BY <1>1, <1>2, <1>3, <1>4, <1>5, <1>6, <1>7, OnlyOwnSteps DEF Acts

-----------------------------------------------------------------------------
(* The invariant, and what follows from it.                                *)

\* The invariant holds of a map with no entries and no calls.
LEMMA IInvInit == Init => IInv
<1> SUFFICES ASSUME Init PROVE IInv
  OBVIOUS
<1>1. TypeOK
  BY TypeInit
<1>2. VersionsAgree /\ SeenAgrees
  BY DEF Init, VersionsAgree, SeenAgrees, Live, Unread
<1>3. KeysInOrder /\ RoundsCounted
  BY DEF Init, KeysInOrder, RoundsCounted
<1> QED BY <1>1, <1>2, <1>3 DEF IInv

\* Every step keeps the invariant, each of its parts from those before it.
LEMMA IInvStep == IInv /\ [Next]_vars => IInv'
<1> SUFFICES ASSUME IInv, [Next]_vars PROVE IInv'
  OBVIOUS
<1>1. TypeOK /\ VersionsAgree /\ SeenAgrees /\ KeysInOrder /\ RoundsCounted
  BY DEF IInv
<1> QED BY <1>1, TypeStep, MediumSteps, VersionsStep, SeenStep, KeysStep, RoundsStep DEF IInv

\* Whatever the calls, the other writers and time do, versions name what was
\* seen, the loop has its keys in order, and every lost round is accounted for.
THEOREM Invariance == Spec => []IInv
BY IInvInit, IInvStep, PTL DEF Spec

\* batch_update raises KvStoreConflict only for keys that others changed at
\* least `attempts' times while it ran.
THEOREM ConflictsAreEarned == Spec => []ConflictMeansContention
<1>1. IInv => ConflictMeansContention
  BY DEF IInv, RoundsCounted, Contended, ConflictMeansContention
<1> QED BY <1>1, Invariance, PTL
-----------------------------------------------------------------------------
(* The refinement.                                                         *)

StatusOf(c, k) ==
    IF k \notin keys[c] THEN "none"
    ELSE IF k \notin pending[c] THEN "settled"
    ELSE IF pc[c] \in {"conflict", "raised"} THEN "lost" ELSE "open"

\* A step of call c that settles key k, and only that, takes the abstract status
\* of that key from open to settled.
LEMMA StatusSettles ==
    ASSUME TypeOK, KeysInOrder, NEW c \in Call, NEW k \in pending[c],
           pc[c] \in {"reading", "writing"},
           UNCHANGED <<pc, keys>>, pending' = [pending EXCEPT ![c] = @ \ {k}]
    PROVE  /\ Status[c][k] = "open"
           /\ Status' = [Status EXCEPT ![c][k] = "settled"]
<1>1. k \in keys[c] /\ k \in Key
  BY DEF KeysInOrder, TypeOK
<1>2. Status[c][k] = "open"
  BY <1>1 DEF Status
<1>3. ASSUME NEW b \in Call, NEW j \in Key
      PROVE  StatusOf(b, j)' = IF b = c /\ j = k THEN "settled" ELSE StatusOf(b, j)
  BY <1>1 DEF StatusOf, TypeOK
<1>4. Status = [b \in Call |-> [j \in Key |-> StatusOf(b, j)]]
  BY DEF Status, StatusOf
<1>5. Status' = [b \in Call |-> [j \in Key |-> StatusOf(b, j)']]
  BY DEF Status, StatusOf
<1> HIDE DEF StatusOf
<1>6. Status' = [Status EXCEPT ![c][k] = "settled"]
  BY <1>1, <1>3, <1>4, <1>5
<1> QED BY <1>2, <1>6

\* A step that settles and gives up nothing leaves the abstract status alone.
LEMMA StatusStays ==
    ASSUME UNCHANGED <<keys, pending>>,
           \A c \in Call : pc'[c] \in {"conflict", "raised"} <=> pc[c] \in {"conflict", "raised"}
    PROVE  UNCHANGED Status
BY DEF Status

\* A call that ends with keys pending gives them up, and no others.
LEMMA StatusLost ==
    ASSUME TypeOK, KeysInOrder, UNCHANGED <<keys, pending>>, NEW c \in Call,
           pc[c] \in {"reading", "writing"}, pending[c] # {},
           NEW stage \in {"conflict", "raised"}, pc' = [pc EXCEPT ![c] = stage]
    PROVE  /\ \E k \in Key : Status[c][k] = "open"
           /\ Status' = [Status EXCEPT ![c] =
                [k \in Key |-> IF @[k] = "open" THEN "lost" ELSE @[k]]]
<1>1. PICK k \in Key : k \in pending[c] /\ k \in keys[c]
  BY DEF KeysInOrder, TypeOK
<1>2. Status[c][k] = "open"
  BY <1>1 DEF Status
<1>3. ASSUME NEW b \in Call, NEW j \in Key
      PROVE  StatusOf(b, j)' = IF b = c /\ StatusOf(b, j) = "open" THEN "lost" ELSE StatusOf(b, j)
  BY DEF StatusOf, TypeOK
<1>4. Status = [b \in Call |-> [j \in Key |-> StatusOf(b, j)]]
  BY DEF Status, StatusOf
<1>5. Status' = [b \in Call |-> [j \in Key |-> StatusOf(b, j)']]
  BY DEF Status, StatusOf
<1> HIDE DEF StatusOf
<1>6. \E j \in Key : Status[c][j] = "open"
  BY <1>1, <1>2
<1>7. Status' = [b \in Call |-> [j \in Key |->
        IF b = c /\ StatusOf(b, j) = "open" THEN "lost" ELSE StatusOf(b, j)]]
  BY <1>3, <1>5
<1>8. [j \in Key |-> IF StatusOf(c, j) = "open" THEN "lost" ELSE StatusOf(c, j)]
      = [j \in Key |-> IF Status[c][j] = "open" THEN "lost" ELSE Status[c][j]]
  BY <1>4
<1>9. Status' = [Status EXCEPT ![c] =
        [j \in Key |-> IF StatusOf(c, j) = "open" THEN "lost" ELSE StatusOf(c, j)]]
  BY <1>4, <1>7
<1> QED BY <1>6, <1>8, <1>9

\* A call that starts opens its keys.
LEMMA StartRefines ==
    ASSUME TypeOK, KeysInOrder, NEW c \in Call, NEW S \in SUBSET Key, Start(c, S)
    PROVE  Atomic!Next
<1>1. \A k \in Key : Status[c][k] = "none"
  BY DEF Start, KeysInOrder, Status
<1>2. ASSUME NEW b \in Call, NEW j \in Key
      PROVE  StatusOf(b, j)' = IF b # c THEN StatusOf(b, j)
                               ELSE IF j \in S THEN "open" ELSE "none"
  BY DEF StatusOf, Start, TypeOK
<1>3. Status = [b \in Call |-> [j \in Key |-> StatusOf(b, j)]]
  BY DEF Status, StatusOf
<1>4. Status' = [b \in Call |-> [j \in Key |-> StatusOf(b, j)']]
  BY DEF Status, StatusOf
<1> HIDE DEF StatusOf
<1>5. Status' = [Status EXCEPT ![c] = [k \in Key |-> IF k \in S THEN "open" ELSE "none"]]
  BY <1>2, <1>3, <1>4
<1>6. UNCHANGED <<value, expired, decide, held>>
  BY DEF Start, medium
<1>7. Atomic!Begin(c, S)
  BY <1>1, <1>5, <1>6 DEF Atomic!Begin
<1> QED BY <1>7 DEF Atomic!Next

\* Keeping takes effect when the key is read, and so does removing nothing.
LEMMA ReadRefines ==
    ASSUME IInv, NEW c \in Call, NEW k \in Key, Read(c, k)
    PROVE  Atomic!Next \/ UNCHANGED Atomic!vars
<1> DEFINE s == ReadVersioned(k)
           d == decide[c][s.value]
<1>1. k \in pending[c] /\ held[c][k] = Nothing /\ pc[c] = "reading"
  BY DEF IInv, KeysInOrder, Read
<1>2. UNCHANGED <<value, expired, decide, pc, keys>>
  BY DEF Read, medium
<1>3. s.value = Live(k) /\ s.version = version[k]
  BY DEF ReadVersioned
<1>4. CASE NeedsWrite(d, s)
  <2>1. UNCHANGED <<held, pending>>
    BY <1>4 DEF Read, NeedsWrite
  <2>2. UNCHANGED Status
    BY <1>2, <2>1, StatusStays
  <2> QED BY <1>2, <2>1, <2>2 DEF Atomic!vars
<1>5. CASE ~NeedsWrite(d, s)
  <2>1. pending' = [pending EXCEPT ![c] = @ \ {k}]
    BY <1>5 DEF Read
  <2>2. Status[c][k] = "open" /\ Status' = [Status EXCEPT ![c][k] = "settled"]
    BY <1>1, <1>2, <2>1, StatusSettles DEF IInv
  <2>3. held \in [Call -> [Key -> Shown]]
    BY DEF IInv, TypeOK
  <2>4. d = decide[c][Live(k)]
    BY <1>3
  <2>5. CASE d.do = "keep"
    <3>1. held' = [held EXCEPT ![c][k] = Live(k)]
      BY <1>3, <2>5 DEF Read
    <3>2. Atomic!Settle(c, k)
      BY <1>2, <2>2, <2>4, <2>5, <3>1 DEF Atomic!Settle, Atomic!Report, Live
    <3> QED BY <3>2 DEF Atomic!Next
  <2>6. CASE d.do # "keep"
    <3>1. d.do = "remove" /\ version[k] = 0
      BY <1>3, <1>5, <2>6 DEF NeedsWrite
    <3>2. value[k] = Nothing /\ expired[k] = FALSE
      BY <3>1 DEF IInv, VersionsAgree, TypeOK
    <3>3. held' = [held EXCEPT ![c][k] = Nothing]
      BY <1>1, <2>3, <2>6 DEF Read
    <3>4. Atomic!Replace(k, Nothing)
      BY <1>2, <3>2 DEF Atomic!Replace, IInv, TypeOK
    <3>5. Atomic!Settle(c, k)
      BY <1>2, <2>2, <2>4, <3>1, <3>3, <3>4 DEF Atomic!Settle, Atomic!Report, Live
    <3> QED BY <3>5 DEF Atomic!Next
  <2> QED BY <2>5, <2>6
<1> QED BY <1>4, <1>5

\* A change takes effect when its conditional write goes through: the version
\* then shows that the decision was made about what the key holds.
LEMMA WriteRefines ==
    ASSUME IInv, NEW c \in Call, NEW k \in Key, WriteIfUnchanged(c, k)
    PROVE  Atomic!Next \/ UNCHANGED Atomic!vars
<1> DEFINE shown == seen[c][k].value
           d == decide[c][shown]
<1>1. k \in pending[c] /\ held[c][k] = Nothing /\ pc[c] = "writing"
  BY DEF IInv, KeysInOrder, WriteIfUnchanged
<1>2. UNCHANGED <<decide, pc, keys>>
  BY DEF WriteIfUnchanged
<1>3. CASE ~Unchanged(c, k)
  <2>1. UNCHANGED <<value, expired, held, pending>>
    BY <1>3 DEF WriteIfUnchanged, medium
  <2>2. UNCHANGED Status
    BY <1>2, <2>1, StatusStays
  <2> QED BY <1>2, <2>1, <2>2 DEF Atomic!vars
<1>4. CASE Unchanged(c, k)
  <2>1. Apply(c, k)
    BY <1>4 DEF WriteIfUnchanged
  <2>2. pending' = [pending EXCEPT ![c] = @ \ {k}]
    BY <2>1 DEF Apply
  <2>3. Status[c][k] = "open" /\ Status' = [Status EXCEPT ![c][k] = "settled"]
    BY <1>1, <1>2, <2>2, StatusSettles DEF IInv
  <2>4. shown \in {value[k], IF expired[k] THEN Nothing ELSE value[k]}
    BY <1>4 DEF IInv, SeenAgrees, Unchanged, Live
  <2>5. CASE d.do = "put"
    <3>1. Atomic!Replace(k, d.value) /\ held' = [held EXCEPT ![c][k] = d.value]
      BY <2>1, <2>5 DEF Apply, Store, Atomic!Replace
    <3>2. Atomic!Settle(c, k)
      BY <1>2, <2>3, <2>4, <2>5, <3>1 DEF Atomic!Settle, Atomic!Report
    <3> QED BY <3>2 DEF Atomic!Next
  <2>6. CASE d.do # "put"
    <3>1. d.do = "remove" /\ Drop(k) /\ UNCHANGED held
      BY <2>1, <2>6 DEF Apply
    <3>2. held' = [held EXCEPT ![c][k] = Nothing]
      BY <1>1, <3>1 DEF IInv, TypeOK
    <3>3. Atomic!Replace(k, Nothing)
      BY <3>1 DEF Drop, Atomic!Replace
    <3>4. Atomic!Settle(c, k)
      BY <1>2, <2>3, <2>4, <3>1, <3>2, <3>3 DEF Atomic!Settle, Atomic!Report
    <3> QED BY <3>4 DEF Atomic!Next
  <2> QED BY <2>5, <2>6
<1> QED BY <1>3, <1>4

\* The end of a half round changes nothing a caller can see, unless the call
\* gives its pending keys up.
LEMMA EndingsRefine ==
    ASSUME IInv, NEW c \in Call, TurnToWrites(c) \/ EndRound(c) \/ Raise(c)
    PROVE  Atomic!Next \/ UNCHANGED Atomic!vars
<1>1. UNCHANGED <<value, expired, decide, held, keys, pending>>
  BY DEF TurnToWrites, EndRound, Raise, medium
<1>2. pc[c] \in {"reading", "writing"} /\ pc \in [Call -> Stages]
  BY DEF TurnToWrites, EndRound, Raise, IInv, TypeOK
<1>3. PICK stage \in Stages : pc' = [pc EXCEPT ![c] = stage]
  BY DEF TurnToWrites, EndRound, Raise, Stages
<1>4. CASE stage \in {"conflict", "raised"} /\ pending[c] # {}
  <2>1. Atomic!GiveUp(c)
    BY <1>1, <1>2, <1>3, <1>4, StatusLost DEF Atomic!GiveUp, IInv
  <2> QED BY <2>1 DEF Atomic!Next
<1>5. CASE stage \notin {"conflict", "raised"}
  <2>1. \A b \in Call : pc'[b] \in {"conflict", "raised"} <=> pc[b] \in {"conflict", "raised"}
    BY <1>2, <1>3, <1>5
  <2>2. UNCHANGED Status
    BY <1>1, <2>1, StatusStays
  <2> QED BY <1>1, <2>2 DEF Atomic!vars
<1>6. CASE pending[c] = {}
  <2>1. \A b \in Call : \A j \in pending[b] : pc'[b] = pc[b]
    BY <1>2, <1>3, <1>6
  <2>2. UNCHANGED Status
    BY <1>1, <2>1 DEF Status
  <2> QED BY <1>1, <2>2 DEF Atomic!vars
<1> QED BY <1>4, <1>5, <1>6

\* The other writers change the abstract entry as they change the stored one.
LEMMA OthersRefine ==
    ASSUME IInv, NEW k \in Key, Set(k) \/ Delete(k) \/ Expire(k) \/ LazyDelete(k)
    PROVE  Atomic!Next
<1>1. UNCHANGED <<decide, held, keys, pending, pc>>
  BY DEF Set, Delete, Expire, LazyDelete, calls
<1>2. UNCHANGED Status
  BY <1>1, StatusStays
<1>3. CASE Set(k) \/ Delete(k) \/ LazyDelete(k)
  <2>1. \E v \in Atomic!Shown : Atomic!Replace(k, v)
    BY <1>3 DEF Set, Delete, LazyDelete, Store, Drop, Atomic!Replace, Atomic!Shown
  <2>2. Atomic!Change(k)
    BY <1>1, <1>2, <2>1 DEF Atomic!Change
  <2> QED BY <2>2 DEF Atomic!Next
<1>4. CASE Expire(k)
  <2>1. value[k] # Nothing
    BY <1>4 DEF Expire, IInv, VersionsAgree
  <2>2. Atomic!Expire(k)
    BY <1>1, <1>2, <1>4, <2>1 DEF Atomic!Expire, Expire
  <2> QED BY <2>2 DEF Atomic!Next
<1> QED BY <1>3, <1>4

\* Reading, deciding and writing with retries implements the atomic update of
\* AtomicUpdate: a key is settled in one step, about what it then holds, or
\* given up with nothing written.
THEOREM UpdateRefinesAtomic == Spec => UpdateIsAtomic
<1>1. Init => Atomic!Init
  BY DEF Init, Atomic!Init, Status
<1>2. IInv /\ [Next]_vars => [Atomic!Next]_(Atomic!vars)
  <2> SUFFICES ASSUME IInv, [Next]_vars PROVE Atomic!Next \/ UNCHANGED Atomic!vars
    OBVIOUS
  <2>0. TypeOK /\ KeysInOrder
    BY DEF IInv
  <2>1. CASE UNCHANGED vars
    BY <2>1 DEF vars, medium, Atomic!vars, Status
  <2>2. CASE Next
    BY <2>0, <2>2, StartRefines, ReadRefines, WriteRefines, EndingsRefine, OthersRefine
       DEF Next, Step
  <2> QED BY <2>1, <2>2
<1> QED BY <1>1, <1>2, Invariance, PTL DEF Spec, UpdateIsAtomic, Atomic!Spec

-----------------------------------------------------------------------------
(***************************************************************************)
(* Filters.  A filter is a tree of predicates of some depth; what holds of *)
(* the plain ones and of a tree whose branches satisfy it holds of all.    *)
(***************************************************************************)

\* Induction over the naturals, for a set.
LEMMA NatSetInduction ==
    ASSUME NEW T, 0 \in T, \A n \in Nat : n \in T => n + 1 \in T
    PROVE  Nat \subseteq T
<1> SUFFICES ASSUME NEW m \in Nat, m \notin T PROVE FALSE
    OBVIOUS
<1> DEFINE U == Nat \ T
           L == {ss \in Nat \X Nat : ss[1] < ss[2]}
<1>1. IsWellFoundedOn(L, Nat)
    BY NatLessThanWellFounded DEF OpToRel
<1>2. U \subseteq Nat /\ U # {}
    OBVIOUS
<1>3. PICK x \in U : \A y \in U : ~ (<<y, x>> \in L)
  <2> HIDE DEF L, U
  <2> QED BY <1>1, <1>2, WFMin
<1>4. x # 0 /\ x - 1 \in Nat /\ x - 1 \notin T
    OBVIOUS
<1>5. <<x - 1, x>> \in L
    BY <1>4
<1> QED BY <1>3, <1>4, <1>5

Plain == {AlwaysTrue, KeyPrefix, KeyIn, ModifiedBefore, Expired, ValueWhere}
Combined(ps) ==
    ps \cup {Not(p) : p \in ps} \cup {And(p, q) : p, q \in ps} \cup {Or(p, q) : p, q \in ps}
OfDepth[n \in Nat] == IF n = 0 THEN Plain ELSE Combined(OfDepth[n - 1])
Predicate == UNION {OfDepth[n] : n \in Nat}

UpTo(g, m) == g = [n \in 0 .. m |-> IF n = 0 THEN Plain ELSE Combined(g[n - 1])]

LEMMA UpToUnique ==
    ASSUME NEW g, NEW h, NEW m \in Nat, NEW l \in Nat, UpTo(g, m), UpTo(h, l)
    PROVE  \A i \in Nat : i <= m /\ i <= l => g[i] = h[i]
<1> DEFINE T == {i \in Nat : i <= m /\ i <= l => g[i] = h[i]}
<1>1. 0 \in T
    BY DEF UpTo
<1>2. ASSUME NEW i \in Nat, i \in T PROVE i + 1 \in T
  <2> SUFFICES ASSUME i + 1 <= m, i + 1 <= l PROVE g[i + 1] = h[i + 1]
      OBVIOUS
  <2>1. g[i] = h[i]
      BY <1>2
  <2>2. g[i + 1] = Combined(g[(i + 1) - 1]) /\ h[i + 1] = Combined(h[(i + 1) - 1])
    <3>1. i + 1 \in 0 .. m /\ i + 1 \in 0 .. l /\ i + 1 # 0
        OBVIOUS
    <3> QED BY <3>1 DEF UpTo
  <2>3. (i + 1) - 1 = i
      OBVIOUS
  <2> QED BY <2>1, <2>2, <2>3
<1> HIDE DEF T
<1>3. Nat \subseteq T
    BY <1>1, <1>2, NatSetInduction
<1> QED BY <1>3 DEF T

LEMMA UpToExists == \A m \in Nat : \E g : UpTo(g, m)
<1> DEFINE T == {m \in Nat : \E g : UpTo(g, m)}
<1>1. 0 \in T
  <2> DEFINE g == [n \in 0 .. 0 |-> Plain]
  <2>1. UpTo(g, 0)
      BY DEF UpTo
  <2> QED BY <2>1
<1>2. ASSUME NEW m \in Nat, m \in T PROVE m + 1 \in T
  <2>1. PICK g : UpTo(g, m)
      BY <1>2
  <2> DEFINE h == [n \in 0 .. (m + 1) |-> IF n = 0 THEN Plain ELSE Combined(g[n - 1])]
  <2>2. ASSUME NEW n \in 0 .. (m + 1), n # 0 PROVE h[n - 1] = g[n - 1]
    <3>1. n - 1 \in 0 .. m /\ n - 1 \in 0 .. (m + 1)
        BY <2>2
    <3> QED BY <2>1, <3>1 DEF UpTo
  <2>3. h = [n \in 0 .. (m + 1) |-> IF n = 0 THEN Plain ELSE Combined(h[n - 1])]
    <3>1. ASSUME NEW n \in 0 .. (m + 1)
          PROVE  h[n] = IF n = 0 THEN Plain ELSE Combined(h[n - 1])
        BY <2>2
    <3> QED BY <3>1
  <2>4. UpTo(h, m + 1)
    <3> HIDE DEF h
    <3> QED BY <2>3 DEF UpTo
  <2> QED BY <2>4
<1> HIDE DEF T
<1>3. Nat \subseteq T
    BY <1>1, <1>2, NatSetInduction
<1> QED BY <1>3 DEF T

LEMMA OfDepthDef ==
    OfDepth = [n \in Nat |-> IF n = 0 THEN Plain ELSE Combined(OfDepth[n - 1])]
<1> DEFINE G(m) == CHOOSE g : UpTo(g, m)
           f == [n \in Nat |-> G(n)[n]]
<1>1. \A m \in Nat : UpTo(G(m), m)
    BY UpToExists
<1>2. ASSUME NEW n \in Nat PROVE f[n] = IF n = 0 THEN Plain ELSE Combined(f[n - 1])
  <2>1. CASE n = 0
    <3>1. UpTo(G(0), 0) /\ f[0] = G(0)[0]
        BY <1>1
    <3>2. G(0)[0] = Plain
      <4> HIDE DEF G
      <4> QED BY <3>1 DEF UpTo
    <3> QED BY <2>1, <3>1, <3>2
  <2>2. CASE n # 0
    <3>1. n - 1 \in Nat /\ n - 1 <= n /\ n - 1 \in 0 .. n /\ n \in 0 .. n
        BY <2>2
    <3>2. UpTo(G(n), n) /\ UpTo(G(n - 1), n - 1)
        BY <1>1, <3>1
    <3>3. G(n)[n] = Combined(G(n)[n - 1])
      <4> HIDE DEF G
      <4> QED BY <2>2, <3>1, <3>2 DEF UpTo
    <3>4. G(n)[n - 1] = G(n - 1)[n - 1]
      <4> HIDE DEF G
      <4>1. n - 1 <= n - 1
          BY <3>1
      <4> QED BY <3>1, <3>2, <4>1, UpToUnique
    <3> QED BY <2>2, <3>1, <3>3, <3>4
  <2> QED BY <2>1, <2>2
<1>3. f = [n \in Nat |-> IF n = 0 THEN Plain ELSE Combined(f[n - 1])]
  <2>1. f = [n \in Nat |-> f[n]]
      OBVIOUS
  <2> HIDE DEF f
  <2> QED BY <1>2, <2>1
<1>4. \E e : e = [n \in Nat |-> IF n = 0 THEN Plain ELSE Combined(e[n - 1])]
  <2> HIDE DEF f
  <2> QED BY <1>3
<1> QED BY <1>4 DEF OfDepth

LEMMA OfDepthGrows ==
    /\ OfDepth[0] = Plain
    /\ \A n \in Nat : OfDepth[n + 1] = Combined(OfDepth[n])
    /\ \A n, m \in Nat : n <= m => OfDepth[n] \subseteq OfDepth[m]
<1>1. OfDepth[0] = Plain
    BY OfDepthDef
<1>2. ASSUME NEW n \in Nat PROVE OfDepth[n + 1] = Combined(OfDepth[n])
  <2>1. n + 1 \in Nat /\ n + 1 # 0 /\ (n + 1) - 1 = n
      OBVIOUS
  <2> QED BY <2>1, OfDepthDef
<1>3. ASSUME NEW n \in Nat, NEW m \in Nat, n <= m PROVE OfDepth[n] \subseteq OfDepth[m]
  <2> DEFINE T == {d \in Nat : OfDepth[n] \subseteq OfDepth[n + d]}
  <2>1. 0 \in T
    <3>1. n + 0 = n
        OBVIOUS
    <3> QED BY <3>1
  <2>2. ASSUME NEW d \in Nat, d \in T PROVE d + 1 \in T
    <3>1. n + (d + 1) = (n + d) + 1 /\ n + d \in Nat
        OBVIOUS
    <3>2. OfDepth[n + (d + 1)] = Combined(OfDepth[n + d])
        BY <1>2, <3>1
    <3>3. OfDepth[n + d] \subseteq Combined(OfDepth[n + d])
        BY DEF Combined
    <3>4. OfDepth[n] \subseteq OfDepth[n + d]
        BY <2>2
    <3>5. OfDepth[n] \subseteq OfDepth[n + (d + 1)]
        BY <3>2, <3>3, <3>4
    <3> QED BY <3>5
  <2> HIDE DEF T
  <2>3. Nat \subseteq T
      BY <2>1, <2>2, NatSetInduction
  <2>4. m - n \in Nat /\ n + (m - n) = m
      BY <1>3
  <2>5. OfDepth[n] \subseteq OfDepth[n + (m - n)]
      BY <2>3, <2>4 DEF T
  <2> QED BY <2>4, <2>5
<1> QED BY <1>1, <1>2, <1>3

\* Predicates are the plain ones and what is built from predicates.
LEMMA PredicateClosed ==
    /\ Plain \subseteq Predicate
    /\ \A p \in Predicate : Not(p) \in Predicate
    /\ \A p, q \in Predicate : And(p, q) \in Predicate /\ Or(p, q) \in Predicate
<1>1. Plain \subseteq Predicate
  <2>1. 0 \in Nat
      OBVIOUS
  <2> QED BY <2>1, OfDepthGrows DEF Predicate
<1>2. ASSUME NEW p \in Predicate PROVE Not(p) \in Predicate
  <2>1. PICK n \in Nat : p \in OfDepth[n]
      BY DEF Predicate
  <2>2. n + 1 \in Nat /\ OfDepth[n + 1] = Combined(OfDepth[n])
      BY OfDepthGrows
  <2>3. Not(p) \in OfDepth[n + 1]
      BY <2>1, <2>2 DEF Combined
  <2> QED BY <2>2, <2>3 DEF Predicate
<1>3. ASSUME NEW p \in Predicate, NEW q \in Predicate
      PROVE  And(p, q) \in Predicate /\ Or(p, q) \in Predicate
  <2>1. PICK n \in Nat : p \in OfDepth[n]
      BY DEF Predicate
  <2>2. PICK m \in Nat : q \in OfDepth[m]
      BY DEF Predicate
  <2>3. \E l \in Nat : n <= l /\ m <= l
    <3>1. n <= n + m /\ m <= n + m /\ n + m \in Nat
        OBVIOUS
    <3> QED BY <3>1
  <2>4. PICK l \in Nat : n <= l /\ m <= l
      BY <2>3
  <2>5. p \in OfDepth[l] /\ q \in OfDepth[l]
      BY <2>1, <2>2, <2>4, OfDepthGrows
  <2>6. l + 1 \in Nat /\ OfDepth[l + 1] = Combined(OfDepth[l])
      BY OfDepthGrows
  <2>7. And(p, q) \in OfDepth[l + 1] /\ Or(p, q) \in OfDepth[l + 1]
      BY <2>5, <2>6 DEF Combined
  <2> QED BY <2>6, <2>7 DEF Predicate
<1> QED BY <1>1, <1>2, <1>3

LEMMA PredicateInduction ==
    ASSUME NEW T, Plain \subseteq T,
           \A p \in Predicate : p \in T => Not(p) \in T,
           \A p, q \in Predicate : p \in T /\ q \in T => And(p, q) \in T /\ Or(p, q) \in T
    PROVE  Predicate \subseteq T
<1> DEFINE D == {n \in Nat : OfDepth[n] \subseteq T}
<1>1. 0 \in D
    BY OfDepthGrows
<1>2. ASSUME NEW n \in Nat, n \in D PROVE n + 1 \in D
  <2>1. OfDepth[n + 1] = Combined(OfDepth[n]) /\ OfDepth[n] \subseteq T
      BY <1>2, OfDepthGrows
  <2>2. OfDepth[n] \subseteq Predicate
      BY DEF Predicate
  <2>3. Combined(OfDepth[n]) \subseteq T
      BY <2>1, <2>2 DEF Combined
  <2> QED BY <2>1, <2>3
<1> HIDE DEF D
<1>3. Nat \subseteq D
    BY <1>1, <1>2, NatSetInduction
<1> QED BY <1>3 DEF D, Predicate

\* The functions of scan.py are what their bodies say, on every predicate.
Recursions ==
    \A p \in Predicate :
        /\ Needs(p) = NeedsOf(p)
        /\ \A row \in Row : Evaluate(p, row) = EvaluateOf(p, row)
        /\ PeelKeyPrefix(p) = PeelKeyPrefixOf(p)
        /\ IsKeyOnly(p) = IsKeyOnlyOf(p)
        /\ SplitKeyPredicates(p) = SplitKeyPredicatesOf(p)
        /\ IsGcPredicate(p) = IsGcPredicateOf(p)
        /\ FlattenAnd(p) = FlattenAndOf(p)

\* What evaluate answers, class by class.
LEMMA EvaluatePlain ==
    ASSUME Recursions, NEW row \in Row
    PROVE  /\ Evaluate(AlwaysTrue, row) = TRUE
           /\ Evaluate(KeyPrefix, row) = (row.key \in Under)
           /\ Evaluate(KeyIn, row) = (row.key \in Named)
           /\ Evaluate(ModifiedBefore, row) = (row.stat \in {"old", "dead"})
           /\ Evaluate(Expired, row) = (row.stat = "dead")
           /\ Evaluate(ValueWhere, row) = (row.value = Good)
<1>1. \A p \in Plain : Evaluate(p, row) = EvaluateOf(p, row)
    BY PredicateClosed DEF Recursions
<1> QED BY <1>1 DEF Plain, EvaluateOf, AlwaysTrue, KeyPrefix, KeyIn, ModifiedBefore, Expired,
            ValueWhere

LEMMA EvaluateBuilt ==
    ASSUME Recursions, NEW row \in Row, NEW p \in Predicate, NEW q \in Predicate
    PROVE  /\ Evaluate(Not(p), row) = ~ Evaluate(p, row)
           /\ Evaluate(And(p, q), row) = (Evaluate(p, row) /\ Evaluate(q, row))
           /\ Evaluate(Or(p, q), row) = (Evaluate(p, row) \/ Evaluate(q, row))
<1>1. /\ Evaluate(Not(p), row) = EvaluateOf(Not(p), row)
      /\ Evaluate(And(p, q), row) = EvaluateOf(And(p, q), row)
      /\ Evaluate(Or(p, q), row) = EvaluateOf(Or(p, q), row)
    BY PredicateClosed DEF Recursions
<1>2. EvaluateOf(Not(p), row) = ~ Evaluate(p, row)
    BY DEF EvaluateOf, Not
<1>3. EvaluateOf(And(p, q), row) = (Evaluate(p, row) /\ Evaluate(q, row))
    BY DEF EvaluateOf, And
<1>4. EvaluateOf(Or(p, q), row) = (Evaluate(p, row) \/ Evaluate(q, row))
    BY DEF EvaluateOf, Or
<1> QED BY <1>1, <1>2, <1>3, <1>4

LEMMA NeedsPlain ==
    ASSUME Recursions
    PROVE  /\ Needs(AlwaysTrue) = {}
           /\ Needs(KeyPrefix) = {"key"} /\ Needs(KeyIn) = {"key"}
           /\ Needs(ModifiedBefore) = {"stat"} /\ Needs(Expired) = {"stat"}
           /\ Needs(ValueWhere) = {"value"}
<1>1. \A p \in Plain : Needs(p) = NeedsOf(p)
    BY PredicateClosed DEF Recursions
<1> QED BY <1>1 DEF Plain, NeedsOf, IsKeyPredicate, IsStatPredicate, AlwaysTrue, KeyPrefix, KeyIn,
            ModifiedBefore, Expired, ValueWhere

LEMMA NeedsBuilt ==
    ASSUME Recursions, NEW p \in Predicate, NEW q \in Predicate
    PROVE  /\ Needs(Not(p)) = Needs(p)
           /\ Needs(And(p, q)) = Needs(p) \cup Needs(q)
           /\ Needs(Or(p, q)) = Needs(p) \cup Needs(q)
<1>1. /\ Needs(Not(p)) = NeedsOf(Not(p))
      /\ Needs(And(p, q)) = NeedsOf(And(p, q))
      /\ Needs(Or(p, q)) = NeedsOf(Or(p, q))
    BY PredicateClosed DEF Recursions
<1>2. NeedsOf(Not(p)) = Needs(p)
    BY DEF NeedsOf, IsKeyPredicate, IsStatPredicate, Not
<1>3. NeedsOf(And(p, q)) = Needs(p) \cup Needs(q)
    BY DEF NeedsOf, IsKeyPredicate, IsStatPredicate, And
<1>4. NeedsOf(Or(p, q)) = Needs(p) \cup Needs(q)
    BY DEF NeedsOf, IsKeyPredicate, IsStatPredicate, Or
<1> QED BY <1>1, <1>2, <1>3, <1>4

\* A predicate answers TRUE or FALSE, and looks at nothing but what it needs.
SameTo(p, r, s) ==
    /\ r.key = s.key
    /\ "stat" \in Needs(p) => r.stat = s.stat
    /\ "value" \in Needs(p) => r.value = s.value
LooksOnlyAt(p) ==
    /\ \A r \in Row : Evaluate(p, r) \in BOOLEAN
    /\ \A r, s \in Row : SameTo(p, r, s) => Evaluate(p, r) = Evaluate(p, s)

LEMMA EveryPredicateLooks == Recursions => \A p \in Predicate : LooksOnlyAt(p)
<1> SUFFICES ASSUME Recursions PROVE \A p \in Predicate : LooksOnlyAt(p)
    OBVIOUS
<1> DEFINE T == {p \in Predicate : LooksOnlyAt(p)}
<1>1. Plain \subseteq T
  <2>1. ASSUME NEW p \in Plain PROVE LooksOnlyAt(p)
    <3>1. ASSUME NEW r \in Row PROVE Evaluate(p, r) \in BOOLEAN
      <4>1. CASE p = AlwaysTrue
          BY <4>1, EvaluatePlain
      <4>2. CASE p = KeyPrefix
        <5>1. Evaluate(p, r) = (r.key \in Under)
            BY <4>2, EvaluatePlain
        <5>2. (r.key \in Under) \in BOOLEAN
            OBVIOUS
        <5> QED BY <5>1, <5>2
      <4>3. CASE p = KeyIn
        <5>1. Evaluate(p, r) = (r.key \in Named)
            BY <4>3, EvaluatePlain
        <5>2. (r.key \in Named) \in BOOLEAN
            OBVIOUS
        <5> QED BY <5>1, <5>2
      <4>4. CASE p = ModifiedBefore
        <5>1. Evaluate(p, r) = (r.stat \in {"old", "dead"})
            BY <4>4, EvaluatePlain
        <5>2. (r.stat \in {"old", "dead"}) \in BOOLEAN
            OBVIOUS
        <5> QED BY <5>1, <5>2
      <4>5. CASE p = Expired
        <5>1. Evaluate(p, r) = (r.stat = "dead")
            BY <4>5, EvaluatePlain
        <5>2. (r.stat = "dead") \in BOOLEAN
            OBVIOUS
        <5> QED BY <5>1, <5>2
      <4>6. CASE p = ValueWhere
        <5>1. Evaluate(p, r) = (r.value = Good)
            BY <4>6, EvaluatePlain
        <5>2. (r.value = Good) \in BOOLEAN
            OBVIOUS
        <5> QED BY <5>1, <5>2
      <4> QED BY <4>1, <4>2, <4>3, <4>4, <4>5, <4>6 DEF Plain
    <3>2. ASSUME NEW r \in Row, NEW s \in Row, SameTo(p, r, s)
          PROVE  Evaluate(p, r) = Evaluate(p, s)
      <4>1. CASE p = AlwaysTrue
          BY <4>1, EvaluatePlain
      <4>2. CASE p = KeyPrefix
          BY <3>2, <4>2, EvaluatePlain DEF SameTo
      <4>3. CASE p = KeyIn
          BY <3>2, <4>3, EvaluatePlain DEF SameTo
      <4>4. CASE p = ModifiedBefore
        <5>1. r.stat = s.stat
            BY <3>2, <4>4, NeedsPlain DEF SameTo
        <5> QED BY <4>4, <5>1, EvaluatePlain
      <4>5. CASE p = Expired
        <5>1. r.stat = s.stat
            BY <3>2, <4>5, NeedsPlain DEF SameTo
        <5> QED BY <4>5, <5>1, EvaluatePlain
      <4>6. CASE p = ValueWhere
        <5>1. r.value = s.value
            BY <3>2, <4>6, NeedsPlain DEF SameTo
        <5> QED BY <4>6, <5>1, EvaluatePlain
      <4> QED BY <4>1, <4>2, <4>3, <4>4, <4>5, <4>6 DEF Plain
    <3> QED BY <3>1, <3>2 DEF LooksOnlyAt
  <2> QED BY <2>1, PredicateClosed
<1>2. ASSUME NEW p \in Predicate, p \in T PROVE Not(p) \in T
  <2>1. ASSUME NEW r \in Row PROVE Evaluate(Not(p), r) \in BOOLEAN
      BY EvaluateBuilt
  <2>2. ASSUME NEW r \in Row, NEW s \in Row, SameTo(Not(p), r, s)
        PROVE  Evaluate(Not(p), r) = Evaluate(Not(p), s)
    <3>1. SameTo(p, r, s)
        BY <2>2, NeedsBuilt DEF SameTo
    <3>2. Evaluate(p, r) = Evaluate(p, s)
        BY <1>2, <3>1 DEF LooksOnlyAt
    <3> QED BY <3>2, EvaluateBuilt
  <2>3. LooksOnlyAt(Not(p))
      BY <2>1, <2>2 DEF LooksOnlyAt
  <2> QED BY <2>3, PredicateClosed
<1>3. ASSUME NEW p \in Predicate, NEW q \in Predicate, p \in T, q \in T
      PROVE  And(p, q) \in T /\ Or(p, q) \in T
  <2>1. ASSUME NEW r \in Row PROVE Evaluate(And(p, q), r) \in BOOLEAN /\ Evaluate(Or(p, q), r) \in BOOLEAN
      BY EvaluateBuilt
  <2>2. ASSUME NEW r \in Row, NEW s \in Row, SameTo(And(p, q), r, s) \/ SameTo(Or(p, q), r, s)
        PROVE  /\ Evaluate(And(p, q), r) = Evaluate(And(p, q), s)
               /\ Evaluate(Or(p, q), r) = Evaluate(Or(p, q), s)
    <3>1. SameTo(p, r, s) /\ SameTo(q, r, s)
        BY <2>2, NeedsBuilt DEF SameTo
    <3>2. Evaluate(p, r) = Evaluate(p, s) /\ Evaluate(q, r) = Evaluate(q, s)
        BY <1>3, <3>1 DEF LooksOnlyAt
    <3> QED BY <3>2, EvaluateBuilt
  <2>3. LooksOnlyAt(And(p, q)) /\ LooksOnlyAt(Or(p, q))
      BY <2>1, <2>2 DEF LooksOnlyAt
  <2> QED BY <2>3, PredicateClosed
<1> HIDE DEF T
<1>4. Predicate \subseteq T
    BY <1>1, <1>2, <1>3, PredicateInduction
<1> QED BY <1>4 DEF T

\* A predicate about keys alone needs nothing else of a row.
LEMMA KeyOnlyNeeds ==
    Recursions => \A p \in Predicate : IsKeyOnly(p) => Needs(p) \subseteq {"key"}
<1> SUFFICES ASSUME Recursions
             PROVE  \A p \in Predicate : IsKeyOnly(p) => Needs(p) \subseteq {"key"}
    OBVIOUS
<1> DEFINE T == {p \in Predicate : IsKeyOnly(p) => Needs(p) \subseteq {"key"}}
<1>0. \A p \in Predicate : IsKeyOnly(p) = IsKeyOnlyOf(p)
    BY DEF Recursions
<1>1. Plain \subseteq T
  <2>1. ~ IsKeyOnly(ModifiedBefore) /\ ~ IsKeyOnly(Expired) /\ ~ IsKeyOnly(ValueWhere)
    <3>1. \A p \in Plain : IsKeyOnly(p) = IsKeyOnlyOf(p)
        BY <1>0, PredicateClosed
    <3> QED BY <3>1 DEF Plain, IsKeyOnlyOf, IsKeyPredicate, ModifiedBefore, Expired, ValueWhere
  <2> QED BY <2>1, NeedsPlain, PredicateClosed DEF Plain
<1>2. ASSUME NEW p \in Predicate, p \in T PROVE Not(p) \in T
  <2>1. Not(p) \in Predicate
      BY PredicateClosed
  <2>2. IsKeyOnly(Not(p)) => IsKeyOnly(p)
      BY <1>0, <2>1 DEF IsKeyOnlyOf, IsKeyPredicate, Not
  <2> QED BY <1>2, <2>1, <2>2, NeedsBuilt
<1>3. ASSUME NEW p \in Predicate, NEW q \in Predicate, p \in T, q \in T
      PROVE  And(p, q) \in T /\ Or(p, q) \in T
  <2>1. And(p, q) \in Predicate /\ Or(p, q) \in Predicate
      BY PredicateClosed
  <2>2. IsKeyOnly(And(p, q)) => IsKeyOnly(p) /\ IsKeyOnly(q)
      BY <1>0, <2>1 DEF IsKeyOnlyOf, IsKeyPredicate, And
  <2>3. IsKeyOnly(Or(p, q)) => IsKeyOnly(p) /\ IsKeyOnly(q)
      BY <1>0, <2>1 DEF IsKeyOnlyOf, IsKeyPredicate, Or
  <2> QED BY <1>3, <2>1, <2>2, <2>3, NeedsBuilt
<1> HIDE DEF T
<1>4. Predicate \subseteq T
    BY <1>1, <1>2, <1>3, PredicateInduction
<1> QED BY <1>4 DEF T

\* A filter handed to garbage collection selects the expired rows.
LEMMA GcIsExpired ==
    Recursions => \A p \in Predicate : IsGcPredicate(p) =>
        \A row \in Row : Evaluate(p, row) = Evaluate(Expired, row)
<1> SUFFICES ASSUME Recursions
             PROVE  \A p \in Predicate : IsGcPredicate(p) =>
                        \A row \in Row : Evaluate(p, row) = Evaluate(Expired, row)
    OBVIOUS
<1> DEFINE T == {p \in Predicate : IsGcPredicate(p) =>
                    \A row \in Row : Evaluate(p, row) = Evaluate(Expired, row)}
<1>0. \A p \in Predicate : IsGcPredicate(p) = IsGcPredicateOf(p)
    BY DEF Recursions
<1>1. Plain \subseteq T
  <2>1. \A p \in Plain : IsGcPredicate(p) => p = Expired
    <3>1. \A p \in Plain : IsGcPredicate(p) = IsGcPredicateOf(p)
        BY <1>0, PredicateClosed
    <3> QED BY <3>1 DEF Plain, IsGcPredicateOf, AlwaysTrue, KeyPrefix, KeyIn, ModifiedBefore,
                Expired, ValueWhere
  <2> QED BY <2>1, PredicateClosed
<1>2. ASSUME NEW p \in Predicate, p \in T PROVE Not(p) \in T
  <2>1. Not(p) \in Predicate
      BY PredicateClosed
  <2>2. ~ IsGcPredicate(Not(p))
      BY <1>0, <2>1 DEF IsGcPredicateOf, Not
  <2> QED BY <2>1, <2>2
<1>3. ASSUME NEW p \in Predicate, NEW q \in Predicate, p \in T, q \in T
      PROVE  And(p, q) \in T /\ Or(p, q) \in T
  <2>1. And(p, q) \in Predicate /\ Or(p, q) \in Predicate
      BY PredicateClosed
  <2>2. IsGcPredicate(And(p, q)) => IsGcPredicate(p) /\ IsGcPredicate(q)
      BY <1>0, <2>1 DEF IsGcPredicateOf, And
  <2>3. IsGcPredicate(Or(p, q)) => IsGcPredicate(p) /\ IsGcPredicate(q)
      BY <1>0, <2>1 DEF IsGcPredicateOf, Or
  <2>4. ASSUME NEW row \in Row, IsGcPredicate(p), IsGcPredicate(q)
        PROVE  /\ Evaluate(And(p, q), row) = Evaluate(Expired, row)
               /\ Evaluate(Or(p, q), row) = Evaluate(Expired, row)
    <3>1. Evaluate(p, row) = Evaluate(Expired, row) /\ Evaluate(q, row) = Evaluate(Expired, row)
        BY <1>3, <2>4
    <3>2. Evaluate(Expired, row) \in BOOLEAN
        BY EveryPredicateLooks, PredicateClosed DEF LooksOnlyAt, Plain
    <3>3. /\ Evaluate(And(p, q), row) = (Evaluate(p, row) /\ Evaluate(q, row))
          /\ Evaluate(Or(p, q), row) = (Evaluate(p, row) \/ Evaluate(q, row))
        BY EvaluateBuilt
    <3> QED BY <3>1, <3>2, <3>3
  <2> QED BY <2>1, <2>2, <2>3, <2>4
<1> HIDE DEF T
<1>4. Predicate \subseteq T
    BY <1>1, <1>2, <1>3, PredicateInduction
<1> QED BY <1>4 DEF T

\* The conjuncts of a predicate are predicates; a row passes them all exactly
\* when it satisfies the predicate, and one reads the value if the predicate does.
Conjoined(p) ==
    /\ FlattenAnd(p) \subseteq Predicate
    /\ \A row \in Row : Evaluate(p, row) = AllPass(FlattenAnd(p), row)
    /\ "value" \in Needs(p) <=> \E c \in FlattenAnd(p) : "value" \in Needs(c)

LEMMA EveryPredicateConjoined == Recursions => \A p \in Predicate : Conjoined(p)
<1> SUFFICES ASSUME Recursions PROVE \A p \in Predicate : Conjoined(p)
    OBVIOUS
<1> DEFINE T == {p \in Predicate : Conjoined(p)}
<1>0. \A p \in Predicate : FlattenAnd(p) = FlattenAndOf(p)
    BY DEF Recursions
<1>1. ASSUME NEW p \in Predicate, FlattenAnd(p) = {p} PROVE Conjoined(p)
  <2>1. ASSUME NEW row \in Row PROVE Evaluate(p, row) = AllPass(FlattenAnd(p), row)
    <3>1. Evaluate(p, row) \in BOOLEAN
        BY EveryPredicateLooks DEF LooksOnlyAt
    <3>2. AllPass(FlattenAnd(p), row) <=> Evaluate(p, row)
        BY <1>1 DEF AllPass
    <3>3. AllPass(FlattenAnd(p), row) \in BOOLEAN
        BY DEF AllPass
    <3> QED BY <3>1, <3>2, <3>3
  <2> QED BY <1>1, <2>1 DEF Conjoined
<1>2. Plain \subseteq T
  <2>0. \A p \in Plain : FlattenAnd(p) = FlattenAndOf(p) /\ p \in Predicate
      BY <1>0, PredicateClosed
  <2>1. Conjoined(AlwaysTrue)
    <3>1. FlattenAnd(AlwaysTrue) = {}
        BY <2>0 DEF Plain, FlattenAndOf, AlwaysTrue
    <3> QED BY <3>1, EvaluatePlain, NeedsPlain DEF Conjoined, AllPass
  <2>2. \A p \in Plain \ {AlwaysTrue} : FlattenAnd(p) = {p}
      BY <2>0 DEF Plain, FlattenAndOf, AlwaysTrue, KeyPrefix, KeyIn, ModifiedBefore, Expired, ValueWhere
  <2> QED BY <1>1, <2>0, <2>1, <2>2
<1>3. ASSUME NEW p \in Predicate, p \in T PROVE Not(p) \in T
  <2>1. Not(p) \in Predicate
      BY PredicateClosed
  <2>2. FlattenAnd(Not(p)) = {Not(p)}
      BY <1>0, <2>1 DEF FlattenAndOf, Not
  <2> QED BY <1>1, <2>1, <2>2
<1>4. ASSUME NEW p \in Predicate, NEW q \in Predicate, p \in T, q \in T
      PROVE  And(p, q) \in T /\ Or(p, q) \in T
  <2>1. And(p, q) \in Predicate /\ Or(p, q) \in Predicate
      BY PredicateClosed
  <2>2. FlattenAnd(And(p, q)) = FlattenAnd(p) \cup FlattenAnd(q)
      BY <1>0, <2>1 DEF FlattenAndOf, And
  <2>3. FlattenAnd(Or(p, q)) = {Or(p, q)}
      BY <1>0, <2>1 DEF FlattenAndOf, Or
  <2>4. ASSUME NEW row \in Row
        PROVE  Evaluate(And(p, q), row) = AllPass(FlattenAnd(And(p, q)), row)
    <3>1. Evaluate(p, row) = AllPass(FlattenAnd(p), row) /\ Evaluate(q, row) = AllPass(FlattenAnd(q), row)
        BY <1>4 DEF Conjoined
    <3>2. AllPass(FlattenAnd(And(p, q)), row) = (AllPass(FlattenAnd(p), row) /\ AllPass(FlattenAnd(q), row))
        BY <2>2 DEF AllPass
    <3> QED BY <3>1, <3>2, EvaluateBuilt
  <2>5. Conjoined(And(p, q))
    <3>1. FlattenAnd(And(p, q)) \subseteq Predicate
        BY <1>4, <2>2 DEF Conjoined
    <3>2. "value" \in Needs(And(p, q)) <=> \E c \in FlattenAnd(And(p, q)) : "value" \in Needs(c)
        BY <1>4, <2>2, NeedsBuilt DEF Conjoined
    <3> QED BY <2>4, <3>1, <3>2 DEF Conjoined
  <2> QED BY <1>1, <2>1, <2>3, <2>5
<1> HIDE DEF T
<1>5. Predicate \subseteq T
    BY <1>2, <1>3, <1>4, PredicateInduction
<1> QED BY <1>5 DEF T

\* A predicate is what its peeled prefix and the residual say together.
Peels(p) ==
    LET peeled == PeelKeyPrefix(p)
    IN /\ peeled.prefix \in BOOLEAN /\ peeled.residual \in Predicate
       /\ Needs(peeled.residual) \subseteq Needs(p)
       /\ \A row \in Row :
            Evaluate(p, row) = ((peeled.prefix => row.key \in Under) /\ Evaluate(peeled.residual, row))

LEMMA EveryPredicatePeels == Recursions => \A p \in Predicate : Peels(p)
<1> SUFFICES ASSUME Recursions PROVE \A p \in Predicate : Peels(p)
    OBVIOUS
<1> DEFINE T == {p \in Predicate : Peels(p)}
<1>0. \A p \in Predicate : PeelKeyPrefix(p) = PeelKeyPrefixOf(p)
    BY DEF Recursions
<1>b. \A p \in Predicate, row \in Row : Evaluate(p, row) \in BOOLEAN
    BY EveryPredicateLooks DEF LooksOnlyAt
<1>1. ASSUME NEW p \in Predicate, PeelKeyPrefix(p) = [prefix |-> FALSE, residual |-> p] PROVE Peels(p)
  <2>1. PeelKeyPrefix(p).prefix = FALSE /\ PeelKeyPrefix(p).residual = p
      BY <1>1
  <2> QED BY <1>b, <2>1 DEF Peels
<1>2. Plain \subseteq T
  <2>0. \A p \in Plain : PeelKeyPrefix(p) = PeelKeyPrefixOf(p) /\ p \in Predicate
      BY <1>0, PredicateClosed
  <2>1. Peels(KeyPrefix)
    <3>1. PeelKeyPrefix(KeyPrefix) = [prefix |-> TRUE, residual |-> AlwaysTrue]
        BY <2>0 DEF Plain, PeelKeyPrefixOf, KeyPrefix
    <3>2. PeelKeyPrefix(KeyPrefix).prefix = TRUE /\ PeelKeyPrefix(KeyPrefix).residual = AlwaysTrue
        BY <3>1
    <3>3. AlwaysTrue \in Predicate /\ Needs(AlwaysTrue) \subseteq Needs(KeyPrefix)
        BY <2>0, NeedsPlain DEF Plain
    <3>4. ASSUME NEW row \in Row
          PROVE  Evaluate(KeyPrefix, row) = (row.key \in Under /\ Evaluate(AlwaysTrue, row))
      <4>1. Evaluate(KeyPrefix, row) = (row.key \in Under) /\ Evaluate(AlwaysTrue, row) = TRUE
          BY EvaluatePlain
      <4> QED BY <4>1
    <3> QED BY <3>2, <3>3, <3>4 DEF Peels
  <2>2. \A p \in Plain \ {KeyPrefix} : PeelKeyPrefix(p) = [prefix |-> FALSE, residual |-> p]
      BY <2>0 DEF Plain, PeelKeyPrefixOf, AlwaysTrue, KeyPrefix, KeyIn, ModifiedBefore, Expired, ValueWhere
  <2> QED BY <1>1, <2>0, <2>1, <2>2
<1>3. ASSUME NEW p \in Predicate, p \in T PROVE Not(p) \in T
  <2>1. Not(p) \in Predicate
      BY PredicateClosed
  <2>2. PeelKeyPrefix(Not(p)) = [prefix |-> FALSE, residual |-> Not(p)]
      BY <1>0, <2>1 DEF PeelKeyPrefixOf, Not
  <2> QED BY <1>1, <2>1, <2>2
<1>4. ASSUME NEW p \in Predicate, NEW q \in Predicate, p \in T, q \in T
      PROVE  And(p, q) \in T /\ Or(p, q) \in T
  <2>1. And(p, q) \in Predicate /\ Or(p, q) \in Predicate
      BY PredicateClosed
  <2>2. PeelKeyPrefix(Or(p, q)) = [prefix |-> FALSE, residual |-> Or(p, q)]
      BY <1>0, <2>1 DEF PeelKeyPrefixOf, Or
  <2> DEFINE l == PeelKeyPrefix(p)
             r == PeelKeyPrefix(q)
             m == PeelKeyPrefix(And(p, q))
  <2>3. m = PeelKeyPrefixOf(And(p, q))
      BY <1>0, <2>1
  <2>4. And(p, q).op = "and" /\ And(p, q).left = p /\ And(p, q).right = q
      BY DEF And
  <2>5. Peels(p) /\ Peels(q)
      BY <1>4
  <2>6. Peels(And(p, q))
    <3>1. CASE l.prefix
      <4>0. l.prefix = TRUE
          BY <2>5, <3>1 DEF Peels
      <4>1. m = [prefix |-> TRUE,
                 residual |-> IF l.residual = AlwaysTrue THEN q ELSE And(l.residual, q)]
          BY <2>3, <2>4, <3>1 DEF PeelKeyPrefixOf
      <4>2. m.prefix = TRUE
            /\ m.residual = IF l.residual = AlwaysTrue THEN q ELSE And(l.residual, q)
          BY <4>1
      <4>3. m.residual \in Predicate
          BY <2>5, <4>2, PredicateClosed DEF Peels
      <4>4. Needs(m.residual) \subseteq Needs(And(p, q))
        <5>1. CASE l.residual = AlwaysTrue
            BY <4>2, <5>1, NeedsBuilt
        <5>2. CASE l.residual # AlwaysTrue
          <6>1. Needs(m.residual) = Needs(l.residual) \cup Needs(q)
              BY <2>5, <4>2, <5>2, NeedsBuilt DEF Peels
          <6> QED BY <2>5, <6>1, NeedsBuilt DEF Peels
        <5> QED BY <5>1, <5>2
      <4>5. ASSUME NEW row \in Row
            PROVE  Evaluate(And(p, q), row) = (row.key \in Under /\ Evaluate(m.residual, row))
        <5>1. Evaluate(p, row) = (row.key \in Under /\ Evaluate(l.residual, row))
            BY <2>5, <4>0 DEF Peels
        <5>2. Evaluate(And(p, q), row) = (Evaluate(p, row) /\ Evaluate(q, row))
            BY EvaluateBuilt
        <5>3. Evaluate(m.residual, row) = (Evaluate(l.residual, row) /\ Evaluate(q, row))
          <6>1. CASE l.residual = AlwaysTrue
            <7>1. Evaluate(l.residual, row) = TRUE
                BY <6>1, EvaluatePlain
            <7>2. m.residual = q /\ Evaluate(q, row) \in BOOLEAN
                BY <1>b, <4>2, <6>1
            <7> QED BY <7>1, <7>2
          <6>2. CASE l.residual # AlwaysTrue
            <7>1. m.residual = And(l.residual, q) /\ l.residual \in Predicate
                BY <2>5, <4>2, <6>2 DEF Peels
            <7> QED BY <7>1, EvaluateBuilt
          <6> QED BY <6>1, <6>2
        <5> QED BY <5>1, <5>2, <5>3
      <4> QED BY <4>2, <4>3, <4>4, <4>5 DEF Peels
    <3>2. CASE ~ l.prefix /\ r.prefix
      <4>0. l.prefix = FALSE /\ r.prefix = TRUE
          BY <2>5, <3>2 DEF Peels
      <4>1. m = [prefix |-> TRUE,
                 residual |-> IF r.residual = AlwaysTrue THEN p ELSE And(p, r.residual)]
          BY <2>3, <2>4, <3>2 DEF PeelKeyPrefixOf
      <4>2. m.prefix = TRUE
            /\ m.residual = IF r.residual = AlwaysTrue THEN p ELSE And(p, r.residual)
          BY <4>1
      <4>3. m.residual \in Predicate
          BY <2>5, <4>2, PredicateClosed DEF Peels
      <4>4. Needs(m.residual) \subseteq Needs(And(p, q))
        <5>1. CASE r.residual = AlwaysTrue
            BY <4>2, <5>1, NeedsBuilt
        <5>2. CASE r.residual # AlwaysTrue
          <6>1. Needs(m.residual) = Needs(p) \cup Needs(r.residual)
              BY <2>5, <4>2, <5>2, NeedsBuilt DEF Peels
          <6> QED BY <2>5, <6>1, NeedsBuilt DEF Peels
        <5> QED BY <5>1, <5>2
      <4>5. ASSUME NEW row \in Row
            PROVE  Evaluate(And(p, q), row) = (row.key \in Under /\ Evaluate(m.residual, row))
        <5>1. Evaluate(q, row) = (row.key \in Under /\ Evaluate(r.residual, row))
            BY <2>5, <4>0 DEF Peels
        <5>2. Evaluate(And(p, q), row) = (Evaluate(p, row) /\ Evaluate(q, row))
            BY EvaluateBuilt
        <5>3. Evaluate(m.residual, row) = (Evaluate(p, row) /\ Evaluate(r.residual, row))
          <6>1. CASE r.residual = AlwaysTrue
            <7>1. Evaluate(r.residual, row) = TRUE
                BY <6>1, EvaluatePlain
            <7>2. m.residual = p /\ Evaluate(p, row) \in BOOLEAN
                BY <1>b, <4>2, <6>1
            <7> QED BY <7>1, <7>2
          <6>2. CASE r.residual # AlwaysTrue
            <7>1. m.residual = And(p, r.residual) /\ r.residual \in Predicate
                BY <2>5, <4>2, <6>2 DEF Peels
            <7> QED BY <7>1, EvaluateBuilt
          <6> QED BY <6>1, <6>2
        <5> QED BY <5>1, <5>2, <5>3
      <4> QED BY <4>2, <4>3, <4>4, <4>5 DEF Peels
    <3>3. CASE ~ l.prefix /\ ~ r.prefix
      <4>1. m = [prefix |-> FALSE, residual |-> And(p, q)]
          BY <2>3, <2>4, <3>3 DEF PeelKeyPrefixOf
      <4> QED BY <1>1, <2>1, <4>1
    <3> QED BY <3>1, <3>2, <3>3
  <2> QED BY <1>1, <2>1, <2>2, <2>6
<1> HIDE DEF T
<1>5. Predicate \subseteq T
    BY <1>2, <1>3, <1>4, PredicateInduction
<1> QED BY <1>5 DEF T

\* A predicate is what its part about keys and the residual say together, and
\* the first needs nothing but the key.
Halves(p, s) ==
    /\ s.keys \in Predicate /\ s.residual \in Predicate
    /\ Needs(s.keys) \subseteq {"key"}
    /\ \A row \in Row : Evaluate(p, row) = (Evaluate(s.keys, row) /\ Evaluate(s.residual, row))

LEMMA AndUnlessTrueMeansAnd ==
    ASSUME Recursions, NEW p \in Predicate, NEW q \in Predicate
    PROVE  /\ AndUnlessTrue(p, q) \in Predicate
           /\ Needs(AndUnlessTrue(p, q)) \subseteq Needs(p) \cup Needs(q)
           /\ \A row \in Row :
                Evaluate(AndUnlessTrue(p, q), row) = (Evaluate(p, row) /\ Evaluate(q, row))
<1> DEFINE a == AndUnlessTrue(p, q)
<1>b. \A c \in Predicate, row \in Row : Evaluate(c, row) \in BOOLEAN
    BY EveryPredicateLooks DEF LooksOnlyAt
<1>1. CASE p = AlwaysTrue
  <2>1. a = q
      BY <1>1 DEF AndUnlessTrue
  <2>2. ASSUME NEW row \in Row PROVE Evaluate(a, row) = (Evaluate(p, row) /\ Evaluate(q, row))
    <3>1. Evaluate(p, row) = TRUE /\ Evaluate(q, row) \in BOOLEAN
        BY <1>1, <1>b, EvaluatePlain
    <3> QED BY <2>1, <3>1
  <2> QED BY <2>1, <2>2
<1>2. CASE p # AlwaysTrue /\ q = AlwaysTrue
  <2>1. a = p
      BY <1>2 DEF AndUnlessTrue
  <2>2. ASSUME NEW row \in Row PROVE Evaluate(a, row) = (Evaluate(p, row) /\ Evaluate(q, row))
    <3>1. Evaluate(q, row) = TRUE /\ Evaluate(p, row) \in BOOLEAN
        BY <1>2, <1>b, EvaluatePlain
    <3> QED BY <2>1, <3>1
  <2> QED BY <2>1, <2>2
<1>3. CASE p # AlwaysTrue /\ q # AlwaysTrue
  <2>1. a = And(p, q)
      BY <1>3 DEF AndUnlessTrue
  <2>2. ASSUME NEW row \in Row PROVE Evaluate(a, row) = (Evaluate(p, row) /\ Evaluate(q, row))
      BY <2>1, EvaluateBuilt
  <2>3. Needs(a) = Needs(p) \cup Needs(q) /\ a \in Predicate
      BY <2>1, NeedsBuilt, PredicateClosed
  <2> QED BY <2>2, <2>3
<1> QED BY <1>1, <1>2, <1>3

LEMMA EveryPredicateSplits == Recursions => \A p \in Predicate : Halves(p, SplitKeyPredicates(p))
<1> SUFFICES ASSUME Recursions PROVE \A p \in Predicate : Halves(p, SplitKeyPredicates(p))
    OBVIOUS
<1> DEFINE Split(p) == SplitKeyPredicates(p)
           T == {p \in Predicate : Halves(p, Split(p))}
<1>0. \A p \in Predicate : Split(p) = SplitKeyPredicatesOf(p)
    BY DEF Recursions
<1>b. \A p \in Predicate, row \in Row : Evaluate(p, row) \in BOOLEAN
    BY EveryPredicateLooks DEF LooksOnlyAt
<1>t. AlwaysTrue \in Predicate /\ Needs(AlwaysTrue) = {}
      /\ \A row \in Row : Evaluate(AlwaysTrue, row) = TRUE
  <2>1. AlwaysTrue \in Predicate
      BY PredicateClosed DEF Plain
  <2> QED BY <2>1, NeedsPlain, EvaluatePlain
<1>1. ASSUME NEW p \in Predicate, Needs(p) \subseteq {"key"}
      PROVE  Halves(p, [keys |-> p, residual |-> AlwaysTrue])
  <2>1. ASSUME NEW row \in Row
        PROVE  Evaluate(p, row) = (Evaluate(p, row) /\ Evaluate(AlwaysTrue, row))
      BY <1>b, <1>t
  <2> QED BY <1>1, <1>t, <2>1 DEF Halves
<1>2. ASSUME NEW p \in Predicate
      PROVE  Halves(p, [keys |-> AlwaysTrue, residual |-> p])
  <2>1. ASSUME NEW row \in Row
        PROVE  Evaluate(p, row) = (Evaluate(AlwaysTrue, row) /\ Evaluate(p, row))
      BY <1>b, <1>t
  <2> QED BY <1>t, <2>1 DEF Halves
<1>3. Plain \subseteq T
  <2>0. \A p \in Plain : Split(p) = SplitKeyPredicatesOf(p) /\ p \in Predicate
      BY <1>0, PredicateClosed
  <2>1. ASSUME NEW p \in {AlwaysTrue, KeyPrefix, KeyIn} PROVE p \in T
    <3>1. p \in Plain /\ Needs(p) \subseteq {"key"}
        BY NeedsPlain DEF Plain
    <3>2. Split(p) = [keys |-> p, residual |-> AlwaysTrue]
      <4>1. CASE p = AlwaysTrue
          BY <2>0, <3>1, <4>1 DEF SplitKeyPredicatesOf, AlwaysTrue
      <4>2. CASE p \in {KeyPrefix, KeyIn}
        <5>1. p.op \in {"prefix", "keyin"} /\ Split(p) = SplitKeyPredicatesOf(p)
            BY <2>0, <3>1, <4>2 DEF KeyPrefix, KeyIn
        <5> QED BY <5>1 DEF SplitKeyPredicatesOf, IsKeyPredicate, IsStatPredicate
      <4> QED BY <4>1, <4>2
    <3> QED BY <1>1, <2>0, <3>1, <3>2
  <2>2. ASSUME NEW p \in {ModifiedBefore, Expired, ValueWhere} PROVE p \in T
    <3>1. p \in Plain
        BY DEF Plain
    <3>2. Split(p) = [keys |-> AlwaysTrue, residual |-> p]
        BY <2>0, <3>1 DEF SplitKeyPredicatesOf, IsKeyPredicate, IsStatPredicate, ModifiedBefore,
                          Expired, ValueWhere
    <3> QED BY <1>2, <2>0, <3>1, <3>2
  <2> QED BY <2>1, <2>2 DEF Plain
<1>4. ASSUME NEW p \in Predicate, p \in T PROVE Not(p) \in T
  <2> DEFINE s == Split(p)
             m == Split(Not(p))
  <2>1. Not(p) \in Predicate
      BY PredicateClosed
  <2>2. m = SplitKeyPredicatesOf(Not(p)) /\ Not(p).op = "not" /\ Not(p).inner = p
      BY <1>0, <2>1 DEF Not
  <2>3. Halves(p, s)
      BY <1>4
  <2>4. CASE s.residual = AlwaysTrue /\ s.keys # AlwaysTrue
    <3>1. m = [keys |-> Not(s.keys), residual |-> AlwaysTrue]
        BY <2>2, <2>4 DEF SplitKeyPredicatesOf, IsKeyPredicate, IsStatPredicate
    <3>2. s.keys \in Predicate /\ Not(s.keys) \in Predicate /\ Needs(Not(s.keys)) \subseteq {"key"}
        BY <2>3, PredicateClosed, NeedsBuilt DEF Halves
    <3>3. ASSUME NEW row \in Row
          PROVE  Evaluate(Not(p), row) = (Evaluate(Not(s.keys), row) /\ Evaluate(AlwaysTrue, row))
      <4>1. Evaluate(p, row) = (Evaluate(s.keys, row) /\ TRUE)
          BY <1>t, <2>3, <2>4 DEF Halves
      <4>2. Evaluate(s.keys, row) \in BOOLEAN
          BY <1>b, <3>2
      <4>3. Evaluate(Not(p), row) = ~ Evaluate(p, row)
            /\ Evaluate(Not(s.keys), row) = ~ Evaluate(s.keys, row)
          BY <3>2, EvaluateBuilt
      <4> QED BY <1>t, <4>1, <4>2, <4>3
    <3>4. Halves(Not(p), m)
        BY <1>t, <3>1, <3>2, <3>3 DEF Halves
    <3> QED BY <2>1, <3>4
  <2>5. CASE s.keys = AlwaysTrue /\ s.residual # AlwaysTrue
    <3>1. m = [keys |-> AlwaysTrue, residual |-> Not(s.residual)]
        BY <2>2, <2>5 DEF SplitKeyPredicatesOf, IsKeyPredicate, IsStatPredicate
    <3>2. s.residual \in Predicate /\ Not(s.residual) \in Predicate
        BY <2>3, PredicateClosed DEF Halves
    <3>3. ASSUME NEW row \in Row
          PROVE  Evaluate(Not(p), row) = (Evaluate(AlwaysTrue, row) /\ Evaluate(Not(s.residual), row))
      <4>1. Evaluate(p, row) = (TRUE /\ Evaluate(s.residual, row))
          BY <1>t, <2>3, <2>5 DEF Halves
      <4>2. Evaluate(s.residual, row) \in BOOLEAN
          BY <1>b, <3>2
      <4>3. Evaluate(Not(p), row) = ~ Evaluate(p, row)
            /\ Evaluate(Not(s.residual), row) = ~ Evaluate(s.residual, row)
          BY <3>2, EvaluateBuilt
      <4> QED BY <1>t, <4>1, <4>2, <4>3
    <3>4. Halves(Not(p), m)
        BY <1>t, <3>1, <3>2, <3>3 DEF Halves
    <3> QED BY <2>1, <3>4
  <2>6. CASE ~ (s.residual = AlwaysTrue /\ s.keys # AlwaysTrue)
             /\ ~ (s.keys = AlwaysTrue /\ s.residual # AlwaysTrue)
    <3>1. m = [keys |-> AlwaysTrue, residual |-> Not(p)]
        BY <2>2, <2>6 DEF SplitKeyPredicatesOf, IsKeyPredicate, IsStatPredicate
    <3> QED BY <1>2, <2>1, <3>1
  <2> QED BY <2>4, <2>5, <2>6
<1>5. ASSUME NEW p \in Predicate, NEW q \in Predicate, p \in T, q \in T
      PROVE  And(p, q) \in T /\ Or(p, q) \in T
  <2> DEFINE l == Split(p)
             r == Split(q)
             m == Split(And(p, q))
             o == Split(Or(p, q))
  <2>1. And(p, q) \in Predicate /\ Or(p, q) \in Predicate
      BY PredicateClosed
  <2>2. m = SplitKeyPredicatesOf(And(p, q)) /\ o = SplitKeyPredicatesOf(Or(p, q))
      BY <1>0, <2>1
  <2>3. Halves(p, l) /\ Halves(q, r)
      BY <1>5
  <2>4. m = [keys |-> AndUnlessTrue(l.keys, r.keys), residual |-> AndUnlessTrue(l.residual, r.residual)]
      BY <2>2 DEF SplitKeyPredicatesOf, IsKeyPredicate, IsStatPredicate, And
  <2>5. Halves(And(p, q), m)
    <3>1. l.keys \in Predicate /\ r.keys \in Predicate /\ l.residual \in Predicate /\ r.residual \in Predicate
          /\ Needs(l.keys) \subseteq {"key"} /\ Needs(r.keys) \subseteq {"key"}
        BY <2>3 DEF Halves
    <3>2. m.keys = AndUnlessTrue(l.keys, r.keys) /\ m.residual = AndUnlessTrue(l.residual, r.residual)
        BY <2>4
    <3>3. /\ m.keys \in Predicate /\ m.residual \in Predicate
          /\ Needs(m.keys) \subseteq Needs(l.keys) \cup Needs(r.keys)
        BY <3>1, <3>2, AndUnlessTrueMeansAnd
    <3>4. ASSUME NEW row \in Row
          PROVE  Evaluate(And(p, q), row) = (Evaluate(m.keys, row) /\ Evaluate(m.residual, row))
      <4>1. /\ Evaluate(p, row) = (Evaluate(l.keys, row) /\ Evaluate(l.residual, row))
            /\ Evaluate(q, row) = (Evaluate(r.keys, row) /\ Evaluate(r.residual, row))
          BY <2>3 DEF Halves
      <4>2. /\ Evaluate(m.keys, row) = (Evaluate(l.keys, row) /\ Evaluate(r.keys, row))
            /\ Evaluate(m.residual, row) = (Evaluate(l.residual, row) /\ Evaluate(r.residual, row))
          BY <3>1, <3>2, AndUnlessTrueMeansAnd
      <4>3. Evaluate(And(p, q), row) = (Evaluate(p, row) /\ Evaluate(q, row))
          BY EvaluateBuilt
      <4> QED BY <4>1, <4>2, <4>3
    <3> QED BY <3>1, <3>3, <3>4 DEF Halves
  <2>6. Halves(Or(p, q), o)
    <3>1. CASE IsKeyOnly(Or(p, q))
      <4>1. o = [keys |-> Or(p, q), residual |-> AlwaysTrue]
          BY <2>2, <3>1 DEF SplitKeyPredicatesOf, IsKeyPredicate, IsStatPredicate, Or
      <4>2. Needs(Or(p, q)) \subseteq {"key"}
          BY <2>1, <3>1, KeyOnlyNeeds
      <4> QED BY <1>1, <2>1, <4>1, <4>2
    <3>2. CASE ~ IsKeyOnly(Or(p, q))
      <4>1. o = [keys |-> AlwaysTrue, residual |-> Or(p, q)]
          BY <2>2, <3>2 DEF SplitKeyPredicatesOf, IsKeyPredicate, IsStatPredicate, Or
      <4> QED BY <1>2, <2>1, <4>1
    <3> QED BY <3>1, <3>2
  <2> QED BY <2>1, <2>5, <2>6
<1> HIDE DEF T
<1>6. Predicate \subseteq T
    BY <1>3, <1>4, <1>5, PredicateInduction
<1> QED BY <1>6 DEF T

-----------------------------------------------------------------------------
(***************************************************************************)
(* Steps.  What each step of a scan changes, field by field.               *)
(***************************************************************************)

\* What no step of a scan changes, where the listing is, what the leaf gave and
\* what the caller's side holds.
Same ==
    /\ data' = data /\ old' = old /\ store' = store /\ listed' = listed /\ touched' = touched
    /\ writes' = writes /\ resumes' = resumes
    /\ scan'.spec = scan.spec /\ scan'.plan = scan.plan /\ scan'.cursor = scan.cursor
SamePlace ==
    /\ scan'.part = scan.part /\ scan'.at = scan.at /\ scan'.snapshot = scan.snapshot
    /\ scan'.relisted = scan.relisted
SameSource ==
    /\ scan'.started = scan.started /\ scan'.ended = scan.ended /\ scan'.page = scan.page
    /\ scan'.given = scan.given /\ scan'.passed = scan.passed /\ scan'.seen = scan.seen
SameCascade ==
    /\ scan'.batch = scan.batch /\ scan'.confirmed = scan.confirmed /\ scan'.ready = scan.ready
    /\ scan'.pending = scan.pending /\ scan'.filled = scan.filled /\ scan'.out = scan.out

LEMMA PlanSame == store' = store /\ scan'.spec = scan.spec => PlanOf' = PlanOf
BY ZenonT(60) DEF PlanOf, CompileScan, Down, ScanValuesThrough, ScanRekeyed, PartKeySpec, OrderedLimit,
             KeysetLimit, NeedsValues

LEMMA OrderSame == scan'.spec = scan.spec => Order' = Order
BY DEF Order

LEMMA OrderTypes ==
    ASSUME Underway
    PROVE  /\ Order \in Seq(Key) /\ Len(Order) \in Nat /\ DOMAIN Order = 1 .. Len(Order)
           /\ \A k \in Key : \E i \in DOMAIN Order : Order[i] = k
           /\ \A i, j \in DOMAIN Order : Order[i] = Order[j] => i = j
<1>1. Order \in {Listing, ByColumn}
    BY DEF Order
<1> QED BY <1>1, OrderAssumption

LEMMA TypedFields == ScanTypes /\ Underway => Typed
BY OrderTypes DEF ScanTypes, Underway, Typed, PlanOf, Parts

LEMMA EndEffect ==
    ASSUME ScanTypes, End
    PROVE  Same /\ SamePlace /\ SameSource /\ SameCascade /\ scan'.step = "done"
BY DEF ScanTypes, End, Same, SamePlace, SameSource, SameCascade

LEMMA ConfirmEffect ==
    ASSUME ScanTypes, Confirm
    PROVE  /\ Same /\ SamePlace /\ SameSource /\ scan'.step = "listing"
           /\ scan'.ready = scan.ready /\ scan'.pending = scan.pending
           /\ scan'.filled = scan.filled /\ scan'.out = scan.out
           /\ scan'.confirmed = TRUE
           /\ scan'.batch = [i \in DOMAIN scan.batch |->
                 [scan.batch[i] EXCEPT !.value = BatchGet(data, scan.batch[i].key)]]
BY DEF ScanTypes, Confirm, Same, SamePlace, SameSource

LEMMA FlushEffect ==
    ASSUME ScanTypes, Flush
    PROVE  /\ Same /\ SamePlace /\ SameSource
           /\ scan'.batch = scan.batch /\ scan'.confirmed = scan.confirmed
           /\ scan'.ready = scan.ready /\ scan'.out = scan.out
           /\ \/ /\ \E i, j \in DOMAIN scan.pending :
                      i # j /\ scan.pending[i].key = scan.pending[j].key
                 /\ scan'.step = "failed" /\ scan'.pending = scan.pending
                 /\ scan'.filled = scan.filled
              \/ /\ scan'.step = "listing" /\ scan'.filled = TRUE
                 /\ scan'.pending = [i \in DOMAIN scan.pending |->
                      [scan.pending[i] EXCEPT !.value = BatchGet(data, scan.pending[i].key)]]
BY DEF ScanTypes, Flush, Same, SamePlace, SameSource

LEMMA BringEffect ==
    ASSUME ScanTypes, Bring
    PROVE  /\ Same /\ SamePlace /\ SameSource /\ scan'.step = "listing"
           /\ scan'.pending = scan.pending /\ scan'.filled = scan.filled /\ scan'.out = scan.out
           /\ scan'.batch = Tail(scan.batch) /\ scan'.confirmed = (Len(scan.batch) > 1)
           /\ \/ /\ store.view # "through" /\ Head(scan.batch).value = None
                 /\ scan'.ready = scan.ready
              \/ /\ store.view = "through" \/ Head(scan.batch).value # None
                 /\ scan'.ready = <<[Head(scan.batch) EXCEPT
                      !.value = IF NeedsValues(scan.spec, scan.plan.residual) THEN @ ELSE None]>>
BY DEF ScanTypes, Bring, Same, SamePlace, SameSource

LEMMA TakeEffect ==
    ASSUME ScanTypes, Take
    PROVE  LET row == Head(scan.ready)
               need == PartitionByNeeds(scan.plan.residual)
           IN /\ Same /\ SamePlace /\ SameSource
              /\ scan'.batch = scan.batch /\ scan'.confirmed = scan.confirmed
              /\ scan'.filled = scan.filled
              /\ \/ /\ LimitReached /\ scan'.step = "done" /\ scan'.ready = scan.ready
                    /\ scan'.pending = scan.pending /\ scan'.out = scan.out
                 \/ /\ ~ LimitReached /\ scan'.step = "listing" /\ scan'.ready = <<>>
                    /\ \/ /\ \/ ~ AllPass(need.key, row) \/ ~ AllPass(need.stat, row)
                             \/ (~ ReadsValues \/ row.value # None) /\ ~ Accepted(row)
                          /\ scan'.pending = scan.pending /\ scan'.out = scan.out
                       \/ /\ AllPass(need.key, row) /\ AllPass(need.stat, row)
                          /\ ReadsValues /\ row.value = None
                          /\ scan'.pending = Append(scan.pending, row) /\ scan'.out = scan.out
                       \/ /\ AllPass(need.key, row) /\ AllPass(need.stat, row)
                          /\ ~ ReadsValues \/ row.value # None
                          /\ Accepted(row)
                          /\ scan'.pending = scan.pending
                          /\ scan'.out = Append(scan.out, ProjectRow(row, scan.spec.project))
BY DEF ScanTypes, Take, Same, SamePlace, SameSource

LEMMA YieldEffect ==
    ASSUME ScanTypes, Yield
    PROVE  LET row == Head(scan.pending)
           IN /\ Same /\ SamePlace /\ SameSource
              /\ scan'.batch = scan.batch /\ scan'.confirmed = scan.confirmed
              /\ scan'.ready = scan.ready
              /\ scan'.pending = Tail(scan.pending) /\ scan'.filled = (Len(scan.pending) > 1)
              /\ \/ /\ row.value = None \/ ~ Accepted(row)
                    /\ scan'.step = "listing" /\ scan'.out = scan.out
                 \/ /\ row.value # None /\ Accepted(row)
                    /\ scan'.step = IF Reached(Len(scan.out) + 1, scan.spec.limit)
                                    THEN "done" ELSE "listing"
                    /\ scan'.out = Append(scan.out, ProjectRow(row, scan.spec.project))
BY DEF ScanTypes, Yield, Same, SamePlace, SameSource

\* What the leaf is left with when it has given its next row.
Rest ==
    LET full == Reached(scan.given + 1, scan.plan.limit)
    IN /\ scan'.page = (IF full THEN <<>> ELSE Tail(scan.page))
       /\ scan'.ended = (scan.ended \/ full)
       /\ scan'.given = scan.given + 1

LEMMA ListEffect ==
    ASSUME ScanTypes, List
    PROVE  LET row == Head(scan.page)
           IN /\ Same /\ SamePlace /\ scan'.step = "listing"
              /\ scan'.confirmed = scan.confirmed /\ scan'.pending = scan.pending
              /\ scan'.filled = scan.filled /\ scan'.out = scan.out
              /\ \/ /\ ~ scan.started /\ Rest /\ scan'.started = (row.key = scan.cursor)
                    /\ scan'.passed = scan.passed /\ scan'.seen = scan.seen
                    /\ scan'.batch = scan.batch /\ scan'.ready = scan.ready
                 \/ /\ scan.started /\ store.view = "leaf" /\ Rest /\ scan'.started
                    /\ scan'.passed = scan.passed /\ scan'.seen = scan.seen
                    /\ scan'.batch = scan.batch /\ scan'.ready = <<row>>
                 \/ /\ scan.started /\ store.view # "leaf"
                    /\ Reached(scan.passed, scan.plan.innerLimit)
                    /\ scan'.started /\ scan'.given = scan.given
                    /\ scan'.page = <<>> /\ scan'.ended = TRUE
                    /\ scan'.passed = scan.passed /\ scan'.seen = scan.seen
                    /\ scan'.batch = scan.batch /\ scan'.ready = scan.ready
                 \/ /\ scan.started /\ store.view # "leaf"
                    /\ ~ Reached(scan.passed, scan.plan.innerLimit)
                    /\ scan'.started /\ Rest
                    /\ ~ Evaluate(scan.plan.inner, row) \/ row.key \in scan.seen
                    /\ scan'.passed = scan.passed /\ scan'.seen = scan.seen
                    /\ scan'.batch = scan.batch /\ scan'.ready = scan.ready
                 \/ /\ scan.started /\ store.view # "leaf"
                    /\ ~ Reached(scan.passed, scan.plan.innerLimit)
                    /\ scan'.started /\ Rest
                    /\ Evaluate(scan.plan.inner, row) /\ row.key \notin scan.seen
                    /\ scan'.passed = scan.passed + 1
                    /\ scan'.seen = (IF store.view \in {"commit", "union"}
                                     THEN scan.seen \cup {row.key} ELSE scan.seen)
                    /\ scan'.batch = (IF Batched THEN Append(scan.batch, ViewRow(row)) ELSE scan.batch)
                    /\ scan'.ready = (IF Batched THEN scan.ready ELSE <<ViewRow(row)>>)
<1> DEFINE row == Head(scan.page)
           full == Reached(scan.given + 1, scan.plan.limit)
           rest == [scan EXCEPT !.page = IF full THEN <<>> ELSE Tail(@),
                                !.given = @ + 1, !.ended = @ \/ full]
           put == [rest EXCEPT
                     !.passed = @ + 1,
                     !.seen = IF store.view \in {"commit", "union"} THEN @ \cup {row.key} ELSE @,
                     !.batch = IF Batched THEN Append(@, ViewRow(row)) ELSE @,
                     !.ready = IF Batched THEN @ ELSE <<ViewRow(row)>>]
           Fields(s) ==
               /\ s.spec = scan.spec /\ s.plan = scan.plan /\ s.cursor = scan.cursor
               /\ s.part = scan.part /\ s.at = scan.at /\ s.snapshot = scan.snapshot
               /\ s.relisted = scan.relisted /\ s.step = "listing"
               /\ s.confirmed = scan.confirmed /\ s.pending = scan.pending
               /\ s.filled = scan.filled /\ s.out = scan.out
           Left(s) ==
               /\ s.page = (IF full THEN <<>> ELSE Tail(scan.page))
               /\ s.ended = (scan.ended \/ full) /\ s.given = scan.given + 1
           Held(s) ==
               /\ s.passed = scan.passed /\ s.seen = scan.seen
               /\ s.batch = scan.batch /\ s.ready = scan.ready
<1>0. UNCHANGED <<data, old, store, listed, touched, writes, resumes>> /\ scan.step = "listing"
    BY DEF List
<1>1. Fields(rest) /\ Left(rest) /\ Held(rest) /\ rest.started = scan.started
    BY <1>0 DEF ScanTypes
<1>2. /\ \A x : Fields([rest EXCEPT !.started = x]) /\ Left([rest EXCEPT !.started = x])
      /\ \A x : Held([rest EXCEPT !.started = x]) /\ [rest EXCEPT !.started = x].started = x
    BY <1>0 DEF ScanTypes
<1>3. /\ \A x : Fields([rest EXCEPT !.ready = x]) /\ Left([rest EXCEPT !.ready = x])
      /\ \A x : /\ [rest EXCEPT !.ready = x].ready = x
                /\ [rest EXCEPT !.ready = x].started = scan.started
                /\ [rest EXCEPT !.ready = x].passed = scan.passed
                /\ [rest EXCEPT !.ready = x].seen = scan.seen
                /\ [rest EXCEPT !.ready = x].batch = scan.batch
    BY <1>0 DEF ScanTypes
<1>4. /\ Fields(put) /\ Left(put) /\ put.started = scan.started
      /\ put.passed = scan.passed + 1
      /\ put.seen = (IF store.view \in {"commit", "union"}
                     THEN scan.seen \cup {row.key} ELSE scan.seen)
      /\ put.batch = (IF Batched THEN Append(scan.batch, ViewRow(row)) ELSE scan.batch)
      /\ put.ready = (IF Batched THEN scan.ready ELSE <<ViewRow(row)>>)
    BY <1>0 DEF ScanTypes
<1>5. CASE ~ scan.started /\ scan' = [rest EXCEPT !.started = row.key = scan.cursor]
    BY <1>0, <1>2, <1>5 DEF Same, SamePlace, Rest
<1>6. CASE scan.started /\ store.view = "leaf" /\ scan' = [rest EXCEPT !.ready = <<row>>]
    BY <1>0, <1>3, <1>6 DEF Same, SamePlace, Rest
<1>7. CASE /\ scan.started /\ store.view # "leaf" /\ Reached(scan.passed, scan.plan.innerLimit)
           /\ scan' = [scan EXCEPT !.page = <<>>, !.ended = TRUE]
    BY <1>0, <1>7 DEF ScanTypes, Same, SamePlace
<1>8. CASE /\ scan.started /\ store.view # "leaf" /\ ~ Reached(scan.passed, scan.plan.innerLimit)
           /\ ~ Evaluate(scan.plan.inner, row) \/ row.key \in scan.seen
           /\ scan' = rest
    BY <1>0, <1>1, <1>8 DEF Same, SamePlace, Rest
<1>9. CASE /\ scan.started /\ store.view # "leaf" /\ ~ Reached(scan.passed, scan.plan.innerLimit)
           /\ Evaluate(scan.plan.inner, row) /\ row.key \notin scan.seen
           /\ scan' = put
    BY <1>0, <1>4, <1>9 DEF Same, SamePlace, Rest
<1> HIDE DEF row, full, rest, put
<1> QED BY <1>5, <1>6, <1>7, <1>8, <1>9 DEF List, row, full, rest, put

LEMMA FetchEffect ==
    ASSUME ScanTypes, Fetch
    PROVE  LET p == Scanned[scan.part]
           IN /\ Same /\ SameCascade /\ scan'.step = "listing"
              /\ scan'.part = scan.part /\ scan'.snapshot = scan.snapshot
              /\ scan'.started = scan.started /\ scan'.given = scan.given
              /\ scan'.passed = scan.passed /\ scan'.seen = scan.seen
              /\ \E n \in 0 .. Size : \E got \in [1 .. n -> Unlisted(p)] :
                   LET rows == [i \in 1 .. n |-> LeafRow(p, Order[got[i]])]
                   IN /\ IsPage(got, n, Unlisted(p))
                      /\ scan'.at = (IF n = 0 THEN scan.at ELSE got[n])
                      /\ scan'.ended = (n < Size)
                      /\ \/ scan'.page = rows /\ scan'.relisted = scan.relisted
                         \/ /\ scan'.page = Append(rows, rows[1]) /\ scan'.relisted = TRUE
                            /\ store.leaf = "redis" /\ n > 0
<1> DEFINE p == Scanned[scan.part]
           Rows(n, got) == [i \in 1 .. n |-> LeafRow(p, Order[got[i]])]
           Given(n, got, again) ==
               [scan EXCEPT !.page = IF again THEN Append(Rows(n, got), Rows(n, got)[1]) ELSE Rows(n, got),
                            !.relisted = @ \/ again,
                            !.at = IF n = 0 THEN @ ELSE got[n],
                            !.ended = n < Size]
<1>0. UNCHANGED <<data, old, store, listed, touched, writes, resumes>> /\ scan.step = "listing"
    BY DEF Fetch
<1>1. PICK n \in 0 .. Size : \E got \in [1 .. n -> Unlisted(p)] :
        /\ IsPage(got, n, Unlisted(p))
        /\ \E again \in BOOLEAN :
             /\ again => store.leaf = "redis" /\ ~ scan.relisted /\ n > 0
             /\ scan' = Given(n, got, again)
    BY DEF Fetch
<1>2. PICK got \in [1 .. n -> Unlisted(p)] :
        /\ IsPage(got, n, Unlisted(p))
        /\ \E again \in BOOLEAN :
             /\ again => store.leaf = "redis" /\ ~ scan.relisted /\ n > 0
             /\ scan' = Given(n, got, again)
    BY <1>1
<1>3. PICK again \in BOOLEAN :
        /\ again => store.leaf = "redis" /\ ~ scan.relisted /\ n > 0
        /\ scan' = Given(n, got, again)
    BY <1>2
<1>4. /\ Same /\ SameCascade /\ scan'.step = "listing"
      /\ scan'.part = scan.part /\ scan'.snapshot = scan.snapshot
      /\ scan'.started = scan.started /\ scan'.given = scan.given
      /\ scan'.passed = scan.passed /\ scan'.seen = scan.seen
    BY <1>0, <1>3 DEF ScanTypes, Same, SameCascade
<1>5. /\ scan'.at = (IF n = 0 THEN scan.at ELSE got[n])
      /\ scan'.ended = (n < Size)
    BY <1>0, <1>3 DEF ScanTypes
<1>6. /\ scan'.page = (IF again THEN Append(Rows(n, got), Rows(n, got)[1]) ELSE Rows(n, got))
      /\ scan'.relisted = (scan.relisted \/ again)
    BY <1>0, <1>3 DEF ScanTypes
<1>7. scan.relisted \in BOOLEAN
    BY <1>0 DEF ScanTypes
<1>8. \/ scan'.page = Rows(n, got) /\ scan'.relisted = scan.relisted
      \/ /\ scan'.page = Append(Rows(n, got), Rows(n, got)[1]) /\ scan'.relisted = TRUE
         /\ store.leaf = "redis" /\ n > 0
    BY <1>3, <1>6, <1>7
<1> HIDE DEF Given
<1> QED BY <1>2, <1>4, <1>5, <1>8

LEMMA NextPartEffect ==
    ASSUME ScanTypes, NextPart
    PROVE  LET first == Begun(scan.spec, scan.cursor)
           IN /\ Same /\ SameCascade /\ scan'.step = "listing"
              /\ scan'.relisted = scan.relisted /\ scan'.page = scan.page
              /\ scan'.given = scan.given /\ scan'.passed = scan.passed /\ scan'.seen = scan.seen
              /\ scan'.part = scan.part + 1 /\ scan'.ended = FALSE /\ scan'.at = first.at
              /\ scan'.started = first.started
              /\ scan'.snapshot = {k \in Key : data[2][k] # None}
BY DEF ScanTypes, NextPart, Same, SameCascade

-----------------------------------------------------------------------------
(***************************************************************************)
(* Types.                                                                  *)
(***************************************************************************)

LEMMA ToStoreTypes ==
    /\ \A k \in Key : ToStore(k) \in Key /\ Renamed[ToStore(k)] = k
    /\ \A k \in Key : Renamed[k] \in Key /\ ToStore(Renamed[k]) = k
<1>1. ASSUME NEW k \in Key PROVE ToStore(k) \in Key /\ Renamed[ToStore(k)] = k
    BY ScanAssumption DEF ToStore
<1>2. ASSUME NEW k \in Key PROVE Renamed[k] \in Key /\ ToStore(Renamed[k]) = k
  <2>1. Renamed[k] \in Key
      BY ScanAssumption
  <2>2. ToStore(Renamed[k]) \in Key /\ Renamed[ToStore(Renamed[k])] = Renamed[k]
      BY <1>1, <2>1
  <2> QED BY <2>1, <2>2, ScanAssumption
<1> QED BY <1>1, <1>2

LEMMA StoreTypes == ScanTypes => store.view \in Views /\ store.leaf \in Leaves
BY ScanAssumption DEF ScanTypes

LEMMA BatchGetTypes ==
    ASSUME ScanTypes, NEW k \in Key PROVE BatchGet(data, k) \in Value \cup {None}
<1>1. store.view \in Views /\ ToStore(k) \in Key
    BY StoreTypes, ToStoreTypes
<1>2. data \in [{1, 2} -> [Key -> Value \cup {None}]]
    BY DEF ScanTypes, Parts
<1>3. CASE store.view = "leaf"
    BY <1>2, <1>3 DEF BatchGet
<1>4. CASE store.view = "mapped"
  <2>1. data[1][k] # None => Forward[data[1][k]] \in Value
      BY <1>2, ScanAssumption
  <2> QED BY <1>4, <2>1 DEF BatchGet
<1>5. CASE store.view = "rekeyed"
    BY <1>1, <1>2, <1>5 DEF BatchGet
<1>6. CASE store.view \in {"through", "commit"}
    BY <1>2, <1>6 DEF BatchGet
<1>7. CASE store.view = "union"
    BY <1>2, <1>7 DEF BatchGet
<1> QED BY <1>1, <1>3, <1>4, <1>5, <1>6, <1>7 DEF Views

LEMMA RowFields ==
    /\ \A r \in Row : r.key \in Key /\ r.value \in Value \cup {None} /\ r.stat \in Stat
    /\ \A k \in Key, v \in Value \cup {None}, s \in Stat : [key |-> k, value |-> v, stat |-> s] \in Row
    /\ \A r \in Row, v \in Value \cup {None} :
         /\ [r EXCEPT !.value = v] \in Row /\ [r EXCEPT !.value = v].key = r.key
         /\ [r EXCEPT !.value = v].value = v /\ [r EXCEPT !.value = v].stat = r.stat
BY DEF Row

LEMMA LeafRowTypes ==
    ASSUME ScanTypes, Underway, NEW p \in {1, 2}, NEW k \in Key PROVE LeafRow(p, k) \in Row /\ LeafRow(p, k).key = k
<1>1. data[p][k] \in Value \cup {None}
    BY DEF ScanTypes, Parts
<1> QED BY <1>1 DEF LeafRow, Row, Stat

LEMMA ProjectRowTypes ==
    ASSUME NEW r \in Row, NEW pr
    PROVE  ProjectRow(r, pr) \in Row /\ ProjectRow(r, pr).key = r.key
BY DEF ProjectRow, Row, Stat

LEMMA ViewRowTypes ==
    ASSUME ScanTypes, Underway, NEW r \in Row
    PROVE  ViewRow(r) \in Row
<1> DEFINE pr == ProjectRow(r, scan.plan.project)
<1>1. pr \in Row
    BY ProjectRowTypes
<1>2. store.view \in Views
    BY StoreTypes
<1>3. CASE store.view = "mapped"
  <2>1. ViewRow(r) = [pr EXCEPT !.value = IF @ = None THEN None ELSE Forward[@]]
      BY <1>3 DEF ViewRow
  <2>2. pr.value # None => Forward[pr.value] \in Value
      BY <1>1, RowFields, ScanAssumption
  <2> HIDE DEF pr
  <2> QED BY <1>1, <2>1, <2>2 DEF Row
<1>4. CASE store.view = "rekeyed"
  <2>1. ViewRow(r) = [pr EXCEPT !.key = Renamed[@]]
      BY <1>4 DEF ViewRow
  <2>2. Renamed[pr.key] \in Key
      BY <1>1, RowFields, ScanAssumption
  <2> HIDE DEF pr
  <2> QED BY <1>1, <2>1, <2>2 DEF Row
<1>5. CASE store.view \notin {"mapped", "rekeyed"}
  <2>1. ViewRow(r) = pr
      BY <1>2, <1>5 DEF ViewRow, Views
  <2> QED BY <1>1, <2>1
<1> QED BY <1>3, <1>4, <1>5

\* A sequence changed element by element.
LEMMA MappedSeq ==
    ASSUME NEW S, NEW T, NEW s \in Seq(S), NEW f, f = [i \in DOMAIN s |-> f[i]],
           \A i \in DOMAIN s : f[i] \in T
    PROVE  f \in Seq(T) /\ Len(f) = Len(s) /\ DOMAIN f = DOMAIN s
<1>1. Len(s) \in Nat /\ DOMAIN s = 1 .. Len(s)
    OBVIOUS
<1>2. f \in [1 .. Len(s) -> T]
    BY <1>1
<1>3. f \in Seq(T)
    BY <1>1, <1>2, SeqDef
<1> QED BY <1>1, <1>2, <1>3

\* The records of a scan whose plan is pl and whose order has n keys.
Scans(pl, n) ==
    [step : {"listing", "done", "refused", "failed", "deleted"},
     spec : Specs, plan : {pl},
     cursor : Key \cup {None}, part : Parts, at : 0 .. n,
     started : BOOLEAN, snapshot : SUBSET Key,
     ended : BOOLEAN, relisted : BOOLEAN, page : Seq(Row), given : Nat,
     passed : Nat, seen : SUBSET Key, batch : Seq(Row), confirmed : BOOLEAN,
     ready : Seq(Row), pending : Seq(Row), filled : BOOLEAN, out : Seq(Row)]

LEMMA ScansTypes ==
    /\ ScanTypes /\ Underway => scan \in Scans(PlanOf, Len(Order))
    /\ ScanTypes /\ Same /\ scan' \in Scans(PlanOf, Len(Order)) => ScanTypes'
<1>1. ScanTypes /\ Underway => scan \in Scans(PlanOf, Len(Order))
    BY DEF ScanTypes, Underway, Scans, PlanOf
<1>2. ASSUME ScanTypes, Same, scan' \in Scans(PlanOf, Len(Order)) PROVE ScanTypes'
  <2>1. PlanOf' = PlanOf /\ Order' = Order
      BY <1>2, PlanSame, OrderSame DEF Same
  <2>2. scan' \in Scans(PlanOf', Len(Order'))
      BY <1>2, <2>1
  <2>3. /\ data' \in [Parts -> [Key -> Value \cup {None}]]
        /\ old' \subseteq Key /\ touched' \subseteq Key /\ listed' \in Seq(Key)
        /\ store' \in Stores
        /\ writes' \in 0 .. MaxWrites /\ resumes' \in 0 .. MaxResumes
      BY <1>2 DEF ScanTypes, Same
  <2> QED BY <2>2, <2>3 DEF ScanTypes, Scans, PlanOf
<1> QED BY <1>1, <1>2

LEMMA ScanExcept ==
    ASSUME NEW pl, NEW n, NEW s \in Scans(pl, n)
    PROVE  /\ \A x \in {"listing", "done", "refused", "failed", "deleted"} : [s EXCEPT !.step = x] \in Scans(pl, n)
           /\ \A x \in 0 .. n : [s EXCEPT !.at = x] \in Scans(pl, n)
           /\ \A x \in Parts : [s EXCEPT !.part = x] \in Scans(pl, n)
           /\ \A x \in BOOLEAN : [s EXCEPT !.started = x] \in Scans(pl, n)
           /\ \A x \in BOOLEAN : [s EXCEPT !.ended = x] \in Scans(pl, n)
           /\ \A x \in BOOLEAN : [s EXCEPT !.relisted = x] \in Scans(pl, n)
           /\ \A x \in SUBSET Key : [s EXCEPT !.snapshot = x] \in Scans(pl, n)
           /\ \A x \in Seq(Row) : [s EXCEPT !.page = x] \in Scans(pl, n)
           /\ \A x \in Nat : [s EXCEPT !.given = x] \in Scans(pl, n)
           /\ \A x \in Nat : [s EXCEPT !.passed = x] \in Scans(pl, n)
           /\ \A x \in SUBSET Key : [s EXCEPT !.seen = x] \in Scans(pl, n)
           /\ \A x \in Seq(Row) : [s EXCEPT !.batch = x] \in Scans(pl, n)
           /\ \A x \in BOOLEAN : [s EXCEPT !.confirmed = x] \in Scans(pl, n)
           /\ \A x \in Seq(Row) : [s EXCEPT !.ready = x] \in Scans(pl, n)
           /\ \A x \in Seq(Row) : [s EXCEPT !.pending = x] \in Scans(pl, n)
           /\ \A x \in BOOLEAN : [s EXCEPT !.filled = x] \in Scans(pl, n)
           /\ \A x \in Seq(Row) : [s EXCEPT !.out = x] \in Scans(pl, n)
<1>1. \A x \in {"listing", "done", "refused", "failed", "deleted"} : [s EXCEPT !.step = x] \in Scans(pl, n)
    BY DEF Scans
<1>2. \A x \in 0 .. n : [s EXCEPT !.at = x] \in Scans(pl, n)
    BY DEF Scans
<1>3. \A x \in Parts : [s EXCEPT !.part = x] \in Scans(pl, n)
    BY DEF Scans
<1>4. \A x \in BOOLEAN : [s EXCEPT !.started = x] \in Scans(pl, n)
    BY DEF Scans
<1>5. \A x \in BOOLEAN : [s EXCEPT !.ended = x] \in Scans(pl, n)
    BY DEF Scans
<1>6. \A x \in BOOLEAN : [s EXCEPT !.relisted = x] \in Scans(pl, n)
    BY DEF Scans
<1>7. \A x \in SUBSET Key : [s EXCEPT !.snapshot = x] \in Scans(pl, n)
    BY DEF Scans
<1>8. \A x \in Seq(Row) : [s EXCEPT !.page = x] \in Scans(pl, n)
    BY DEF Scans
<1>9. \A x \in Nat : [s EXCEPT !.given = x] \in Scans(pl, n)
    BY DEF Scans
<1>10. \A x \in Nat : [s EXCEPT !.passed = x] \in Scans(pl, n)
    BY DEF Scans
<1>11. \A x \in SUBSET Key : [s EXCEPT !.seen = x] \in Scans(pl, n)
    BY DEF Scans
<1>12. \A x \in Seq(Row) : [s EXCEPT !.batch = x] \in Scans(pl, n)
    BY DEF Scans
<1>13. \A x \in BOOLEAN : [s EXCEPT !.confirmed = x] \in Scans(pl, n)
    BY DEF Scans
<1>14. \A x \in Seq(Row) : [s EXCEPT !.ready = x] \in Scans(pl, n)
    BY DEF Scans
<1>15. \A x \in Seq(Row) : [s EXCEPT !.pending = x] \in Scans(pl, n)
    BY DEF Scans
<1>16. \A x \in BOOLEAN : [s EXCEPT !.filled = x] \in Scans(pl, n)
    BY DEF Scans
<1>17. \A x \in Seq(Row) : [s EXCEPT !.out = x] \in Scans(pl, n)
    BY DEF Scans
<1> QED BY <1>1, <1>2, <1>3, <1>4, <1>5, <1>6, <1>7, <1>8, <1>9, <1>10, <1>11, <1>12, <1>13, <1>14, <1>15, <1>16, <1>17

LEMMA ConfirmTypes == ASSUME ScanTypes, Confirm PROVE ScanTypes'
<1> DEFINE got == [i \in DOMAIN scan.batch |->
                     [scan.batch[i] EXCEPT !.value = BatchGet(data, scan.batch[i].key)]]
           S == Scans(PlanOf, Len(Order))
<1>1. scan \in S /\ scan.batch \in Seq(Row)
    BY ScansTypes, TypedFields DEF Confirm, Underway, Typed
<1>2. got \in Seq(Row)
  <2>1. ASSUME NEW i \in DOMAIN scan.batch PROVE got[i] \in Row
    <3>1. scan.batch[i] \in Row
        BY <1>1
    <3> QED BY <3>1, RowFields, BatchGetTypes
  <2> HIDE DEF got
  <2>2. got = [i \in DOMAIN scan.batch |-> got[i]]
      BY DEF got
  <2> QED BY <1>1, <2>1, <2>2, MappedSeq
<1>3. scan' = [scan EXCEPT !.confirmed = TRUE, !.batch = got]
    BY DEF Confirm
<1> HIDE DEF got
<1>4. scan' \in S
    BY <1>1, <1>2, <1>3 DEF Scans
<1> QED BY <1>4, ConfirmEffect, ScansTypes

LEMMA FlushTypes == ASSUME ScanTypes, Flush PROVE ScanTypes'
<1> DEFINE got == [i \in DOMAIN scan.pending |->
                     [scan.pending[i] EXCEPT !.value = BatchGet(data, scan.pending[i].key)]]
           S == Scans(PlanOf, Len(Order))
<1>1. scan \in S /\ scan.pending \in Seq(Row)
    BY ScansTypes, TypedFields DEF Flush, Underway, Typed
<1>2. got \in Seq(Row)
  <2>1. ASSUME NEW i \in DOMAIN scan.pending PROVE got[i] \in Row
    <3>1. scan.pending[i] \in Row
        BY <1>1
    <3> QED BY <3>1, RowFields, BatchGetTypes
  <2> HIDE DEF got
  <2>2. got = [i \in DOMAIN scan.pending |-> got[i]]
      BY DEF got
  <2> QED BY <1>1, <2>1, <2>2, MappedSeq
<1>3. scan' = [scan EXCEPT !.step = "failed"] \/ scan' = [scan EXCEPT !.filled = TRUE, !.pending = got]
    BY DEF Flush
<1> HIDE DEF got
<1>4. [scan EXCEPT !.filled = TRUE] \in S /\ [scan EXCEPT !.step = "failed"] \in S
    BY <1>1, ScanExcept
<1>5. [[scan EXCEPT !.filled = TRUE] EXCEPT !.pending = got] \in S
    BY <1>2, <1>4, ScanExcept
<1>6. scan' \in S
    BY <1>3, <1>4, <1>5
<1> QED BY <1>6, FlushEffect, ScansTypes

LEMMA EndTypes == ASSUME ScanTypes, End PROVE ScanTypes'
<1>1. scan \in Scans(PlanOf, Len(Order)) /\ scan' = [scan EXCEPT !.step = "done"]
    BY ScansTypes DEF End, Underway
<1>2. scan' \in Scans(PlanOf, Len(Order))
    BY <1>1 DEF Scans
<1> QED BY <1>2, EndEffect, ScansTypes

LEMMA BringTypes == ASSUME ScanTypes, Bring, scan.batch # <<>> PROVE ScanTypes'
<1> DEFINE row == Head(scan.batch)
           up == [row EXCEPT !.value = IF NeedsValues(scan.spec, scan.plan.residual) THEN @ ELSE None]
           rest == [scan EXCEPT !.batch = Tail(@), !.confirmed = Len(scan.batch) > 1]
           S == Scans(PlanOf, Len(Order))
<1>1. scan \in S /\ scan.batch \in Seq(Row)
    BY ScansTypes, TypedFields DEF Bring, Underway, Typed
<1>2. Tail(scan.batch) \in Seq(Row) /\ row \in Row
    BY <1>1
<1>3. <<up>> \in Seq(Row)
  <2>1. up \in Row
      BY <1>2 DEF Row
  <2> HIDE DEF up
  <2> QED BY <2>1
<1>4. rest \in S
  <2>1. [scan EXCEPT !.batch = Tail(scan.batch)] \in S
      BY <1>1, <1>2, ScanExcept
  <2> DEFINE some == Len(scan.batch) > 1
             fewer == [scan EXCEPT !.batch = Tail(scan.batch)]
  <2>2. [fewer EXCEPT !.confirmed = some] \in S
    <3>1. some \in BOOLEAN
        OBVIOUS
    <3> HIDE DEF some, fewer
    <3> QED BY <2>1, <3>1, ScanExcept DEF fewer
  <2> QED BY <2>2
<1>5. scan' = rest \/ scan' = [rest EXCEPT !.ready = <<up>>]
    BY DEF Bring
<1> HIDE DEF up, rest
<1>6. [rest EXCEPT !.ready = <<up>>] \in S
    BY <1>3, <1>4, ScanExcept
<1>7. scan' \in S
    BY <1>4, <1>5, <1>6
<1> QED BY <1>7, BringEffect, ScansTypes

LEMMA TakeTypes == ASSUME ScanTypes, Take, scan.ready # <<>> PROVE ScanTypes'
<1> DEFINE row == Head(scan.ready)
           rest == [scan EXCEPT !.ready = <<>>]
           S == Scans(PlanOf, Len(Order))
<1>1. scan \in S /\ scan.ready \in Seq(Row)
    BY ScansTypes, TypedFields DEF Take, Underway, Typed
<1>2. row \in Row
    BY <1>1
<1>3. rest \in S /\ [scan EXCEPT !.step = "done"] \in S
  <2>1. <<>> \in Seq(Row)
      OBVIOUS
  <2> QED BY <1>1, <2>1, ScanExcept
<1>4. \/ scan' = [scan EXCEPT !.step = "done"]
      \/ scan' = rest
      \/ scan' = [rest EXCEPT !.pending = Append(rest.pending, row)]
      \/ scan' = [rest EXCEPT !.out = Append(rest.out, ProjectRow(row, scan.spec.project))]
    BY DEF Take
<1> HIDE DEF rest, row
<1>5. Append(rest.pending, row) \in Seq(Row)
      /\ Append(rest.out, ProjectRow(row, scan.spec.project)) \in Seq(Row)
  <2>1. rest.pending \in Seq(Row) /\ rest.out \in Seq(Row)
      BY <1>3 DEF Scans
  <2> QED BY <1>2, <2>1, ProjectRowTypes
<1>6. [rest EXCEPT !.pending = Append(rest.pending, row)] \in S
    BY <1>3, <1>5, ScanExcept
<1>7. [rest EXCEPT !.out = Append(rest.out, ProjectRow(row, scan.spec.project))] \in S
    BY <1>3, <1>5, ScanExcept
<1>8. scan' \in S
    BY <1>3, <1>4, <1>6, <1>7
<1> QED BY <1>8, TakeEffect, ScansTypes

LEMMA YieldTypes == ASSUME ScanTypes, Yield, scan.pending # <<>> PROVE ScanTypes'
<1> DEFINE row == Head(scan.pending)
           rest == [scan EXCEPT !.pending = Tail(@), !.filled = Len(scan.pending) > 1]
           S == Scans(PlanOf, Len(Order))
<1>1. scan \in S /\ scan.pending \in Seq(Row)
    BY ScansTypes, TypedFields DEF Yield, Underway, Typed
<1>2. row \in Row /\ Tail(scan.pending) \in Seq(Row)
    BY <1>1
<1>3. rest \in S
  <2>1. [scan EXCEPT !.pending = Tail(scan.pending)] \in S
      BY <1>1, <1>2, ScanExcept
  <2> DEFINE some == Len(scan.pending) > 1
             fewer == [scan EXCEPT !.pending = Tail(scan.pending)]
  <2>2. [fewer EXCEPT !.filled = some] \in S
    <3>1. some \in BOOLEAN
        OBVIOUS
    <3> HIDE DEF some, fewer
    <3> QED BY <2>1, <3>1, ScanExcept DEF fewer
  <2> QED BY <2>2
<1>4. \/ scan' = rest
      \/ scan' = [rest EXCEPT !.out = Append(rest.out, ProjectRow(row, scan.spec.project)),
                              !.step = IF Reached(Len(scan.out) + 1, scan.spec.limit)
                                       THEN "done" ELSE rest.step]
    BY DEF Yield
<1> HIDE DEF rest, row
<1>5. Append(rest.out, ProjectRow(row, scan.spec.project)) \in Seq(Row)
  <2>1. rest.out \in Seq(Row)
      BY <1>3 DEF Scans
  <2> QED BY <1>2, <2>1, ProjectRowTypes
<1>6. scan' \in S
  <2> DEFINE more == [rest EXCEPT !.out = Append(rest.out, ProjectRow(row, scan.spec.project))]
             last == IF Reached(Len(scan.out) + 1, scan.spec.limit) THEN "done" ELSE rest.step
  <2>1. more \in S
      BY <1>3, <1>5, ScanExcept
  <2>2. last \in {"listing", "done", "refused", "failed", "deleted"}
      BY <1>3 DEF Scans
  <2>3. [more EXCEPT !.step = last] \in S
    <3> HIDE DEF more, last
    <3> QED BY <2>1, <2>2, ScanExcept
  <2> QED BY <1>3, <1>4, <2>3
<1> QED BY <1>6, YieldEffect, ScansTypes

LEMMA ListTypes == ASSUME ScanTypes, List, scan.page # <<>> PROVE ScanTypes'
<1> DEFINE row == Head(scan.page)
           full == Reached(scan.given + 1, scan.plan.limit)
           left == IF full THEN <<>> ELSE Tail(scan.page)
           over == scan.ended \/ full
           rest == [scan EXCEPT !.page = left, !.given = @ + 1, !.ended = over]
           seen1 == IF store.view \in {"commit", "union"} THEN rest.seen \cup {row.key} ELSE rest.seen
           batch1 == IF Batched THEN Append(rest.batch, ViewRow(row)) ELSE rest.batch
           ready1 == IF Batched THEN rest.ready ELSE <<ViewRow(row)>>
           hit == row.key = scan.cursor
           S == Scans(PlanOf, Len(Order))
<1>1. scan \in S /\ scan.page \in Seq(Row) /\ scan.given \in Nat /\ scan.ended \in BOOLEAN
    BY ScansTypes, TypedFields DEF List, Underway, Typed
<1>2. row \in Row /\ Tail(scan.page) \in Seq(Row) /\ <<>> \in Seq(Row)
    BY <1>1
<1>3. left \in Seq(Row) /\ over \in BOOLEAN /\ scan.given + 1 \in Nat /\ hit \in BOOLEAN /\ row.key \in Key
    BY <1>1, <1>2, RowFields
<1>4. rest \in S
  <2> DEFINE a == [scan EXCEPT !.page = left]
             b == [a EXCEPT !.given = scan.given + 1]
  <2> HIDE DEF left, over
  <2>1. a \in S
      BY <1>1, <1>3, ScanExcept
  <2>2. b \in S
    <3> HIDE DEF a
    <3> QED BY <1>3, <2>1, ScanExcept
  <2>3. [b EXCEPT !.ended = over] \in S
    <3> HIDE DEF b
    <3> QED BY <1>3, <2>2, ScanExcept
  <2>4. rest = [b EXCEPT !.ended = over]
      BY <1>1 DEF Scans
  <2> QED BY <2>3, <2>4
<1>5. \/ scan' = [rest EXCEPT !.started = hit]
      \/ scan' = [rest EXCEPT !.ready = <<row>>]
      \/ scan' = [scan EXCEPT !.page = <<>>, !.ended = TRUE]
      \/ scan' = rest
      \/ scan' = [rest EXCEPT !.passed = @ + 1, !.seen = seen1, !.batch = batch1, !.ready = ready1]
    BY DEF List
<1> HIDE DEF rest, hit, left, over, full, row
<1>6. [rest EXCEPT !.started = hit] \in S /\ [rest EXCEPT !.ready = <<row>>] \in S
  <2>1. <<row>> \in Seq(Row)
      BY <1>2
  <2> QED BY <1>3, <1>4, <2>1, ScanExcept
<1>7. [scan EXCEPT !.page = <<>>, !.ended = TRUE] \in S
  <2>1. [scan EXCEPT !.page = <<>>] \in S
      BY <1>1, <1>2, ScanExcept
  <2>2. [[scan EXCEPT !.page = <<>>] EXCEPT !.ended = TRUE] \in S
      BY <2>1, ScanExcept
  <2> QED BY <2>2
<1>8. [rest EXCEPT !.passed = @ + 1, !.seen = seen1, !.batch = batch1, !.ready = ready1] \in S
  <2>1. rest.passed \in Nat /\ rest.seen \subseteq Key /\ rest.batch \in Seq(Row) /\ rest.ready \in Seq(Row)
      BY <1>4 DEF Scans
  <2>2. ViewRow(row) \in Row
      BY <1>2, ViewRowTypes DEF List, Underway
  <2>3. rest.passed + 1 \in Nat /\ seen1 \subseteq Key /\ batch1 \in Seq(Row) /\ ready1 \in Seq(Row)
    <3>1. rest.passed + 1 \in Nat /\ seen1 \subseteq Key
        BY <1>3, <2>1
    <3>2. batch1 \in Seq(Row)
        BY <2>1, <2>2
    <3>3. ready1 \in Seq(Row)
        BY <2>1, <2>2
    <3> QED BY <3>1, <3>2, <3>3
  <2> DEFINE a == [rest EXCEPT !.passed = rest.passed + 1]
             b == [a EXCEPT !.seen = seen1]
             c == [b EXCEPT !.batch = batch1]
             d == [c EXCEPT !.ready = ready1]
  <2> HIDE DEF seen1, batch1, ready1
  <2>4. a \in S
      BY <1>4, <2>3, ScanExcept
  <2>5. b \in S
    <3> HIDE DEF a
    <3> QED BY <2>3, <2>4, ScanExcept
  <2>6. c \in S
    <3> HIDE DEF b
    <3> QED BY <2>3, <2>5, ScanExcept
  <2>7. d \in S
    <3> HIDE DEF c
    <3> QED BY <2>3, <2>6, ScanExcept
  <2>8. d = [rest EXCEPT !.passed = @ + 1, !.seen = seen1, !.batch = batch1, !.ready = ready1]
      BY <1>4 DEF Scans
  <2> QED BY <2>7, <2>8
<1>9. scan' \in S
    BY <1>4, <1>5, <1>6, <1>7, <1>8
<1> QED BY <1>9, ListEffect, ScansTypes

LEMMA UnreadTypes ==
    ASSUME ScanTypes, Underway, NEW p
    PROVE  Unlisted(p) \subseteq 1 .. Len(Order) /\ \A u \in Unlisted(p) : u > scan.at /\ Order[u] \in Key
BY OrderTypes DEF Unlisted

LEMMA SizeTypes == ASSUME ScanTypes, Underway PROVE Size \in Nat
<1>1. scan.spec.orderBy \in BOOLEAN
    BY SpecsAssumption, TypedFields DEF Typed
<1> QED BY <1>1, OrderTypes, ScanAssumption DEF Size

LEMMA ScannedTypes ==
    ASSUME ScanTypes, Underway, Grounded
    PROVE  /\ Scanned[scan.part] = scan.part /\ scan.part <= Len(Scanned)
           /\ Len(Scanned) = IF store.view = "union" THEN 2 ELSE 1
<1>1. scan.part \in {1, 2} /\ (scan.part = 2 => store.view = "union")
    BY TypedFields DEF Grounded, Typed
<1> QED BY <1>1 DEF Scanned

LEMMA FetchTypes == ASSUME ScanTypes, Grounded, Fetch PROVE ScanTypes'
<1> DEFINE p == Scanned[scan.part]
           Rows(n, got) == [i \in 1 .. n |-> LeafRow(p, Order[got[i]])]
           S == Scans(PlanOf, Len(Order))
<1>0. Underway
    BY DEF Underway, Fetch
<1>1. scan \in S /\ p \in {1, 2} /\ scan.relisted \in BOOLEAN /\ scan.at \in 0 .. Len(Order)
    BY <1>0, ScansTypes, ScannedTypes, TypedFields, OrderTypes DEF Typed
<1> DEFINE Gives(n, got, again) ==
        /\ again => n > 0
        /\ scan' = [scan EXCEPT !.page = IF again THEN Append(Rows(n, got), Rows(n, got)[1]) ELSE Rows(n, got),
                                !.relisted = @ \/ again,
                                !.at = IF n = 0 THEN @ ELSE got[n],
                                !.ended = n < Size]
<1>2a. PICK n \in 0 .. Size : \E got \in [1 .. n -> Unlisted(p)] : \E again \in BOOLEAN : Gives(n, got, again)
  <2>1. PICK n \in 0 .. Size : \E got \in [1 .. n -> Unlisted(p)] :
            /\ IsPage(got, n, Unlisted(p))
            /\ \E again \in BOOLEAN :
                 /\ again => store.leaf = "redis" /\ ~ scan.relisted /\ n > 0
                 /\ scan' = [scan EXCEPT
                       !.page = IF again THEN Append(Rows(n, got), Rows(n, got)[1]) ELSE Rows(n, got),
                       !.relisted = @ \/ again,
                       !.at = IF n = 0 THEN @ ELSE got[n],
                       !.ended = n < Size]
      BY DEF Fetch
  <2>2. PICK got \in [1 .. n -> Unlisted(p)] :
            \E again \in BOOLEAN :
                 /\ again => store.leaf = "redis" /\ ~ scan.relisted /\ n > 0
                 /\ scan' = [scan EXCEPT
                       !.page = IF again THEN Append(Rows(n, got), Rows(n, got)[1]) ELSE Rows(n, got),
                       !.relisted = @ \/ again,
                       !.at = IF n = 0 THEN @ ELSE got[n],
                       !.ended = n < Size]
      BY <2>1
  <2>3. \E again \in BOOLEAN : Gives(n, got, again)
      BY <2>2
  <2> QED BY <2>3
<1>2b. PICK got \in [1 .. n -> Unlisted(p)] : \E again \in BOOLEAN : Gives(n, got, again)
    BY <1>2a
<1>2. PICK again \in BOOLEAN : Gives(n, got, again)
    BY <1>2b
<1> DEFINE rows == Rows(n, got)
           page1 == IF again THEN Append(rows, rows[1]) ELSE rows
           relisted1 == scan.relisted \/ again
           at1 == IF n = 0 THEN scan.at ELSE got[n]
           ended1 == n < Size
<1>3. n \in Nat
    BY <1>0, SizeTypes
<1>4. rows \in Seq(Row) /\ Len(rows) = n
  <2>1. ASSUME NEW i \in 1 .. n PROVE LeafRow(p, Order[got[i]]) \in Row
    <3>1. Order[got[i]] \in Key
        BY <1>0, UnreadTypes
    <3> QED BY <1>0, <1>1, <3>1, LeafRowTypes
  <2>2. rows \in [1 .. n -> Row]
      BY <2>1
  <2> HIDE DEF rows
  <2> QED BY <1>3, <2>2, SeqDef
<1>5. page1 \in Seq(Row)
  <2> HIDE DEF rows
  <2>1. again => rows[1] \in Row
      BY <1>2, <1>3, <1>4
  <2> QED BY <1>4, <2>1
<1>6. relisted1 \in BOOLEAN /\ ended1 \in BOOLEAN
    OBVIOUS
<1>7. at1 \in 0 .. Len(Order)
  <2>1. n # 0 => got[n] \in 1 .. Len(Order)
      BY <1>0, <1>3, UnreadTypes
  <2> QED BY <1>1, <2>1
<1>8. scan' = [scan EXCEPT !.page = page1, !.relisted = relisted1, !.at = at1, !.ended = ended1]
    BY <1>2
<1> HIDE DEF page1, relisted1, at1, ended1
<1> DEFINE a == [scan EXCEPT !.page = page1]
           b == [a EXCEPT !.relisted = relisted1]
           c == [b EXCEPT !.at = at1]
           d == [c EXCEPT !.ended = ended1]
<1>9. a \in S
    BY <1>1, <1>5, ScanExcept
<1>10. b \in S
  <2> HIDE DEF a
  <2> QED BY <1>6, <1>9, ScanExcept
<1>11. c \in S
  <2> HIDE DEF b
  <2> QED BY <1>7, <1>10, ScanExcept
<1>12. d \in S
  <2> HIDE DEF c
  <2> QED BY <1>6, <1>11, ScanExcept
<1>13. scan' = d
    BY <1>1, <1>8 DEF Scans
<1>14. scan' \in S
    BY <1>12, <1>13
<1> QED BY <1>14, FetchEffect, ScansTypes

\* What is due says how far the scan is.
LEMMA DueFacts ==
    ASSUME ScanTypes, Underway
    PROVE  /\ Due = "yield" => scan.filled
           /\ Due = "flush" => ~ scan.filled /\ scan.pending # <<>>
           /\ Due = "take" =>
                /\ ~ scan.filled /\ scan.ready # <<>>
                /\ ReadsValues /\ scan.ready[1].value # None /\ scan.pending # <<>> => LimitReached
           /\ Due = "bring" => ~ scan.filled /\ scan.ready = <<>> /\ scan.confirmed
           /\ Due = "confirm" =>
                ~ scan.filled /\ scan.ready = <<>> /\ ~ scan.confirmed /\ scan.batch # <<>>
           /\ Due = "list" =>
                ~ scan.filled /\ scan.ready = <<>> /\ ~ scan.confirmed /\ scan.page # <<>>
           /\ Due = "fetch" =>
                /\ ~ scan.filled /\ scan.ready = <<>> /\ ~ scan.confirmed /\ scan.page = <<>>
                /\ ~ scan.ended
           /\ Due = "part" =>
                /\ ~ scan.filled /\ scan.ready = <<>> /\ ~ scan.confirmed /\ scan.page = <<>>
                /\ scan.ended /\ scan.part # Len(Scanned)
           /\ Due = "end" =>
                /\ scan.ready = <<>> /\ scan.batch = <<>> /\ scan.page = <<>> /\ scan.ended
                /\ scan.part = Len(Scanned)
                /\ scan.pending = <<>> \/ LimitReached
<1>1. /\ scan.pending \in Seq(Row) /\ scan.batch \in Seq(Row) /\ scan.ready \in Seq(Row)
      /\ scan.page \in Seq(Row) /\ FlushSize \in Nat \ {0} /\ PageSize \in Nat \ {0}
    BY TypedFields, ScanAssumption DEF Typed
<1>2. Len(scan.pending) >= FlushSize => scan.pending # <<>>
    BY <1>1
<1>3. Len(scan.batch) >= PageSize => scan.batch # <<>>
    BY <1>1
<1> DEFINE last == scan.part = Len(Scanned)
           dry == scan.ended /\ scan.page = <<>>
           waiting == scan.pending # <<>> /\ ~ LimitReached
           many == Len(scan.pending) >= FlushSize
           wide == Len(scan.batch) >= PageSize
           hold == ReadsValues /\ scan.ready[1].value # None /\ waiting
<1>4. Due = IF scan.filled THEN "yield"
            ELSE IF many THEN "flush"
            ELSE IF scan.ready # <<>> THEN IF hold THEN "flush" ELSE "take"
            ELSE IF scan.confirmed THEN "bring"
            ELSE IF wide \/ (dry /\ last /\ scan.batch # <<>>) THEN "confirm"
            ELSE IF scan.page # <<>> THEN "list"
            ELSE IF ~ scan.ended THEN "fetch"
            ELSE IF ~ last THEN "part"
            ELSE IF waiting THEN "flush" ELSE "end"
    BY DEF Due
<1> HIDE DEF last, many, wide
<1>5. /\ Due = "yield" => scan.filled
      /\ Due = "flush" => ~ scan.filled /\ scan.pending # <<>>
      /\ Due = "take" => ~ scan.filled /\ scan.ready # <<>> /\ ~ hold
    BY <1>2, <1>4 DEF many
<1>6. /\ Due = "bring" => ~ scan.filled /\ scan.ready = <<>> /\ scan.confirmed
      /\ Due = "confirm" =>
           ~ scan.filled /\ scan.ready = <<>> /\ ~ scan.confirmed /\ scan.batch # <<>>
      /\ Due = "list" =>
           ~ scan.filled /\ scan.ready = <<>> /\ ~ scan.confirmed /\ scan.page # <<>>
    BY <1>3, <1>4 DEF wide
<1>7. /\ Due = "fetch" =>
           /\ ~ scan.filled /\ scan.ready = <<>> /\ ~ scan.confirmed /\ scan.page = <<>>
           /\ ~ scan.ended
      /\ Due = "part" =>
           /\ ~ scan.filled /\ scan.ready = <<>> /\ ~ scan.confirmed /\ scan.page = <<>>
           /\ scan.ended /\ ~ last
      /\ Due = "end" =>
           /\ scan.ready = <<>> /\ scan.batch = <<>> /\ scan.page = <<>> /\ scan.ended
           /\ last /\ ~ waiting
    BY <1>4
<1> QED BY <1>5, <1>6, <1>7 DEF last

LEMMA PositionTypes ==
    /\ \A order \in {Listing, ByColumn} : \A k \in Key :
         Position(order, k) \in 1 .. Len(order) /\ order[Position(order, k)] = k
    /\ \A order \in {Listing, ByColumn} : \A i \in 1 .. Len(order) :
         order[i] \in Key /\ Position(order, order[i]) = i
    /\ \A order \in {Listing, ByColumn} : \A j, k \in Key :
         Position(order, j) = Position(order, k) => j = k
<1>1. ASSUME NEW order \in {Listing, ByColumn}, NEW k \in Key
      PROVE  Position(order, k) \in 1 .. Len(order) /\ order[Position(order, k)] = k
  <2>1. order \in Seq(Key) /\ \E i \in DOMAIN order : order[i] = k
      BY OrderAssumption
  <2>2. Position(order, k) \in DOMAIN order /\ order[Position(order, k)] = k
      BY <2>1 DEF Position
  <2> QED BY <2>1, <2>2
<1>2. ASSUME NEW order \in {Listing, ByColumn}, NEW i \in 1 .. Len(order)
      PROVE  order[i] \in Key /\ Position(order, order[i]) = i
  <2>1. order \in Seq(Key) /\ DOMAIN order = 1 .. Len(order)
        /\ \A x, y \in DOMAIN order : order[x] = order[y] => x = y
      BY OrderAssumption
  <2>2. order[i] \in Key
      BY <2>1
  <2>3. Position(order, order[i]) \in 1 .. Len(order) /\ order[Position(order, order[i])] = order[i]
      BY <1>1, <2>2
  <2> QED BY <2>1, <2>2, <2>3
<1>3. ASSUME NEW order \in {Listing, ByColumn}, NEW j \in Key, NEW k \in Key,
             Position(order, j) = Position(order, k)
      PROVE  j = k
    BY <1>1, <1>3
<1> QED BY <1>1, <1>2, <1>3

\* A scan that begins.
LEMMA BegunFields ==
    ASSUME NEW spec, NEW cursor
    PROVE  LET b == Begun(spec, cursor)
           IN /\ b.step = "listing" /\ b.spec = spec /\ b.plan = CompileScan(spec, Down(spec))
              /\ b.cursor = cursor /\ b.part = 1
              /\ b.at = (IF store.leaf = "sql" /\ cursor # None THEN Position(Listing, cursor) ELSE 0)
              /\ b.started = (cursor = None \/ store.leaf \notin {"memory", "redis"})
              /\ b.snapshot = {k \in Key : data[1][k] # None}
              /\ b.ended = FALSE /\ b.relisted = FALSE /\ b.page = <<>> /\ b.given = 0
              /\ b.passed = 0 /\ b.seen = {} /\ b.batch = <<>> /\ b.confirmed = FALSE
              /\ b.ready = <<>> /\ b.pending = <<>> /\ b.filled = FALSE /\ b.out = <<>>
BY DEF Begun

LEMMA BegunTypes ==
    ASSUME ScanTypes, NEW spec \in Specs, NEW cursor \in Key \cup {None}, NEW n \in Nat,
           cursor # None => n = Len(Listing)
    PROVE  Begun(spec, cursor) \in Scans(CompileScan(spec, Down(spec)), n)
<1>1. (IF store.leaf = "sql" /\ cursor # None THEN Position(Listing, cursor) ELSE 0) \in 0 .. n
  <2>1. cursor # None => Position(Listing, cursor) \in 1 .. Len(Listing)
      BY PositionTypes
  <2> QED BY <2>1
<1>2. {k \in Key : data[1][k] # None} \in SUBSET Key /\ <<>> \in Seq(Row)
    OBVIOUS
<1>3. (cursor = None \/ store.leaf \notin {"memory", "redis"}) \in BOOLEAN
    OBVIOUS
<1> DEFINE at1 == IF store.leaf = "sql" /\ cursor # None THEN Position(Listing, cursor) ELSE 0
           st1 == cursor = None \/ store.leaf \notin {"memory", "redis"}
           sn1 == {k \in Key : data[1][k] # None}
           pl == CompileScan(spec, Down(spec))
<1>4. Begun(spec, cursor) =
        [step |-> "listing", spec |-> spec, plan |-> pl, cursor |-> cursor, part |-> 1,
         at |-> at1, started |-> st1, snapshot |-> sn1,
         ended |-> FALSE, relisted |-> FALSE, page |-> <<>>, given |-> 0, passed |-> 0,
         seen |-> {}, batch |-> <<>>, confirmed |-> FALSE, ready |-> <<>>,
         pending |-> <<>>, filled |-> FALSE, out |-> <<>>]
    BY DEF Begun
<1> HIDE DEF at1, st1, sn1, pl
<1>5. at1 \in 0 .. n /\ st1 \in BOOLEAN /\ sn1 \in SUBSET Key
    BY <1>1, <1>2, <1>3 DEF at1, st1, sn1
<1> QED BY <1>2, <1>4, <1>5 DEF Scans, Parts, pl

LEMMA NextPartTypes == ASSUME ScanTypes, Grounded, NextPart PROVE ScanTypes'
<1> DEFINE first == Begun(scan.spec, scan.cursor)
           S == Scans(PlanOf, Len(Order))
           part1 == scan.part + 1
           snap1 == {k \in Key : data[2][k] # None}
<1>0. Underway /\ Typed /\ Due = "part"
    BY TypedFields DEF Underway, NextPart
<1>1. scan \in S
    BY <1>0, ScansTypes
<1>2. part1 \in Parts
  <2>1. scan.part # Len(Scanned)
      BY <1>0, DueFacts
  <2>2. scan.part \in {1, 2} /\ (scan.part = 2 => store.view = "union")
      BY <1>0 DEF Typed, Grounded
  <2>3. scan.part = 1
    <3>1. store.view = "union" => Len(Scanned) = 2
        BY DEF Scanned
    <3> QED BY <2>1, <2>2, <3>1
  <2> QED BY <2>3 DEF Parts
<1>3. first.at \in 0 .. Len(Order) /\ first.started \in BOOLEAN
  <2>1. scan.cursor # None => ~ scan.spec.orderBy
      BY <1>0 DEF Grounded
  <2>2. Len(Order) \in Nat /\ (scan.cursor # None => Len(Order) = Len(Listing))
      BY <1>0, <2>1, OrderTypes DEF Order
  <2>3. first \in Scans(CompileScan(scan.spec, Down(scan.spec)), Len(Order))
    <3>1. scan.spec \in Specs /\ scan.cursor \in Key \cup {None}
        BY <1>0 DEF Typed
    <3> QED BY <2>2, <3>1, BegunTypes
  <2> HIDE DEF first
  <2> QED BY <2>3 DEF Scans
<1>4. scan' = [scan EXCEPT !.part = part1, !.ended = FALSE, !.at = first.at,
                           !.started = first.started, !.snapshot = snap1]
    BY DEF NextPart
<1> DEFINE at1 == first.at
           st1 == first.started
<1>5. snap1 \in SUBSET Key
    OBVIOUS
<1>6. scan' = [scan EXCEPT !.part = part1, !.ended = FALSE, !.at = at1, !.started = st1, !.snapshot = snap1]
    BY <1>4
<1>7. at1 \in 0 .. Len(Order) /\ st1 \in BOOLEAN
    BY <1>3
<1> HIDE DEF part1, snap1, at1, st1
<1> DEFINE a == [scan EXCEPT !.part = part1]
           b == [a EXCEPT !.ended = FALSE]
           c == [b EXCEPT !.at = at1]
           d == [c EXCEPT !.started = st1]
           e == [d EXCEPT !.snapshot = snap1]
<1>8. a \in S
    BY <1>1, <1>2, ScanExcept
<1>9. b \in S
  <2> HIDE DEF a
  <2> QED BY <1>8, ScanExcept
<1>10. c \in S
  <2> HIDE DEF b
  <2> QED BY <1>7, <1>9, ScanExcept
<1>11. d \in S
  <2> HIDE DEF c
  <2> QED BY <1>7, <1>10, ScanExcept
<1>12. e \in S
  <2> HIDE DEF d
  <2> QED BY <1>5, <1>11, ScanExcept
<1>13. scan' = e
    BY <1>1, <1>6 DEF Scans
<1>14. scan' \in S
    BY <1>12, <1>13
<1> QED BY <1>14, NextPartEffect, ScansTypes

\* A scan that begins anew: the first time, or where a caller left off.
LEMMA AnewTypes ==
    ASSUME ScanTypes, NEW spec \in Specs, NEW cursor \in Key \cup {None},
           cursor # None => ~ spec.orderBy,
           UNCHANGED <<data, old, store, touched, writes>>,
           listed' \in Seq(Key), resumes' \in 0 .. MaxResumes,
           \/ scan' = Begun(spec, cursor)
           \/ scan' = [Begun(spec, cursor) EXCEPT !.step = "refused"]
    PROVE  ScanTypes' /\ Underway'
<1> DEFINE b == Begun(spec, cursor)
           order == IF spec.orderBy THEN ByColumn ELSE Listing
           pl == CompileScan(spec, Down(spec))
<1>1. Len(order) \in Nat /\ (cursor # None => Len(order) = Len(Listing))
    BY OrderAssumption
<1>2. b \in Scans(pl, Len(order))
    BY <1>1, BegunTypes
<1> HIDE DEF b
<1>3. [b EXCEPT !.step = "refused"] \in Scans(pl, Len(order))
    BY <1>2, ScanExcept
<1>4. scan' \in Scans(pl, Len(order))
    BY <1>2, <1>3 DEF b
<1>5. scan'.spec = spec
  <2>1. b.spec = spec
      BY DEF b, Begun
  <2>2. [b EXCEPT !.step = "refused"].spec = b.spec
      BY <1>2 DEF Scans
  <2> QED BY <2>1, <2>2 DEF b
<1>6. PlanOf' = pl
  <2>1. PlanOf' = CompileScan(scan'.spec, Down(scan'.spec))
    <3>1. store' = store
        OBVIOUS
    <3> QED BY <3>1, Zenon DEF PlanOf, CompileScan, Down, ScanValuesThrough, ScanRekeyed, PartKeySpec,
                OrderedLimit, KeysetLimit, NeedsValues
  <2> QED BY <1>5, <2>1
<1>7. Order' = order
    BY <1>5 DEF Order
<1>8. scan' \in Scans(PlanOf', Len(Order'))
    BY <1>4, <1>6, <1>7
<1>9. /\ data' \in [Parts -> [Key -> Value \cup {None}]]
      /\ old' \subseteq Key /\ touched' \subseteq Key /\ store' \in Stores /\ writes' \in 0 .. MaxWrites
    BY DEF ScanTypes
<1>10. ScanTypes'
    BY <1>8, <1>9 DEF ScanTypes, Scans, PlanOf
<1> QED BY <1>4, <1>10 DEF Underway, Scans

LEMMA ScanRowsOfTypes ==
    ASSUME ScanTypes, NEW spec \in Specs, ScanRowsOf(spec)
    PROVE  /\ ScanTypes' /\ Underway'
           /\ scan' = Begun(spec, None) \/ scan' = [Begun(spec, None) EXCEPT !.step = "refused"]
           /\ UNCHANGED <<data, old, store, listed, touched, writes, resumes>>
<1>1. /\ scan' = Begun(spec, None) \/ scan' = [Begun(spec, None) EXCEPT !.step = "refused"]
      /\ UNCHANGED <<data, old, store, listed, touched, writes, resumes>>
    BY DEF ScanRowsOf
<1>2. listed' \in Seq(Key) /\ resumes' \in 0 .. MaxResumes
    BY <1>1 DEF ScanTypes
<1>3. ScanTypes' /\ Underway'
  <2>1. None \in Key \cup {None}
      OBVIOUS
  <2> QED BY <1>1, <1>2, <2>1, AnewTypes
<1> QED BY <1>1, <1>3

LEMMA ResumeTypes ==
    ASSUME ScanTypes, Resume
    PROVE  /\ ScanTypes' /\ Underway'
           /\ scan' = Begun(scan.spec, scan.out[Len(scan.out)].key)
           /\ scan.out[Len(scan.out)].key \in Key
           /\ listed' = listed \o KeysOf(scan.out) /\ KeysOf(scan.out) \in Seq(Key)
           /\ resumes' = resumes + 1
           /\ UNCHANGED <<data, old, store, touched, writes>>
<1> DEFINE cursor == scan.out[Len(scan.out)].key
<1>1. /\ scan' = Begun(scan.spec, cursor) /\ listed' = listed \o KeysOf(scan.out)
      /\ resumes' = resumes + 1 /\ resumes < MaxResumes
      /\ UNCHANGED <<data, old, store, touched, writes>>
      /\ ~ scan.spec.orderBy /\ scan.out # <<>> /\ scan.step = "done"
    BY DEF Resume
<1>2. scan.out \in Seq(Row) /\ scan.spec \in Specs
    BY <1>1, TypedFields DEF Underway, Typed
<1>3. cursor \in Key
  <2>1. scan.out[Len(scan.out)] \in Row
      BY <1>1, <1>2
  <2> QED BY <2>1, RowFields
<1>4. KeysOf(scan.out) \in Seq(Key)
  <2> DEFINE f == KeysOf(scan.out)
  <2>1. f = [i \in DOMAIN scan.out |-> f[i]] /\ \A i \in DOMAIN scan.out : f[i] \in Key
    <3>1. \A i \in DOMAIN scan.out : scan.out[i] \in Row
        BY <1>2
    <3> QED BY <3>1, RowFields DEF KeysOf
  <2> HIDE DEF f
  <2> QED BY <1>2, <2>1, MappedSeq DEF f
<1>5. listed' \in Seq(Key) /\ resumes' \in 0 .. MaxResumes
    BY <1>1, <1>4, ScanAssumption DEF ScanTypes
<1>6. ScanTypes' /\ Underway'
  <2> HIDE DEF cursor
  <2> QED BY <1>1, <1>2, <1>3, <1>5, AnewTypes
<1> QED BY <1>1, <1>3, <1>4, <1>6

LEMMA DeleteWhereTypes ==
    ASSUME ScanTypes, DeleteWhere PROVE ScanTypes' /\ scan'.step = "deleted" /\ Underway
<1> DEFINE them == {scan.out[i].key : i \in DOMAIN scan.out}
           gone == IF store.view = "rekeyed" THEN {ToStore(k) : k \in them} ELSE them
           parts == IF store.view \in {"commit", "union"} THEN Parts ELSE {1}
<1>1. /\ scan' = [scan EXCEPT !.step = "deleted"] /\ scan.step = "done"
      /\ UNCHANGED <<old, store, listed, touched, writes, resumes>>
      /\ data' = [p \in Parts |-> [k \in Key |->
                     IF p \in parts /\ k \in gone THEN None ELSE data[p][k]]]
    BY DEF DeleteWhere
<1>2. scan \in Scans(PlanOf, Len(Order))
    BY <1>1, ScansTypes DEF Underway
<1>3. scan' \in Scans(PlanOf, Len(Order)) /\ scan'.spec = scan.spec /\ scan'.step = "deleted"
  <2>1. [scan EXCEPT !.step = "deleted"] \in Scans(PlanOf, Len(Order))
      BY <1>2, ScanExcept
  <2>2. scan'.spec = scan.spec /\ scan'.step = "deleted"
      BY <1>1, <1>2 DEF Scans
  <2> QED BY <1>1, <2>1, <2>2
<1>4. PlanOf' = PlanOf /\ Order' = Order
    BY <1>1, <1>3, PlanSame, OrderSame
<1>5. data' \in [Parts -> [Key -> Value \cup {None}]]
  <2>1. data \in [Parts -> [Key -> Value \cup {None}]]
      BY DEF ScanTypes
  <2> HIDE DEF gone, parts
  <2> QED BY <1>1, <2>1
<1>6. /\ old' \subseteq Key /\ touched' \subseteq Key /\ listed' \in Seq(Key)
      /\ store' \in Stores
      /\ writes' \in 0 .. MaxWrites /\ resumes' \in 0 .. MaxResumes
    BY <1>1 DEF ScanTypes
<1>7. scan' \in Scans(PlanOf', Len(Order'))
    BY <1>3, <1>4
<1>8. ScanTypes'
    BY <1>5, <1>6, <1>7 DEF ScanTypes, Scans, PlanOf
<1> QED BY <1>1, <1>3, <1>8 DEF Underway

LEMMA WriteTypes ==
    ASSUME ScanTypes, NEW p \in Parts, NEW k \in Key, NEW v \in Value \cup {None}, Write(p, k, v)
    PROVE  ScanTypes' /\ UNCHANGED <<store, scan, listed, resumes>> /\ Underway
<1>1. /\ UNCHANGED <<store, scan, listed, resumes>> /\ writes' = writes + 1 /\ writes < MaxWrites
      /\ data' = [data EXCEPT ![p][k] = v] /\ old' = IF p = 1 THEN old \ {k} ELSE old
      /\ touched' = touched \cup {IF store.view = "rekeyed" THEN Renamed[k] ELSE k}
      /\ scan.step \in {"listing", "done"}
    BY DEF Write
<1>2. data' \in [Parts -> [Key -> Value \cup {None}]]
    BY <1>1 DEF ScanTypes
<1>3. /\ old' \subseteq Key /\ touched' \subseteq Key /\ listed' \in Seq(Key) /\ store' \in Stores
      /\ writes' \in 0 .. MaxWrites /\ resumes' \in 0 .. MaxResumes
    BY <1>1, ToStoreTypes, ScanAssumption DEF ScanTypes
<1>4. PlanOf' = PlanOf /\ Order' = Order
    BY <1>1, PlanSame, OrderSame
<1>5. scan' \in Scans(PlanOf', Len(Order'))
    BY <1>1, <1>4, ScansTypes DEF Underway
<1>6. ScanTypes'
    BY <1>2, <1>3, <1>5 DEF ScanTypes, Scans, PlanOf
<1> QED BY <1>1, <1>6 DEF Underway

LEMMA GroundedKept ==
    ASSUME ScanTypes, Grounded, Underway, Same,
           scan'.step \in {"listing", "done", "failed"},
           scan'.part = 2 => store.view = "union",
           scan'.confirmed => scan'.batch # <<>>,
           scan'.filled => scan'.pending # <<>>
    PROVE  Grounded'
BY DEF Grounded, Same, Underway

LEMMA TailSome ==
    ASSUME NEW S, NEW s \in Seq(S), s # <<>>
    PROVE  /\ Head(s) \in S /\ Tail(s) \in Seq(S) /\ (Len(s) > 1 => Tail(s) # <<>>)
           /\ Len(Tail(s)) = Len(s) - 1
<1>1. Head(s) \in S /\ Tail(s) \in Seq(S) /\ Len(Tail(s)) = Len(s) - 1 /\ Len(s) \in Nat
    BY HeadTailProperties, LenProperties
<1>2. Len(s) > 1 => Len(Tail(s)) # 0
    BY <1>1
<1>3. Tail(s) = <<>> => Len(Tail(s)) = 0
    BY EmptySeq
<1> QED BY <1>1, <1>2, <1>3, Zenon

LEMMA AppendSome ==
    ASSUME NEW S, NEW s \in Seq(S), NEW e \in S
    PROVE  Append(s, e) \in Seq(S) /\ Append(s, e) # <<>> /\ Len(Append(s, e)) = Len(s) + 1
BY AppendProperties

LEMMA BegunGrounded ==
    ASSUME NEW spec \in Specs, NEW cursor \in Key \cup {None}, cursor # None => ~ spec.orderBy,
           store' = store,
           \/ scan' = Begun(spec, cursor)
           \/ scan' = [Begun(spec, cursor) EXCEPT !.step = "refused"]
    PROVE  Grounded'
<1>1. /\ scan'.spec = spec /\ scan'.cursor = cursor /\ scan'.part = 1 /\ scan'.confirmed = FALSE
      /\ scan'.filled = FALSE /\ scan'.step # "planned"
  <2>1. CASE scan' = Begun(spec, cursor)
      BY <2>1 DEF Begun
  <2>2. CASE scan' = [Begun(spec, cursor) EXCEPT !.step = "refused"]
      BY <2>2 DEF Begun
  <2> QED BY <2>1, <2>2
<1> QED BY <1>1 DEF Grounded

Stepped == Fetch \/ NextPart \/ List \/ Confirm \/ Bring \/ Take \/ Flush \/ Yield \/ End

LEMMA SteppedTypes == ASSUME ScanTypes, Grounded, Stepped PROVE ScanTypes' /\ Grounded'
<1>0. Underway /\ scan.step = "listing"
    BY DEF Stepped, Fetch, NextPart, List, Confirm, Bring, Take, Flush, Yield, End, Underway
<1>1. Typed
    BY <1>0, TypedFields
<1>2. CASE Fetch
  <2>1. ScanTypes'
      BY <1>2, FetchTypes
  <2> QED BY <1>0, <1>2, <2>1, FetchEffect, GroundedKept DEF Grounded, SameCascade
<1>3. CASE NextPart
  <2>1. ScanTypes'
      BY <1>3, NextPartTypes
  <2>2. store.view = "union"
    <3>1. scan.part # Len(Scanned) /\ scan.part \in {1, 2} /\ (scan.part = 2 => store.view = "union")
        BY <1>0, <1>1, <1>3, DueFacts DEF NextPart, Typed, Grounded
    <3>2. store.view # "union" => Len(Scanned) = 1
        BY DEF Scanned
    <3> QED BY <3>1, <3>2
  <2> QED BY <1>0, <1>3, <2>1, <2>2, NextPartEffect, GroundedKept DEF Grounded, SameCascade
<1>4. CASE List
  <2>0. scan.page # <<>> /\ ~ scan.confirmed
      BY <1>0, <1>4, DueFacts DEF List
  <2>1. ScanTypes'
      BY <1>4, <2>0, ListTypes
  <2>2. /\ Same /\ SamePlace /\ scan'.step = "listing" /\ scan'.confirmed = scan.confirmed
        /\ scan'.pending = scan.pending /\ scan'.filled = scan.filled
      BY <1>4, ListEffect
  <2> QED BY <1>0, <2>0, <2>1, <2>2, GroundedKept DEF Grounded, SamePlace
<1>5. CASE Confirm
  <2>0. scan.batch # <<>>
      BY <1>0, <1>5, DueFacts DEF Confirm
  <2>1. ScanTypes'
      BY <1>5, ConfirmTypes
  <2>2. scan'.batch # <<>>
    <3>1. scan.batch \in Seq(Row) /\ DOMAIN scan'.batch = DOMAIN scan.batch
        BY <1>1, <1>5, ConfirmEffect DEF Typed
    <3> QED BY <2>0, <3>1
  <2>3. Same /\ SamePlace /\ scan'.step = "listing" /\ scan'.pending = scan.pending /\ scan'.filled = scan.filled
      BY <1>5, ConfirmEffect
  <2> QED BY <1>0, <2>1, <2>2, <2>3, GroundedKept DEF Grounded, SamePlace
<1>6. CASE Bring
  <2>0. scan.batch # <<>> /\ scan.batch \in Seq(Row)
      BY <1>0, <1>1, <1>6, DueFacts DEF Bring, Grounded, Typed
  <2>1. ScanTypes'
      BY <1>6, <2>0, BringTypes
  <2>2. /\ Same /\ SamePlace /\ scan'.step = "listing" /\ scan'.pending = scan.pending
        /\ scan'.filled = scan.filled /\ scan'.batch = Tail(scan.batch)
        /\ scan'.confirmed = (Len(scan.batch) > 1)
      BY <1>6, BringEffect
  <2>3. scan'.confirmed => scan'.batch # <<>>
      BY <2>0, <2>2, TailSome
  <2> QED BY <1>0, <2>1, <2>2, <2>3, GroundedKept DEF Grounded, SamePlace
<1>7. CASE Take
  <2>0. scan.ready # <<>> /\ ~ scan.filled
      BY <1>0, <1>7, DueFacts DEF Take
  <2>1. ScanTypes'
      BY <1>7, <2>0, TakeTypes
  <2>2. /\ Same /\ SamePlace /\ scan'.step \in {"listing", "done"} /\ scan'.batch = scan.batch
        /\ scan'.filled = scan.filled /\ scan'.confirmed = scan.confirmed
      BY <1>7, TakeEffect
  <2> QED BY <1>0, <2>0, <2>1, <2>2, GroundedKept DEF Grounded, SamePlace
<1>8. CASE Flush
  <2>0. scan.pending # <<>>
      BY <1>0, <1>8, DueFacts DEF Flush
  <2>1. ScanTypes'
      BY <1>8, FlushTypes
  <2>2. /\ Same /\ SamePlace /\ scan'.step \in {"listing", "failed"} /\ scan'.batch = scan.batch
        /\ scan'.confirmed = scan.confirmed
        /\ scan'.pending = scan.pending \/ DOMAIN scan'.pending = DOMAIN scan.pending
      BY <1>8, FlushEffect
  <2>3. scan'.pending # <<>>
    <3>1. scan.pending \in Seq(Row)
        BY <1>1 DEF Typed
    <3> QED BY <2>0, <2>2, <3>1
  <2> QED BY <1>0, <2>1, <2>2, <2>3, GroundedKept DEF Grounded, SamePlace
<1>9. CASE Yield
  <2>0. scan.pending # <<>> /\ scan.pending \in Seq(Row)
      BY <1>0, <1>1, <1>9, DueFacts DEF Yield, Grounded, Typed
  <2>1. ScanTypes'
      BY <1>9, <2>0, YieldTypes
  <2>2. /\ Same /\ SamePlace /\ scan'.step \in {"listing", "done"} /\ scan'.batch = scan.batch
        /\ scan'.confirmed = scan.confirmed /\ scan'.pending = Tail(scan.pending)
        /\ scan'.filled = (Len(scan.pending) > 1)
      BY <1>9, YieldEffect
  <2>3. scan'.filled => scan'.pending # <<>>
      BY <2>0, <2>2, TailSome
  <2> QED BY <1>0, <2>1, <2>2, <2>3, GroundedKept DEF Grounded, SamePlace
<1>10. CASE End
  <2>1. ScanTypes'
      BY <1>10, EndTypes
  <2> QED BY <1>0, <1>10, <2>1, EndEffect, GroundedKept DEF Grounded, SamePlace, SameCascade
<1> QED BY <1>2, <1>3, <1>4, <1>5, <1>6, <1>7, <1>8, <1>9, <1>10 DEF Stepped

LEMMA NextTypes == ASSUME ScanTypes, Grounded, [ScanNext]_scanVars PROVE ScanTypes' /\ Grounded'
<1>1. ASSUME NEW spec \in Specs, ScanRowsOf(spec) PROVE ScanTypes' /\ Grounded'
  <2>1. None \in Key \cup {None}
      OBVIOUS
  <2> QED BY <1>1, <2>1, ScanRowsOfTypes, BegunGrounded
<1>2. CASE Stepped
    BY <1>2, SteppedTypes
<1>3. CASE Resume
  <2>1. scan.spec \in Specs /\ ~ scan.spec.orderBy
      BY <1>3, TypedFields DEF Resume, Underway, Typed
  <2> QED BY <1>3, <2>1, ResumeTypes, BegunGrounded
<1>4. CASE DeleteWhere
  <2>1. ScanTypes' /\ scan'.step = "deleted" /\ Underway
      BY <1>4, DeleteWhereTypes
  <2>2. /\ scan'.spec = scan.spec /\ scan'.cursor = scan.cursor /\ scan'.part = scan.part
        /\ scan'.confirmed = scan.confirmed /\ scan'.batch = scan.batch /\ store' = store
        /\ scan'.filled = scan.filled /\ scan'.pending = scan.pending
    <3>1. scan' = [scan EXCEPT !.step = "deleted"] /\ scan \in Scans(PlanOf, Len(Order)) /\ store' = store
        BY <1>4, <2>1, ScansTypes DEF DeleteWhere
    <3> QED BY <3>1 DEF Scans
  <2> QED BY <2>1, <2>2 DEF Grounded
<1>5. ASSUME NEW p \in Parts, NEW k \in Key, NEW v \in Value \cup {None}, Write(p, k, v)
      PROVE  ScanTypes' /\ Grounded'
    BY <1>5, WriteTypes DEF Grounded, Underway
<1>6. CASE UNCHANGED scanVars
  <2>1. PlanOf' = PlanOf /\ Order' = Order
      BY <1>6, PlanSame, OrderSame DEF scanVars
  <2>2. Grounded'
      BY <1>6 DEF Grounded, Underway, scanVars
  <2> QED BY <1>6, <2>1, <2>2 DEF ScanTypes, PlanOf, scanVars
<1> QED BY <1>1, <1>2, <1>3, <1>4, <1>5, <1>6 DEF ScanNext, Stepped

LEMMA InitTypes == ScanInit => ScanTypes /\ Grounded
<1> SUFFICES ASSUME ScanInit PROVE ScanTypes /\ Grounded
    OBVIOUS
<1>1. /\ data \in [Parts -> [Key -> Value \cup {None}]] /\ old \subseteq Key /\ store \in Stores
      /\ listed = <<>> /\ touched = {} /\ writes = 0 /\ resumes = 0
    BY ScanAssumption DEF ScanInit
<1>2. scan.step = "idle" \/ (scan.step = "planned" /\ scan.where \in Trees)
    BY DEF ScanInit, Idle
<1>3. /\ touched \subseteq Key /\ listed \in Seq(Key)
      /\ writes \in 0 .. MaxWrites /\ resumes \in 0 .. MaxResumes
    BY <1>1, ScanAssumption
<1>4. scan.step \in {"idle", "planned"}
    BY <1>2
<1>5. ScanTypes
    BY <1>1, <1>3, <1>4 DEF ScanTypes
<1> QED BY <1>2, <1>5 DEF Grounded, Underway

LEMMA ScanTyped == ScanSpec => [](ScanTypes /\ Grounded)
<1>1. ScanInit => ScanTypes /\ Grounded
    BY InitTypes
<1>2. ScanTypes /\ Grounded /\ [ScanNext]_scanVars => (ScanTypes /\ Grounded)'
    BY NextTypes
<1> QED BY <1>1, <1>2, PTL DEF ScanSpec

-----------------------------------------------------------------------------
(***************************************************************************)
(* Filters taken apart.                                                    *)
(***************************************************************************)

\* The functions of scan.py recur as their bodies say, over filters built from
\* the predicates of scan.py.
Filtering ==
    /\ Recursions
    /\ \A spec \in Specs : spec.where \in Predicate
    /\ Trees \subseteq Predicate

\* The groups the cascade asks in turn are together the filter.
LEMMA PartitionedAlike ==
    ASSUME Recursions, NEW p \in Predicate, NEW row \in Row
    PROVE  LET need == PartitionByNeeds(p)
               bare == [row EXCEPT !.value = None, !.stat = None]
               valueless == [row EXCEPT !.value = None]
           IN Evaluate(p, row) = (/\ AllPass(need.key, bare) /\ AllPass(need.stat, valueless)
                                  /\ AllPass(need.value, row))
<1> DEFINE need == PartitionByNeeds(p)
           bare == [row EXCEPT !.value = None, !.stat = None]
           valueless == [row EXCEPT !.value = None]
<1>1. bare \in Row /\ valueless \in Row /\ bare.key = row.key /\ valueless.key = row.key
      /\ valueless.stat = row.stat
    BY DEF Row, Stat
<1>2. FlattenAnd(p) \subseteq Predicate /\ Evaluate(p, row) = AllPass(FlattenAnd(p), row)
    BY EveryPredicateConjoined DEF Conjoined
<1>3. /\ need.key = {c \in FlattenAnd(p) : "value" \notin Needs(c) /\ "stat" \notin Needs(c)}
      /\ need.stat = {c \in FlattenAnd(p) : "value" \notin Needs(c) /\ "stat" \in Needs(c)}
      /\ need.value = {c \in FlattenAnd(p) : "value" \in Needs(c)}
    BY DEF PartitionByNeeds
<1> HIDE DEF need, bare, valueless
<1>4. ASSUME NEW c \in need.key PROVE Evaluate(c, bare) = Evaluate(c, row)
  <2>1. c \in Predicate /\ SameTo(c, bare, row)
      BY <1>1, <1>2, <1>3 DEF SameTo
  <2> QED BY <1>1, <2>1, EveryPredicateLooks DEF LooksOnlyAt
<1>5. ASSUME NEW c \in need.stat PROVE Evaluate(c, valueless) = Evaluate(c, row)
  <2>1. c \in Predicate /\ SameTo(c, valueless, row)
      BY <1>1, <1>2, <1>3 DEF SameTo
  <2> QED BY <1>1, <2>1, EveryPredicateLooks DEF LooksOnlyAt
<1>6. FlattenAnd(p) = need.key \cup need.stat \cup need.value
    BY <1>3
<1>7. AllPass(FlattenAnd(p), row) =
        (/\ AllPass(need.key, bare) /\ AllPass(need.stat, valueless) /\ AllPass(need.value, row))
    BY <1>4, <1>5, <1>6 DEF AllPass
<1> QED BY <1>2, <1>7 DEF need, bare, valueless

LEMMA FilterOf ==
    ASSUME Filtering, ScanTypes, Grounded, scan.step # "idle" PROVE Where \in Predicate
<1>1. CASE scan.step = "planned"
    BY <1>1 DEF Filtering, Grounded, Where
<1>2. CASE scan.step # "planned"
  <2>1. scan.spec \in Specs
      BY <1>2 DEF ScanTypes
  <2> QED BY <1>2, <2>1 DEF Filtering, Where
<1> QED BY <1>1, <1>2

LEMMA TypesSplitAlike == ASSUME Filtering, ScanTypes, Grounded PROVE SplitsAlike
<1> SUFFICES ASSUME scan.step # "idle" PROVE TakenApartAlike /\ GcMeansExpired
    BY DEF SplitsAlike, TakenApartAlike, GcMeansExpired
<1>0. Where \in Predicate /\ Recursions
    BY FilterOf DEF Filtering
<1> DEFINE peeled == PeelKeyPrefix(Where)
           split == SplitKeyPredicates(Where)
           need == PartitionByNeeds(Where)
<1>1. Peels(Where) /\ Halves(Where, split)
    BY <1>0, EveryPredicatePeels, EveryPredicateSplits
<1>2. ASSUME NEW row \in Row
      PROVE  LET bare == [row EXCEPT !.value = None, !.stat = None]
             IN Evaluate(Where, row) = (Evaluate(split.keys, bare) /\ Evaluate(split.residual, row))
  <2> DEFINE bare == [row EXCEPT !.value = None, !.stat = None]
  <2>1. bare \in Row /\ bare.key = row.key
      BY DEF Row, Stat
  <2>2. split.keys \in Predicate /\ Needs(split.keys) \subseteq {"key"}
      BY <1>1 DEF Halves
  <2>3. SameTo(split.keys, bare, row)
      BY <2>1, <2>2 DEF SameTo
  <2> HIDE DEF bare
  <2>4. Evaluate(split.keys, bare) = Evaluate(split.keys, row)
      BY <1>0, <2>1, <2>2, <2>3, EveryPredicateLooks DEF LooksOnlyAt
  <2>5. Evaluate(Where, row) = (Evaluate(split.keys, row) /\ Evaluate(split.residual, row))
      BY <1>1 DEF Halves
  <2> QED BY <2>4, <2>5 DEF bare
<1>3. ASSUME NEW row \in Row
      PROVE  Evaluate(Where, row) = ((peeled.prefix => row.key \in Under) /\ Evaluate(peeled.residual, row))
    BY <1>1 DEF Peels
<1>4. TakenApartAlike
  <2>1. ASSUME NEW row \in Row
        PROVE  LET bare == [row EXCEPT !.value = None, !.stat = None]
                   valueless == [row EXCEPT !.value = None]
               IN Evaluate(Where, row) = (/\ AllPass(need.key, bare) /\ AllPass(need.stat, valueless)
                                          /\ AllPass(need.value, row))
      BY <1>0, PartitionedAlike
  <2>2. \A row \in Row :
          LET wanted == Evaluate(Where, row)
              bare == [row EXCEPT !.value = None, !.stat = None]
              valueless == [row EXCEPT !.value = None]
          IN /\ wanted = ((peeled.prefix => row.key \in Under) /\ Evaluate(peeled.residual, row))
             /\ wanted = (Evaluate(split.keys, bare) /\ Evaluate(split.residual, row))
             /\ wanted = (/\ AllPass(need.key, bare) /\ AllPass(need.stat, valueless)
                          /\ AllPass(need.value, row))
    <3> TAKE row \in Row
    <3>1. Evaluate(Where, row) = ((peeled.prefix => row.key \in Under) /\ Evaluate(peeled.residual, row))
        BY <1>3
    <3>2. LET bare == [row EXCEPT !.value = None, !.stat = None]
          IN Evaluate(Where, row) = (Evaluate(split.keys, bare) /\ Evaluate(split.residual, row))
        BY <1>2
    <3>3. LET bare == [row EXCEPT !.value = None, !.stat = None]
              valueless == [row EXCEPT !.value = None]
          IN Evaluate(Where, row) = (/\ AllPass(need.key, bare) /\ AllPass(need.stat, valueless)
                                     /\ AllPass(need.value, row))
        BY <2>1
    <3> QED BY <3>1, <3>2, <3>3, Zenon
  <2> QED BY <2>2, Zenon DEF TakenApartAlike
<1>5. GcMeansExpired
    BY <1>0, GcIsExpired DEF GcMeansExpired
<1> QED BY <1>4, <1>5

\* A filter split, peeled, partitioned or handed to gc selects what it selected
\* whole, for filters of any depth over any keys and values (scan.py).
THEOREM FilteringSplitsAlike == ASSUME Filtering PROVE ScanSpec => []SplitsAlike
<1>1. ScanTypes /\ Grounded => SplitsAlike
    BY TypesSplitAlike
<1> QED BY <1>1, ScanTyped, PTL

-----------------------------------------------------------------------------

LEMMA SameOperators ==
    ASSUME Same
    PROVE  /\ Order' = Order /\ Steady' = Steady /\ ReadsValues' = ReadsValues
           /\ StatReaches' = StatReaches /\ Batched' = Batched /\ Scanned' = Scanned /\ Size' = Size
           /\ \A k : /\ Caller(k)' = Caller(k) /\ StoredKey(k)' = StoredKey(k) /\ Pos(k)' = Pos(k)
                     /\ PartOf(k)' = PartOf(k) /\ StatOf(k)' = StatOf(k)
                     /\ UnderPrefix(k)' = UnderPrefix(k) /\ Sought(k)' = Sought(k)
                     /\ Present(k)' = Present(k)
           /\ \A k : BatchGet(data, k)' = BatchGet(data, k)
           /\ \A k : Holds(k)' = Holds(k)
           /\ \A k : Matches(k)' = Matches(k)
           /\ \A k : TakenForUnder(k)' = TakenForUnder(k)
           /\ \A p, k : LeafRow(p, k)' = LeafRow(p, k)
           /\ \A row : ViewRow(row)' = ViewRow(row)
           /\ \A row : Accepted(row)' = Accepted(row)
           /\ \A row : Deserved(row)' = Deserved(row)
           /\ \A row : OutRow(row)' = OutRow(row)
           /\ \A row : ViewedRow(row)' = ViewedRow(row)
<1>1. Order' = Order /\ Steady' = Steady /\ ReadsValues' = ReadsValues /\ Scanned' = Scanned
    BY Zenon DEF Same, Order, Steady, ReadsValues, Scanned
<1>2. StatReaches' = StatReaches
    BY Zenon DEF Same, StatReaches
<1>3. Batched' = Batched
    BY Zenon DEF Same, Batched, NeedsValues
<1>4. Size' = Size
    BY <1>1, Zenon DEF Same, Size
<1>5. \A k : BatchGet(data, k)' = BatchGet(data, k)
    BY Zenon DEF Same, BatchGet
<1>6. \A k : StoredKey(k)' = StoredKey(k) /\ Caller(k)' = Caller(k)
    BY Zenon DEF Same, StoredKey, Caller
<1>7. \A k : Pos(k)' = Pos(k)
    BY <1>1, <1>6, Zenon DEF Same, Pos
<1>8. \A k : PartOf(k)' = PartOf(k)
    BY <1>6, Zenon DEF Same, PartOf
<1>9. \A k : StatOf(k)' = StatOf(k)
    BY <1>2, <1>6, Zenon DEF Same, StatOf
<1>10. \A k : UnderPrefix(k)' = UnderPrefix(k)
    BY Zenon DEF Same, UnderPrefix
<1>11. \A k : Sought(k)' = Sought(k)
    BY <1>10, Zenon DEF Same, Sought
<1>12. \A k : Present(k)' = Present(k)
    BY <1>6, Zenon DEF Same, Present
<1>13. \A k : Holds(k)' = Holds(k)
  <2>1. NeedsValues(scan.spec, scan.plan.residual)' = NeedsValues(scan.spec, scan.plan.residual)
      BY Zenon DEF Same, NeedsValues
  <2>2. store' = store /\ data' = data
      BY DEF Same
  <2> QED BY <1>5, <2>1, <2>2 DEF Holds
<1>14. \A k : Matches(k)' = Matches(k)
    BY <1>2, <1>5, <1>6, <1>13, Zenon DEF Same, Matches
<1>15. \A k : TakenForUnder(k)' = TakenForUnder(k)
    BY Zenon DEF Same, TakenForUnder
<1>16. \A p, k : LeafRow(p, k)' = LeafRow(p, k)
    BY Zenon DEF Same, LeafRow
<1>17. \A row : ViewRow(row)' = ViewRow(row)
    BY Zenon DEF Same, ViewRow
<1>18. \A row : Accepted(row)' = Accepted(row)
    BY Zenon DEF Same, Accepted
<1>19. \A row : Deserved(row)' = Deserved(row)
    BY <1>1, <1>14, <1>15, <1>18, Zenon DEF Same, Deserved
<1>20. \A row : OutRow(row)' = OutRow(row)
    BY <1>1, <1>6, <1>11, <1>12, <1>19, Zenon DEF OutRow
<1>21. \A row : ViewedRow(row)' = ViewedRow(row)
    BY <1>1, <1>5, <1>6, <1>9, <1>11, <1>12, Zenon DEF Same, ViewedRow
<1> QED BY <1>1, <1>2, <1>3, <1>4, <1>5, <1>6, <1>7, <1>8, <1>9, <1>10, <1>11, <1>12, <1>13, <1>14,
           <1>15, <1>16, <1>17, <1>18, <1>19, <1>20, <1>21

-----------------------------------------------------------------------------
(***************************************************************************)
(* Plans.  What a view asks of the leaf, what is left to the cascade, and  *)
(* what the two select together.                                           *)
(***************************************************************************)
LEMMA PlanFields ==
    ASSUME ScanTypes, Underway
    PROVE  LET down == Down(scan.spec)
               peeled == PeelKeyPrefix(down.where)
           IN /\ scan.plan.prefix = peeled.prefix /\ scan.plan.inner = peeled.residual
              /\ scan.plan.values = (down.project = "entries") /\ scan.plan.project = down.project
              /\ scan.plan.innerLimit = down.limit
              /\ scan.plan.residual = (IF store.view = "leaf" THEN peeled.residual ELSE down.residual)
              /\ scan.plan.limit = (IF store.leaf # "sql" THEN NoLimit
                                    ELSE IF scan.spec.orderBy THEN OrderedLimit(down)
                                    ELSE down.limit)
<1>1. scan.plan = CompileScan(scan.spec, Down(scan.spec))
    BY TypedFields DEF Typed, PlanOf
<1> QED BY <1>1 DEF CompileScan, KeysetLimit

LEMMA DownFields ==
    ASSUME ScanTypes, Underway
    PROVE  LET down == Down(scan.spec)
               split == SplitKeyPredicates(scan.spec.where)
           IN /\ store.view = "leaf" =>
                   /\ down.where = scan.spec.where /\ down.residual = AlwaysTrue
                   /\ down.project = scan.spec.project /\ down.limit = scan.spec.limit
                   /\ down.refine = scan.spec.refine
              /\ store.view = "rekeyed" =>
                   /\ down.where = AlwaysTrue /\ down.residual = scan.spec.where
                   /\ down.project = (IF NeedsValues(scan.spec, scan.spec.where)
                                      THEN "entries" ELSE scan.spec.project)
                   /\ down.limit = (IF scan.spec.where = AlwaysTrue /\ ~ scan.spec.refine
                                    THEN scan.spec.limit ELSE NoLimit)
                   /\ down.refine = FALSE
              /\ store.view = "mapped" =>
                   /\ down.where = split.keys /\ down.residual = split.residual
                   /\ down.project = (IF NeedsValues(scan.spec, split.residual)
                                      THEN "entries" ELSE scan.spec.project)
                   /\ down.limit = (IF split.residual = AlwaysTrue /\ ~ scan.spec.refine
                                    THEN scan.spec.limit ELSE NoLimit)
                   /\ down.refine = FALSE
              /\ store.view \in {"through", "commit", "union"} =>
                   /\ down.where = split.keys /\ down.residual = split.residual
                   /\ down.project = "keys" /\ down.limit = NoLimit /\ down.refine = FALSE
<1>1. CASE store.view = "leaf"
    BY <1>1 DEF Down
<1>2. CASE store.view = "rekeyed"
    BY <1>2 DEF Down, ScanRekeyed
<1>3. CASE store.view = "mapped"
    BY <1>3 DEF Down, ScanValuesThrough
<1>4. CASE store.view \in {"through", "commit", "union"}
  <2>1. Down(scan.spec) = PartKeySpec(scan.spec)
      BY <1>4 DEF Down
  <2>2. store.view \notin {"leaf", "rekeyed", "mapped"}
      BY <1>4
  <2>3. /\ Down(scan.spec).where = SplitKeyPredicates(scan.spec.where).keys
        /\ Down(scan.spec).residual = SplitKeyPredicates(scan.spec.where).residual
        /\ Down(scan.spec).project = "keys" /\ Down(scan.spec).limit = NoLimit
        /\ Down(scan.spec).refine = FALSE
      BY <2>1 DEF PartKeySpec
  <2> QED BY <2>2, <2>3, Zenon
<1> QED BY <1>1, <1>2, <1>3, <1>4, StoreTypes DEF Views

LEMMA AlwaysTruePeels ==
    ASSUME Recursions PROVE PeelKeyPrefix(AlwaysTrue) = [prefix |-> FALSE, residual |-> AlwaysTrue]
<1>1. AlwaysTrue \in Predicate
    BY PredicateClosed DEF Plain
<1>2. PeelKeyPrefix(AlwaysTrue) = PeelKeyPrefixOf(AlwaysTrue)
    BY <1>1 DEF Recursions
<1> QED BY <1>2 DEF PeelKeyPrefixOf, AlwaysTrue

LEMMA Sifts ==
    ASSUME Filtering, ScanTypes, Underway
    PROVE  /\ scan.plan.prefix \in BOOLEAN
           /\ scan.plan.residual \in Predicate /\ scan.plan.inner \in Predicate
           /\ store.view # "leaf" => Needs(scan.plan.inner) \subseteq {"key"}
           /\ store.view = "rekeyed" => ~ scan.plan.prefix
           /\ \A row \in Row :
                Evaluate(scan.spec.where, row) =
                  (/\ scan.plan.prefix => StoredKey(row.key) \in Under
                   /\ store.view # "leaf" => Evaluate(scan.plan.inner, Bare(StoredKey(row.key)))
                   /\ Evaluate(scan.plan.residual, row))
<1> DEFINE down == Down(scan.spec)
           peeled == PeelKeyPrefix(down.where)
           split == SplitKeyPredicates(scan.spec.where)
<1>0. scan.spec.where \in Predicate /\ Recursions /\ store.view \in Views
    BY TypedFields, StoreTypes DEF Filtering, Typed
<1>p. /\ scan.plan.prefix = peeled.prefix /\ scan.plan.inner = peeled.residual
      /\ scan.plan.residual = (IF store.view = "leaf" THEN peeled.residual ELSE down.residual)
    BY PlanFields
<1>h. Halves(scan.spec.where, split)
    BY <1>0, EveryPredicateSplits
<1>b. \A c \in Predicate, row \in Row : Evaluate(c, row) \in BOOLEAN
    BY <1>0, EveryPredicateLooks DEF LooksOnlyAt
<1>k. ASSUME NEW c \in Predicate, NEW row \in Row, Needs(c) \subseteq {"key"}
      PROVE  Evaluate(c, row) = Evaluate(c, Bare(row.key))
  <2>1. Bare(row.key) \in Row /\ SameTo(c, row, Bare(row.key))
      BY <1>k, RowFields DEF Bare, SameTo, Row, Stat
  <2> QED BY <1>0, <2>1, EveryPredicateLooks DEF LooksOnlyAt
<1>1. CASE store.view = "leaf"
  <2>1. down.where = scan.spec.where
      BY <1>1, DownFields
  <2>2. Peels(scan.spec.where)
      BY <1>0, EveryPredicatePeels
  <2>3. scan.plan.residual = peeled.residual /\ peeled = PeelKeyPrefix(scan.spec.where)
      BY <1>1, <1>p, <2>1
  <2>4. peeled.prefix \in BOOLEAN /\ peeled.residual \in Predicate
      BY <2>2, <2>3 DEF Peels
  <2> HIDE DEF peeled
  <2>5. ASSUME NEW row \in Row
        PROVE  Evaluate(scan.spec.where, row) =
                 ((scan.plan.prefix => StoredKey(row.key) \in Under) /\ Evaluate(scan.plan.residual, row))
    <3>1. StoredKey(row.key) = row.key
        BY <1>1 DEF StoredKey
    <3> QED BY <1>p, <2>2, <2>3, <3>1 DEF Peels
  <2> QED BY <1>1, <1>p, <2>3, <2>4, <2>5
<1>2. CASE store.view = "rekeyed"
  <2>1. down.where = AlwaysTrue /\ down.residual = scan.spec.where
      BY <1>2, DownFields
  <2>2. peeled = [prefix |-> FALSE, residual |-> AlwaysTrue]
      BY <1>0, <2>1, AlwaysTruePeels
  <2>3. scan.plan.prefix = FALSE /\ scan.plan.inner = AlwaysTrue /\ scan.plan.residual = scan.spec.where
      BY <1>2, <1>p, <2>1, <2>2
  <2>4. AlwaysTrue \in Predicate /\ Needs(AlwaysTrue) = {}
      BY <1>0, NeedsPlain, PredicateClosed DEF Plain
  <2>5. ASSUME NEW row \in Row
        PROVE  Evaluate(scan.spec.where, row) =
                 (Evaluate(scan.plan.inner, Bare(StoredKey(row.key))) /\ Evaluate(scan.plan.residual, row))
    <3>1. StoredKey(row.key) \in Key
        BY <1>2, RowFields, ToStoreTypes DEF StoredKey
    <3>2. Bare(StoredKey(row.key)) \in Row
        BY <3>1 DEF Bare, Row, Stat
    <3>3. Evaluate(AlwaysTrue, Bare(StoredKey(row.key))) = TRUE
        BY <1>0, <3>2, EvaluatePlain
    <3>4. Evaluate(scan.spec.where, row) \in BOOLEAN
        BY <1>0, <1>b
    <3> QED BY <2>3, <3>3, <3>4
  <2> QED BY <1>0, <1>2, <2>3, <2>4, <2>5
<1>3. CASE store.view \in {"mapped", "through", "commit", "union"}
  <2>1. down.where = split.keys /\ down.residual = split.residual
      BY <1>3, DownFields
  <2>2. split.keys \in Predicate /\ split.residual \in Predicate /\ Needs(split.keys) \subseteq {"key"}
      BY <1>h DEF Halves
  <2>3. Peels(split.keys)
      BY <1>0, <2>2, EveryPredicatePeels
  <2>4. scan.plan.residual = split.residual /\ peeled = PeelKeyPrefix(split.keys)
      BY <1>3, <1>p, <2>1
  <2>5. peeled.prefix \in BOOLEAN /\ peeled.residual \in Predicate /\ Needs(peeled.residual) \subseteq {"key"}
      BY <2>2, <2>3, <2>4 DEF Peels
  <2>6. ASSUME NEW row \in Row
        PROVE  Evaluate(scan.spec.where, row) =
                  (/\ scan.plan.prefix => StoredKey(row.key) \in Under
                   /\ Evaluate(scan.plan.inner, Bare(StoredKey(row.key)))
                   /\ Evaluate(scan.plan.residual, row))
    <3>1. StoredKey(row.key) = row.key
        BY <1>3 DEF StoredKey
    <3>2. Evaluate(split.keys, row) =
            ((peeled.prefix => row.key \in Under) /\ Evaluate(peeled.residual, row))
        BY <2>3, <2>4 DEF Peels
    <3>3. Evaluate(peeled.residual, row) = Evaluate(peeled.residual, Bare(row.key))
        BY <1>k, <2>5
    <3>4. Evaluate(scan.spec.where, row) = (Evaluate(split.keys, row) /\ Evaluate(split.residual, row))
        BY <1>h DEF Halves
    <3> HIDE DEF peeled, split, down
    <3> QED BY <1>p, <2>4, <3>1, <3>2, <3>3, <3>4
  <2> HIDE DEF peeled, split, down
  <2> QED BY <1>3, <1>p, <2>2, <2>4, <2>5, <2>6
<1> QED BY <1>0, <1>1, <1>2, <1>3 DEF Views

-----------------------------------------------------------------------------
(***************************************************************************)
(* What the rows of a scan show.                                           *)
(***************************************************************************)

LEMMA SameRows ==
    ASSUME Same
    PROVE  /\ scan'.part = scan.part => \A row : PageRow(row)' = PageRow(row)
           /\ scan'.confirmed = scan.confirmed => \A row : BatchRow(row)' = BatchRow(row)
           /\ scan'.filled = scan.filled => \A row : PendingRow(row)' = PendingRow(row)
<1>1. ASSUME scan'.part = scan.part, NEW row PROVE PageRow(row)' = PageRow(row)
  <2>1. /\ UnderPrefix(row.key)' = UnderPrefix(row.key) /\ Caller(row.key)' = Caller(row.key)
        /\ Steady' = Steady /\ data' = data
        /\ LeafRow(scan.part, row.key)' = LeafRow(scan.part, row.key)
      BY <1>1, SameOperators DEF Same
  <2>2. PageRow(row)' = (/\ UnderPrefix(row.key)'
                         /\ Caller(row.key)' \in Steady' =>
                              data'[scan'.part][row.key] # None /\ row = LeafRow(scan.part, row.key)')
      BY DEF PageRow
  <2> QED BY <1>1, <2>1, <2>2 DEF PageRow
<1>2. scan'.confirmed = scan.confirmed => \A row : BatchRow(row)' = BatchRow(row)
    BY SameOperators DEF BatchRow
<1>3. scan'.filled = scan.filled => \A row : PendingRow(row)' = PendingRow(row)
    BY SameOperators, Zenon DEF Same, PendingRow
<1> QED BY <1>1, <1>2, <1>3

LEMMA EndRows == ASSUME ScanTypes, RowsTrue, End PROVE RowsTrue'
<1>1. Same /\ SamePlace /\ SameSource /\ SameCascade
    BY EndEffect
<1> QED BY <1>1, SameRows, SameOperators DEF SamePlace, SameSource, SameCascade, RowsTrue

\* What the cascade asks of a row, in three groups, is the residual.
LEMMA CascadeAsks ==
    ASSUME Filtering, ScanTypes, Underway
    PROVE  LET need == PartitionByNeeds(scan.plan.residual)
           IN /\ ReadsValues <=> "value" \in Needs(scan.plan.residual)
              /\ \A r \in Row : Evaluate(scan.plan.residual, r) =
                   (AllPass(need.key, r) /\ AllPass(need.stat, r) /\ AllPass(need.value, r))
              /\ \A r, s \in Row : r.key = s.key /\ r.stat = s.stat =>
                   AllPass(need.key, r) = AllPass(need.key, s) /\ AllPass(need.stat, r) = AllPass(need.stat, s)
              /\ \A r, s \in Row :
                   r.key = s.key /\ r.stat = s.stat /\ (ReadsValues => r.value = s.value) =>
                   Evaluate(scan.plan.residual, r) = Evaluate(scan.plan.residual, s)
<1> DEFINE p == scan.plan.residual
           need == PartitionByNeeds(p)
<1>0. p \in Predicate /\ Recursions
    BY Sifts DEF Filtering
<1>1. Conjoined(p) /\ LooksOnlyAt(p)
    BY <1>0, EveryPredicateConjoined, EveryPredicateLooks
<1>3. /\ need.key = {c \in FlattenAnd(p) : "value" \notin Needs(c) /\ "stat" \notin Needs(c)}
      /\ need.stat = {c \in FlattenAnd(p) : "value" \notin Needs(c) /\ "stat" \in Needs(c)}
      /\ need.value = {c \in FlattenAnd(p) : "value" \in Needs(c)}
    BY DEF PartitionByNeeds
<1>4. ReadsValues <=> need.value # {}
    BY DEF ReadsValues
<1> HIDE DEF need, p
<1>5. FlattenAnd(p) \subseteq Predicate /\ FlattenAnd(p) = need.key \cup need.stat \cup need.value
    BY <1>1, <1>3 DEF Conjoined
<1>6. ReadsValues <=> "value" \in Needs(p)
    BY <1>1, <1>3, <1>4 DEF Conjoined
<1>7. ASSUME NEW r \in Row
      PROVE Evaluate(p, r) = (AllPass(need.key, r) /\ AllPass(need.stat, r) /\ AllPass(need.value, r))
  <2>1. Evaluate(p, r) = AllPass(FlattenAnd(p), r)
      BY <1>1 DEF Conjoined
  <2>2. AllPass(FlattenAnd(p), r) = (AllPass(need.key, r) /\ AllPass(need.stat, r) /\ AllPass(need.value, r))
      BY <1>5 DEF AllPass
  <2> QED BY <2>1, <2>2
<1>8. ASSUME NEW r \in Row, NEW s \in Row, r.key = s.key, r.stat = s.stat
      PROVE AllPass(need.key, r) = AllPass(need.key, s) /\ AllPass(need.stat, r) = AllPass(need.stat, s)
  <2>1. ASSUME NEW c \in need.key \cup need.stat PROVE Evaluate(c, r) = Evaluate(c, s)
    <3>1. c \in Predicate /\ SameTo(c, r, s)
        BY <1>3, <1>5, <1>8 DEF SameTo
    <3> QED BY <1>0, <3>1, EveryPredicateLooks DEF LooksOnlyAt
  <2> QED BY <2>1 DEF AllPass
<1>9. ASSUME NEW r \in Row, NEW s \in Row, r.key = s.key, r.stat = s.stat, ReadsValues => r.value = s.value
      PROVE Evaluate(p, r) = Evaluate(p, s)
  <2>1. SameTo(p, r, s)
      BY <1>6, <1>9 DEF SameTo
  <2> QED BY <1>1, <2>1 DEF LooksOnlyAt
<1> QED BY <1>6, <1>7, <1>8, <1>9 DEF need, p

\* A row the cascade accepts is one the caller may expect.
LEMMA Delivered ==
    ASSUME Filtering, ScanTypes, Underway, NEW r \in Row, ViewedRow(r), Accepted(r),
           AllPass(PartitionByNeeds(scan.plan.residual).key, r),
           AllPass(PartitionByNeeds(scan.plan.residual).stat, r),
           ReadsValues => r.value # None
    PROVE  OutRow(ProjectRow(r, scan.spec.project))
<1> DEFINE o == ProjectRow(r, scan.spec.project)
           need == PartitionByNeeds(scan.plan.residual)
           full == [key |-> r.key, value |-> BatchGet(data, r.key), stat |-> StatOf(r.key)]
<1>0. /\ r.key \in Key /\ r.value \in Value \cup {None} /\ r.stat \in Stat
      /\ store.view \in Views /\ None \notin Value
    BY RowFields, StoreTypes, PredicatesAssumption
<1>1. /\ o.key = r.key /\ o.value = (IF scan.spec.project = "entries" THEN r.value ELSE None)
      /\ o.value # None => o = r
  <2>1. /\ o.key = r.key /\ o.value = (IF scan.spec.project = "entries" THEN r.value ELSE None)
        /\ o.stat = (IF scan.spec.project = "keys" THEN None ELSE r.stat)
      BY DEF ProjectRow
  <2>2. ASSUME scan.spec.project = "entries" PROVE o = r
      BY <2>2 DEF ProjectRow, Row
  <2> QED BY <2>1, <2>2
<1>2. Evaluate(scan.plan.residual, r) = TRUE
  <2>1. AllPass(need.value, r)
      BY DEF Accepted
  <2> QED BY <2>1, CascadeAsks
<1>3. full \in Row /\ full.key = r.key /\ full.value = BatchGet(data, r.key) /\ full.stat = StatOf(r.key)
  <2>1. BatchGet(data, r.key) \in Value \cup {None} /\ StatOf(r.key) \in Stat
      BY <1>0, BatchGetTypes DEF StatOf, Stat
  <2> QED BY <1>0, <2>1 DEF Row
<1> HIDE DEF full, o
<1>4. ASSUME r.key \in Steady, scan.spec.project = "entries" => o.value # None, ~ TakenForUnder(r.key)
      PROVE  Matches(r.key)
  <2>1. /\ Present(r.key) /\ (store.view \in {"commit", "union"} => BatchGet(data, r.key) # None)
        /\ r.stat = full.stat /\ r.value \in {None, full.value}
      BY <1>3, <1>4 DEF ViewedRow
  <2>2. Evaluate(scan.plan.residual, full) = TRUE
      BY <1>2, <1>3, <2>1, CascadeAsks
  <2>3. /\ scan.plan.prefix => StoredKey(r.key) \in Under
        /\ store.view # "leaf" => Evaluate(scan.plan.inner, Bare(StoredKey(r.key)))
    <3>1. Sought(StoredKey(r.key))
        BY DEF ViewedRow
    <3>2. scan.plan.prefix => StoredKey(r.key) = r.key
        BY Sifts DEF StoredKey
    <3>3. scan.plan.prefix /\ store.leaf = "sql" => r.key \in Under
        BY <1>4 DEF TakenForUnder
    <3> QED BY <3>1, <3>2, <3>3 DEF Sought, UnderPrefix
  <2>4. Evaluate(scan.spec.where, full)
      BY <1>3, <2>2, <2>3, Sifts
  <2>5. Holds(r.key)
    <3>1. CASE store.view = "through" /\ ~ NeedsValues(scan.spec, scan.plan.residual)
      <4>1. data[1][r.key] # None
          BY <2>1, <3>1 DEF Present, StoredKey
      <4> QED BY <3>1, <4>1 DEF Holds
    <3>2. CASE store.view = "through" /\ NeedsValues(scan.spec, scan.plan.residual)
      <4>1. r.value # None
          BY <1>1, <1>4, <3>2, CascadeAsks DEF NeedsValues
      <4>2. BatchGet(data, r.key) # None
          BY <1>3, <2>1, <4>1
      <4> QED BY <3>2, <4>2 DEF Holds
    <3>3. CASE store.view \in {"commit", "union"}
        BY <2>1, <3>3 DEF Holds
    <3>4. CASE store.view \in {"leaf", "mapped", "rekeyed"}
      <4>1. data[1][StoredKey(r.key)] # None
          BY <2>1, <3>4 DEF Present
      <4>2. StoredKey(r.key) \in Key
          BY <1>0, ToStoreTypes DEF StoredKey
      <4>3. data[1][StoredKey(r.key)] \in Value
          BY <4>1, <4>2 DEF ScanTypes, Parts
      <4>4. BatchGet(data, r.key) # None
          BY <1>0, <3>4, <4>1, <4>3, ScanAssumption DEF BatchGet, StoredKey
      <4> QED BY <3>4, <4>4 DEF Holds
    <3> QED BY <1>0, <3>1, <3>2, <3>3, <3>4 DEF Views
  <2>6. scan.spec.refine => r.key \in Refined
      BY DEF Accepted
  <2> QED BY <2>4, <2>5, <2>6 DEF Matches, full, StatOf
<1>5. Deserved(o)
  <2>1. o.value # None => Accepted(o)
      BY <1>1
  <2> QED BY <1>1, <1>4, <2>1 DEF Deserved
<1>6. Sought(StoredKey(o.key)) /\ (o.key \in Steady => Present(o.key))
    BY <1>1 DEF ViewedRow
<1> QED BY <1>5, <1>6 DEF OutRow, o

\* The elements of a sequence that loses its first or gains a last.
LEMMA TailElements ==
    ASSUME NEW S, NEW s \in Seq(S), s # <<>>
    PROVE  /\ Head(s) = s[1] /\ 1 \in DOMAIN s /\ Head(s) \in S
           /\ \A i \in DOMAIN Tail(s) : i + 1 \in DOMAIN s /\ Tail(s)[i] = s[i + 1] /\ Len(s) > 1
<1>1. /\ Head(s) \in S /\ Tail(s) \in Seq(S) /\ Len(Tail(s)) = Len(s) - 1 /\ Len(s) \in Nat
      /\ Len(s) # 0 /\ DOMAIN s = 1 .. Len(s)
    BY HeadTailProperties, LenProperties, EmptySeq
<1>2. DOMAIN Tail(s) = 1 .. Len(s) - 1
    BY <1>1, LenProperties
<1> QED BY <1>1, <1>2

LEMMA AppendElements ==
    ASSUME NEW S, NEW s \in Seq(S), NEW e \in S
    PROVE  \A i \in DOMAIN Append(s, e) : (i \in DOMAIN s /\ Append(s, e)[i] = s[i]) \/ Append(s, e)[i] = e
<1>1. /\ Len(Append(s, e)) = Len(s) + 1 /\ Len(s) \in Nat /\ Append(s, e) \in Seq(S)
      /\ DOMAIN s = 1 .. Len(s) /\ DOMAIN Append(s, e) = 1 .. Len(s) + 1
    BY AppendProperties, LenProperties
<1>2. \A i \in 1 .. Len(s) : Append(s, e)[i] = s[i]
    BY <1>1, AppendProperties
<1>3. Append(s, e)[Len(s) + 1] = e
    BY <1>1, AppendProperties
<1> QED BY <1>1, <1>2, <1>3

LEMMA TakeRows ==
    ASSUME Filtering, ScanTypes, RowsTrue, Take, scan.ready # <<>>, ~ scan.filled PROVE RowsTrue'
<1> DEFINE row == Head(scan.ready)
           need == PartitionByNeeds(scan.plan.residual)
<1>0. Underway /\ Typed
    BY TypedFields DEF Take, Underway
<1>1. /\ Same /\ SamePlace /\ SameSource /\ scan'.batch = scan.batch /\ scan'.confirmed = scan.confirmed
      /\ scan'.filled = scan.filled
    BY TakeEffect
<1>2. row \in Row /\ ViewedRow(row)
    BY <1>0, TailElements DEF RowsTrue, Typed
<1> HIDE DEF row, need
<1>3. /\ (\A i \in DOMAIN scan.page : PageRow(scan.page[i]))'
      /\ (\A i \in DOMAIN scan.batch : BatchRow(scan.batch[i]))'
    BY <1>1, SameRows DEF SamePlace, SameSource, RowsTrue
<1>4. (\A i \in DOMAIN scan.ready : ViewedRow(scan.ready[i]))'
  <2>1. scan'.ready = scan.ready \/ scan'.ready = <<>>
      BY TakeEffect
  <2> QED BY <1>1, <2>1, SameOperators DEF RowsTrue
<1>5. (\A i \in DOMAIN scan.pending : PendingRow(scan.pending[i]))'
  <2>1. CASE scan'.pending = scan.pending
      BY <1>1, <2>1, SameRows DEF RowsTrue
  <2>2. CASE /\ AllPass(need.key, row) /\ AllPass(need.stat, row) /\ row.value = None
             /\ scan'.pending = Append(scan.pending, row)
    <3>1. PendingRow(row)
        BY <1>2, <2>2 DEF PendingRow, need
    <3>2. \A i \in DOMAIN scan'.pending :
            \/ i \in DOMAIN scan.pending /\ scan'.pending[i] = scan.pending[i]
            \/ scan'.pending[i] = row
        BY <1>0, <1>2, <2>2, AppendElements DEF Typed
    <3>3. \A i \in DOMAIN scan'.pending : PendingRow(scan'.pending[i])
        BY <3>1, <3>2 DEF RowsTrue
    <3> QED BY <1>1, <3>3, SameRows
  <2> QED BY <2>1, <2>2, TakeEffect DEF need, row
<1>6. (\A i \in DOMAIN scan.out : OutRow(scan.out[i]))'
  <2>1. CASE scan'.out = scan.out
      BY <1>1, <2>1, SameOperators DEF RowsTrue
  <2>2. CASE /\ AllPass(need.key, row) /\ AllPass(need.stat, row)
             /\ ~ ReadsValues \/ row.value # None
             /\ Accepted(row) /\ scan'.out = Append(scan.out, ProjectRow(row, scan.spec.project))
    <3>1. OutRow(ProjectRow(row, scan.spec.project)) /\ ProjectRow(row, scan.spec.project) \in Row
        BY <1>0, <1>2, <2>2, Delivered, ProjectRowTypes DEF need
    <3>2. \A i \in DOMAIN scan'.out :
            \/ i \in DOMAIN scan.out /\ scan'.out[i] = scan.out[i]
            \/ scan'.out[i] = ProjectRow(row, scan.spec.project)
        BY <1>0, <2>2, <3>1, AppendElements DEF Typed
    <3>3. \A i \in DOMAIN scan'.out : OutRow(scan'.out[i])
        BY <3>1, <3>2 DEF RowsTrue
    <3> QED BY <1>1, <3>3, SameOperators
  <2> QED BY <2>1, <2>2, TakeEffect DEF need, row
<1> QED BY <1>3, <1>4, <1>5, <1>6 DEF RowsTrue

LEMMA YieldRows ==
    ASSUME Filtering, ScanTypes, RowsTrue, Yield, scan.filled, scan.pending # <<>> PROVE RowsTrue'
<1> DEFINE row == Head(scan.pending)
<1>0. Underway /\ Typed
    BY TypedFields DEF Yield, Underway
<1>1. /\ Same /\ SamePlace /\ SameSource /\ scan'.batch = scan.batch /\ scan'.confirmed = scan.confirmed
      /\ scan'.ready = scan.ready /\ scan'.pending = Tail(scan.pending)
      /\ scan'.filled = (Len(scan.pending) > 1)
    BY YieldEffect
<1>2. row \in Row /\ PendingRow(row)
    BY <1>0, TailElements DEF RowsTrue, Typed
<1> HIDE DEF row
<1>3. /\ (\A i \in DOMAIN scan.page : PageRow(scan.page[i]))'
      /\ (\A i \in DOMAIN scan.batch : BatchRow(scan.batch[i]))'
      /\ (\A i \in DOMAIN scan.ready : ViewedRow(scan.ready[i]))'
    BY <1>1, SameRows, SameOperators DEF SamePlace, SameSource, RowsTrue
<1>5. (\A i \in DOMAIN scan.pending : PendingRow(scan.pending[i]))'
  <2>1. ASSUME NEW i \in DOMAIN scan'.pending
        PROVE  i + 1 \in DOMAIN scan.pending /\ scan'.pending[i] = scan.pending[i + 1] /\ Len(scan.pending) > 1
      BY <1>0, <1>1, TailElements DEF Typed
  <2>2. ASSUME NEW i \in DOMAIN scan'.pending PROVE scan'.filled = scan.filled
      BY <1>0, <1>1, <2>1 DEF Typed
  <2> QED BY <1>1, <2>1, <2>2, SameRows DEF RowsTrue
<1>6. (\A i \in DOMAIN scan.out : OutRow(scan.out[i]))'
  <2>1. CASE scan'.out = scan.out
      BY <1>1, <2>1, SameOperators DEF RowsTrue
  <2>2. CASE /\ row.value # None /\ Accepted(row)
             /\ scan'.out = Append(scan.out, ProjectRow(row, scan.spec.project))
    <3>1. OutRow(ProjectRow(row, scan.spec.project)) /\ ProjectRow(row, scan.spec.project) \in Row
        BY <1>0, <1>2, <2>2, Delivered, ProjectRowTypes DEF PendingRow
    <3>2. \A i \in DOMAIN scan'.out :
            \/ i \in DOMAIN scan.out /\ scan'.out[i] = scan.out[i]
            \/ scan'.out[i] = ProjectRow(row, scan.spec.project)
        BY <1>0, <2>2, <3>1, AppendElements DEF Typed
    <3>3. \A i \in DOMAIN scan'.out : OutRow(scan'.out[i])
        BY <3>1, <3>2 DEF RowsTrue
    <3> QED BY <1>1, <3>3, SameOperators
  <2> QED BY <2>1, <2>2, YieldEffect DEF row
<1> QED BY <1>3, <1>5, <1>6 DEF RowsTrue

LEMMA FlushRows == ASSUME Filtering, ScanTypes, RowsTrue, Flush, ~ scan.filled PROVE RowsTrue' \/ scan'.step = "failed"
<1> SUFFICES ASSUME scan'.step # "failed" PROVE RowsTrue'
    OBVIOUS
<1>0. Underway /\ Typed
    BY TypedFields DEF Flush, Underway
<1>1. /\ Same /\ SamePlace /\ SameSource /\ scan'.batch = scan.batch /\ scan'.confirmed = scan.confirmed
      /\ scan'.ready = scan.ready /\ scan'.out = scan.out /\ scan'.filled = TRUE
      /\ scan'.pending = [i \in DOMAIN scan.pending |->
                      [scan.pending[i] EXCEPT !.value = BatchGet(data, scan.pending[i].key)]]
    BY FlushEffect
<1>3. /\ (\A i \in DOMAIN scan.page : PageRow(scan.page[i]))'
      /\ (\A i \in DOMAIN scan.batch : BatchRow(scan.batch[i]))'
      /\ (\A i \in DOMAIN scan.ready : ViewedRow(scan.ready[i]))'
      /\ (\A i \in DOMAIN scan.out : OutRow(scan.out[i]))'
    BY <1>1, SameRows, SameOperators DEF SamePlace, SameSource, RowsTrue
<1>4. ASSUME NEW i \in DOMAIN scan'.pending PROVE PendingRow(scan.pending[i])'
  <2>1. PICK row \in Row : row = scan.pending[i] /\ PendingRow(row)
      BY <1>0, <1>1, <1>4 DEF Typed, RowsTrue
  <2>2. PICK new \in Row : /\ new.key = row.key /\ new.stat = row.stat /\ new.value = BatchGet(data, row.key)
                           /\ scan'.pending[i] = new
    <3>1. scan'.pending[i] = [row EXCEPT !.value = BatchGet(data, row.key)]
        BY <1>1, <1>4, <2>1
    <3>2. BatchGet(data, row.key) \in Value \cup {None}
        BY <2>1, RowFields, BatchGetTypes
    <3> QED BY <3>1, <3>2, RowFields
  <2>3. ViewedRow(new)
      BY <2>1, <2>2 DEF PendingRow, ViewedRow
  <2>4. /\ AllPass(PartitionByNeeds(scan.plan.residual).key, new)
        /\ AllPass(PartitionByNeeds(scan.plan.residual).stat, new)
      BY <1>0, <2>1, <2>2, CascadeAsks DEF PendingRow
  <2>5. ViewedRow(new)' /\ (new.key \in Steady' => new.value = BatchGet(data, new.key)')
      BY <1>1, <2>2, <2>3, SameOperators
  <2>6. scan'.plan = scan.plan
      BY <1>1 DEF Same
  <2>7. PendingRow(new)'
      BY <1>1, <2>4, <2>5, <2>6 DEF PendingRow
  <2> QED BY <2>2, <2>7
<1> QED BY <1>3, <1>4 DEF RowsTrue

LEMMA ConfirmRows == ASSUME ScanTypes, RowsTrue, Confirm PROVE RowsTrue'
<1>0. Underway /\ Typed
    BY TypedFields DEF Confirm, Underway
<1>1. /\ Same /\ SamePlace /\ SameSource /\ scan'.pending = scan.pending /\ scan'.filled = scan.filled
      /\ scan'.ready = scan.ready /\ scan'.out = scan.out /\ scan'.confirmed = TRUE
      /\ scan'.batch = [i \in DOMAIN scan.batch |->
                      [scan.batch[i] EXCEPT !.value = BatchGet(data, scan.batch[i].key)]]
    BY ConfirmEffect
<1>3. /\ (\A i \in DOMAIN scan.page : PageRow(scan.page[i]))'
      /\ (\A i \in DOMAIN scan.pending : PendingRow(scan.pending[i]))'
      /\ (\A i \in DOMAIN scan.ready : ViewedRow(scan.ready[i]))'
      /\ (\A i \in DOMAIN scan.out : OutRow(scan.out[i]))'
    BY <1>1, SameRows, SameOperators DEF SamePlace, SameSource, RowsTrue
<1>4. ASSUME NEW i \in DOMAIN scan'.batch PROVE BatchRow(scan.batch[i])'
  <2>1. PICK row \in Row : row = scan.batch[i] /\ BatchRow(row)
      BY <1>0, <1>1, <1>4 DEF Typed, RowsTrue
  <2>2. PICK new \in Row : /\ new.key = row.key /\ new.stat = row.stat /\ new.value = BatchGet(data, row.key)
                           /\ scan'.batch[i] = new
    <3>1. scan'.batch[i] = [row EXCEPT !.value = BatchGet(data, row.key)]
        BY <1>1, <1>4, <2>1
    <3>2. BatchGet(data, row.key) \in Value \cup {None}
        BY <2>1, RowFields, BatchGetTypes
    <3> QED BY <3>1, <3>2, RowFields
  <2>3. /\ Sought(new.key)' /\ new.stat = None
        /\ new.key \in Steady' => Present(new.key)' /\ new.value = BatchGet(data, new.key)'
      BY <1>1, <2>1, <2>2, SameOperators DEF BatchRow
  <2>4. BatchRow(new)'
      BY <1>1, <2>3 DEF BatchRow
  <2> QED BY <2>2, <2>4
<1> QED BY <1>3, <1>4 DEF RowsTrue

LEMMA BringRows ==
    ASSUME ScanTypes, RowsTrue, Meant, Bring, scan.confirmed, scan.batch # <<>> PROVE RowsTrue'
<1>0. Underway /\ Typed
    BY TypedFields DEF Bring, Underway
<1>1. /\ Same /\ SamePlace /\ SameSource /\ scan'.pending = scan.pending /\ scan'.filled = scan.filled
      /\ scan'.out = scan.out /\ scan'.batch = Tail(scan.batch)
      /\ scan'.confirmed = (Len(scan.batch) > 1)
    BY BringEffect
<1>2. PICK row \in Row : row = Head(scan.batch) /\ BatchRow(row)
    BY <1>0, TailElements DEF RowsTrue, Typed
<1>3. /\ (\A i \in DOMAIN scan.page : PageRow(scan.page[i]))'
      /\ (\A i \in DOMAIN scan.pending : PendingRow(scan.pending[i]))'
      /\ (\A i \in DOMAIN scan.out : OutRow(scan.out[i]))'
    BY <1>1, SameRows, SameOperators DEF SamePlace, SameSource, RowsTrue
<1>4. (\A i \in DOMAIN scan.batch : BatchRow(scan.batch[i]))'
  <2>1. ASSUME NEW i \in DOMAIN scan'.batch
        PROVE  i + 1 \in DOMAIN scan.batch /\ scan'.batch[i] = scan.batch[i + 1] /\ Len(scan.batch) > 1
      BY <1>0, <1>1, TailElements DEF Typed
  <2>2. ASSUME NEW i \in DOMAIN scan'.batch PROVE scan'.confirmed = scan.confirmed
      BY <1>0, <1>1, <2>1 DEF Typed
  <2> QED BY <1>1, <2>1, <2>2, SameRows DEF RowsTrue
<1>5. (\A i \in DOMAIN scan.ready : ViewedRow(scan.ready[i]))'
  <2>1. CASE scan'.ready = scan.ready
      BY <1>1, <2>1, SameOperators DEF RowsTrue
  <2>2. CASE /\ store.view = "through" \/ row.value # None
             /\ scan'.ready = <<[row EXCEPT
                      !.value = IF NeedsValues(scan.spec, scan.plan.residual) THEN @ ELSE None]>>
    <3>1. PICK new \in Row : /\ scan'.ready = <<new>> /\ new.key = row.key /\ new.stat = row.stat
                             /\ new.value \in {None, row.value}
      <4> DEFINE v == IF NeedsValues(scan.spec, scan.plan.residual) THEN row.value ELSE None
                 one == [row EXCEPT !.value = v]
      <4>1. v \in {None, row.value} /\ v \in Value \cup {None}
          BY RowFields
      <4>2. scan'.ready = <<one>>
          BY <2>2
      <4> HIDE DEF v
      <4>3. one \in Row /\ one.key = row.key /\ one.stat = row.stat /\ one.value = v
          BY <4>1 DEF Row
      <4> HIDE DEF one
      <4> QED BY <4>1, <4>2, <4>3
    <3>2. store.view \in {"through", "commit", "union"} /\ ~ StatReaches /\ StoredKey(row.key) = row.key
        BY DEF Meant, Batched, StatReaches, StoredKey
    <3>3. ViewedRow(new)
        BY <1>2, <2>2, <3>1, <3>2 DEF BatchRow, ViewedRow, StatOf
    <3>4. ViewedRow(new)'
        BY <1>1, <3>3, SameOperators
    <3> QED BY <3>1, <3>4
  <2> QED BY <1>2, <2>1, <2>2, BringEffect
<1> QED BY <1>3, <1>4, <1>5 DEF RowsTrue

LEMMA NextPartRows == ASSUME ScanTypes, RowsTrue, NextPart PROVE RowsTrue'
<1>0. Underway /\ scan.page = <<>>
    BY DueFacts DEF NextPart, Underway
<1>1. Same /\ SameCascade /\ scan'.page = <<>>
    BY <1>0, NextPartEffect
<1>2. (\A i \in DOMAIN scan.page : PageRow(scan.page[i]))'
    BY <1>1
<1> QED BY <1>1, <1>2, SameRows, SameOperators DEF SameCascade, RowsTrue

\* What a leaf lists, as its row shows it.
LEMMA FetchRows == ASSUME ScanTypes, Grounded, RowsTrue, Fetch PROVE RowsTrue'
<1>0. Underway
    BY DEF Fetch, Underway
<1>1. Same /\ SameCascade /\ scan'.part = scan.part
    BY FetchEffect
<1>2. /\ (\A i \in DOMAIN scan.batch : BatchRow(scan.batch[i]))'
      /\ (\A i \in DOMAIN scan.ready : ViewedRow(scan.ready[i]))'
      /\ (\A i \in DOMAIN scan.pending : PendingRow(scan.pending[i]))'
      /\ (\A i \in DOMAIN scan.out : OutRow(scan.out[i]))'
    BY <1>1, SameRows, SameOperators DEF SameCascade, RowsTrue
<1>3. Scanned[scan.part] = scan.part /\ scan.part \in {1, 2} /\ Size \in Nat
    BY <1>0, ScannedTypes, TypedFields, SizeTypes DEF Typed
<1>4. PICK n \in 0 .. Size : \E got \in [1 .. n -> Unlisted(scan.part)] :
        LET rows == [i \in 1 .. n |-> LeafRow(scan.part, Order[got[i]])]
        IN scan'.page = rows \/ (scan'.page = Append(rows, rows[1]) /\ n > 0)
  <2>1. PICK n \in 0 .. Size : \E got \in [1 .. n -> Unlisted(Scanned[scan.part])] :
          LET rows == [i \in 1 .. n |-> LeafRow(Scanned[scan.part], Order[got[i]])]
          IN scan'.page = rows \/ (scan'.page = Append(rows, rows[1]) /\ n > 0)
    <3>1. \E n \in 0 .. Size : \E got \in [1 .. n -> Unlisted(Scanned[scan.part])] :
            LET rows == [i \in 1 .. n |-> LeafRow(Scanned[scan.part], Order[got[i]])]
            IN /\ IsPage(got, n, Unlisted(Scanned[scan.part]))
               /\ scan'.at = (IF n = 0 THEN scan.at ELSE got[n])
               /\ scan'.ended = (n < Size)
               /\ \/ scan'.page = rows /\ scan'.relisted = scan.relisted
                  \/ /\ scan'.page = Append(rows, rows[1]) /\ scan'.relisted = TRUE
                     /\ store.leaf = "redis" /\ n > 0
        BY FetchEffect
    <3> QED BY <3>1
  <2> QED BY <1>3, <2>1, ZenonT(60)
<1>5. PICK got \in [1 .. n -> Unlisted(scan.part)] :
        LET rows == [i \in 1 .. n |-> LeafRow(scan.part, Order[got[i]])]
        IN scan'.page = rows \/ (scan'.page = Append(rows, rows[1]) /\ n > 0)
    BY <1>4
<1> DEFINE rows == [i \in 1 .. n |-> LeafRow(scan.part, Order[got[i]])]
<1>6. ASSUME NEW i \in 1 .. n PROVE PageRow(rows[i]) /\ rows[i] \in Row
  <2>1. /\ Order[got[i]] \in Key /\ Listable(scan.part, Order[got[i]])
        /\ rows[i] = LeafRow(scan.part, Order[got[i]])
      BY <1>0, UnreadTypes DEF Unlisted
  <2>2. rows[i] \in Row /\ rows[i].key = Order[got[i]]
      BY <1>0, <1>3, <2>1, LeafRowTypes
  <2> HIDE DEF rows
  <2> QED BY <2>1, <2>2 DEF PageRow, Listable, UnderPrefix
<1>7. rows \in Seq(Row) /\ DOMAIN rows = 1 .. n
  <2>1. rows \in [1 .. n -> Row] /\ n \in Nat
      BY <1>3, <1>6
  <2> HIDE DEF rows
  <2> QED BY <2>1, SeqDef
<1> HIDE DEF rows
<1>8. \A i \in DOMAIN scan'.page : \E j \in 1 .. n : scan'.page[i] = rows[j]
  <2>1. CASE scan'.page = rows
      BY <1>7, <2>1
  <2>2. CASE scan'.page = Append(rows, rows[1]) /\ n > 0
    <3>1. 1 \in 1 .. n
        BY <1>3, <2>2
    <3> QED BY <1>6, <1>7, <2>2, <3>1, AppendElements
  <2> QED BY <1>5, <2>1, <2>2 DEF rows
<1>9. \A i \in DOMAIN scan'.page : PageRow(scan'.page[i])
    BY <1>6, <1>8
<1>10. (\A i \in DOMAIN scan.page : PageRow(scan.page[i]))'
    BY <1>1, <1>9, SameRows
<1> QED BY <1>2, <1>10 DEF RowsTrue

\* A row of the leaf, as the view shows it.
LEMMA ViewRowFields ==
    ASSUME ScanTypes, Underway, NEW r \in Row
    PROVE  LET v == ViewRow(r)
               val == IF scan.plan.project = "entries" THEN r.value ELSE None
           IN /\ v \in Row
              /\ v.key = Caller(r.key) /\ StoredKey(v.key) = r.key
              /\ v.value = (IF store.view = "mapped" /\ val # None THEN Forward[val] ELSE val)
              /\ v.stat = (IF scan.plan.project = "keys" THEN None ELSE r.stat)
<1> DEFINE pr == ProjectRow(r, scan.plan.project)
           val == IF scan.plan.project = "entries" THEN r.value ELSE None
<1>0. r.key \in Key /\ store.view \in Views /\ ViewRow(r) \in Row
    BY RowFields, StoreTypes, ViewRowTypes
<1>1. /\ pr \in Row /\ pr.key = r.key /\ pr.value = val
      /\ pr.stat = (IF scan.plan.project = "keys" THEN None ELSE r.stat)
    BY ProjectRowTypes DEF ProjectRow
<1>2. Caller(r.key) \in Key /\ StoredKey(Caller(r.key)) = r.key
    BY <1>0, ToStoreTypes DEF Caller, StoredKey
<1>3. CASE store.view = "mapped"
  <2>1. ViewRow(r) = [pr EXCEPT !.value = IF @ = None THEN None ELSE Forward[@]]
      BY <1>3 DEF ViewRow
  <2> HIDE DEF pr, val
  <2>2. /\ ViewRow(r).key = pr.key /\ ViewRow(r).stat = pr.stat
        /\ ViewRow(r).value = (IF pr.value = None THEN None ELSE Forward[pr.value])
      BY <1>1, <2>1 DEF Row
  <2>3. Caller(r.key) = r.key
      BY <1>3 DEF Caller
  <2>4. ViewRow(r).value = (IF store.view = "mapped" /\ val # None THEN Forward[val] ELSE val)
      BY <1>1, <1>3, <2>2
  <2> QED BY <1>0, <1>1, <1>2, <2>2, <2>3, <2>4 DEF val
<1>4. CASE store.view = "rekeyed"
  <2>1. ViewRow(r) = [pr EXCEPT !.key = Renamed[@]]
      BY <1>4 DEF ViewRow
  <2> HIDE DEF pr, val
  <2>2. /\ ViewRow(r).key = Renamed[pr.key] /\ ViewRow(r).stat = pr.stat /\ ViewRow(r).value = pr.value
      BY <1>1, <2>1 DEF Row
  <2>3. Caller(r.key) = Renamed[r.key]
      BY <1>4 DEF Caller
  <2> QED BY <1>0, <1>1, <1>2, <1>4, <2>2, <2>3 DEF val
<1>5. CASE store.view \notin {"mapped", "rekeyed"}
  <2>1. ViewRow(r) = pr
      BY <1>0, <1>5 DEF ViewRow, Views
  <2>2. Caller(r.key) = r.key
      BY <1>5 DEF Caller
  <2> HIDE DEF pr
  <2> QED BY <1>0, <1>1, <1>2, <1>5, <2>1, <2>2
<1> QED BY <1>3, <1>4, <1>5

\* A row that leaves the leaf for the view, and one that waits for its page.
LEMMA ListedRow ==
    ASSUME Filtering, ScanTypes, Grounded, Underway, NEW r \in Row, PageRow(r),
           store.view # "leaf" => Evaluate(scan.plan.inner, r)
    PROVE  /\ store.view = "leaf" => ViewedRow(r)
           /\ store.view # "leaf" /\ ~ Batched => ViewedRow(ViewRow(r))
           /\ store.view # "leaf" /\ Batched /\ ~ scan.confirmed => BatchRow(ViewRow(r))
<1>0. /\ r.key \in Key /\ r.value \in Value \cup {None} /\ r.stat \in Stat /\ store.view \in Views
      /\ scan.part \in {1, 2} /\ (store.view # "union" => scan.part = 1)
      /\ store.leaf \in Leaves
    BY RowFields, StoreTypes, TypedFields DEF Grounded, Typed
<1>1. Sought(r.key)
  <2>1. store.view # "leaf" => Evaluate(scan.plan.inner, Bare(r.key))
    <3> SUFFICES ASSUME store.view # "leaf" PROVE Evaluate(scan.plan.inner, Bare(r.key))
        OBVIOUS
    <3>1. Bare(r.key) \in Row /\ SameTo(scan.plan.inner, r, Bare(r.key)) /\ scan.plan.inner \in Predicate
        BY <1>0, Sifts DEF Bare, SameTo, Row, Stat
    <3> QED BY <3>1, EveryPredicateLooks DEF LooksOnlyAt, Filtering
  <2> QED BY <2>1 DEF Sought, PageRow
<1>2. Caller(r.key) \in Steady =>
        /\ data[scan.part][r.key] # None
        /\ r.value = (IF scan.plan.values THEN data[scan.part][r.key] ELSE None)
        /\ r.stat = (IF store.leaf = "object" \/ scan.spec.orderBy
                     THEN (IF r.key \in old THEN "old" ELSE "new") ELSE None)
    BY DEF PageRow, LeafRow
<1>3. store.view = "leaf" => ViewedRow(r)
  <2> SUFFICES ASSUME store.view = "leaf" PROVE ViewedRow(r)
      OBVIOUS
  <2>1. StoredKey(r.key) = r.key /\ Caller(r.key) = r.key /\ scan.part = 1
      BY <1>0 DEF StoredKey, Caller
  <2>2. BatchGet(data, r.key) = data[1][r.key]
      BY DEF BatchGet
  <2>3. r.key \in Steady => Present(r.key) /\ r.stat = StatOf(r.key) /\ r.value \in {None, BatchGet(data, r.key)}
      BY <1>2, <2>1, <2>2 DEF Present, StatOf, StatReaches
  <2> QED BY <1>1, <2>1, <2>3 DEF ViewedRow
<1> DEFINE v == ViewRow(r)
           val == IF scan.plan.project = "entries" THEN r.value ELSE None
<1>4. /\ v \in Row /\ v.key = Caller(r.key) /\ StoredKey(v.key) = r.key
      /\ v.value = (IF store.view = "mapped" /\ val # None THEN Forward[val] ELSE val)
      /\ v.stat = (IF scan.plan.project = "keys" THEN None ELSE r.stat)
    BY ViewRowFields
<1> HIDE DEF v
<1>5. store.view \in {"through", "commit", "union"} => scan.plan.project = "keys"
    BY PlanFields, DownFields
<1>6. ASSUME store.view \in {"through", "commit", "union"}
      PROVE  /\ v.key = r.key /\ StoredKey(r.key) = r.key /\ v.value = None /\ v.stat = None
             /\ v.key \in Steady => Present(v.key)
  <2>1. v.key = r.key /\ StoredKey(r.key) = r.key /\ Caller(r.key) = r.key
      BY <1>4, <1>6 DEF Caller, StoredKey
  <2>2. v.value = None /\ v.stat = None
      BY <1>4, <1>5, <1>6
  <2>3. r.key \in Steady => Present(r.key)
      BY <1>0, <1>2, <2>1 DEF Present
  <2> QED BY <2>1, <2>2, <2>3
<1>7. ASSUME store.view # "leaf", ~ Batched PROVE ViewedRow(v)
  <2>1. CASE store.view \in {"through", "commit", "union"}
    <3>1. store.view = "through" /\ ~ StatReaches
        BY <1>7, <2>1 DEF Batched, StatReaches
    <3> QED BY <1>1, <1>6, <3>1 DEF ViewedRow, StatOf
  <2>2. CASE store.view \in {"mapped", "rekeyed"}
    <3>1. scan.part = 1 /\ (v.key \in Steady <=> Caller(r.key) \in Steady)
        BY <1>0, <1>4, <2>2
    <3>2. v.key \in Steady => Present(v.key)
        BY <1>2, <1>4, <2>2, <3>1 DEF Present
    <3>3. v.key \in Steady => v.stat = StatOf(v.key)
        BY <1>2, <1>4, <2>2, <3>1 DEF StatOf, StatReaches
    <3>4. v.key \in Steady => v.value \in {None, BatchGet(data, v.key)}
      <4>1. CASE store.view = "mapped"
        <5>1. v.key = r.key
            BY <1>4, <4>1 DEF Caller
        <5>2. data[1][r.key] # None => BatchGet(data, v.key) = Forward[data[1][r.key]]
            BY <4>1, <5>1 DEF BatchGet
        <5>3. v.key \in Steady => val = None \/ (val = data[1][r.key] /\ val # None)
            BY <1>2, <3>1
        <5> QED BY <1>4, <4>1, <5>2, <5>3
      <4>2. CASE store.view = "rekeyed"
        <5>1. ToStore(v.key) = r.key
            BY <1>4, <4>2 DEF StoredKey
        <5>2. BatchGet(data, v.key) = data[1][r.key]
            BY <4>2, <5>1 DEF BatchGet
        <5>3. v.value = val
            BY <1>4, <4>2
        <5> QED BY <1>2, <3>1, <5>2, <5>3
      <4> QED BY <2>2, <4>1, <4>2
    <3> QED BY <1>1, <1>4, <2>2, <3>2, <3>3, <3>4 DEF ViewedRow
  <2> QED BY <1>0, <1>7, <2>1, <2>2 DEF Views
<1>8. ASSUME store.view # "leaf", Batched, ~ scan.confirmed PROVE BatchRow(v)
  <2>1. store.view \in {"through", "commit", "union"}
      BY <1>8 DEF Batched
  <2> QED BY <1>1, <1>6, <1>8, <2>1 DEF BatchRow
<1> QED BY <1>3, <1>7, <1>8 DEF v

LEMMA ListRows ==
    ASSUME Filtering, ScanTypes, Grounded, RowsTrue, List, scan.page # <<>>, ~ scan.confirmed PROVE RowsTrue'
<1>0. Underway /\ Typed
    BY TypedFields DEF List, Underway
<1>1. /\ Same /\ SamePlace /\ scan'.confirmed = scan.confirmed /\ scan'.pending = scan.pending
      /\ scan'.filled = scan.filled /\ scan'.out = scan.out
    BY ListEffect
<1>2. PICK row \in Row : row = Head(scan.page) /\ PageRow(row)
    BY <1>0, TailElements DEF RowsTrue, Typed
<1>3. /\ (\A i \in DOMAIN scan.pending : PendingRow(scan.pending[i]))'
      /\ (\A i \in DOMAIN scan.out : OutRow(scan.out[i]))'
    BY <1>1, SameRows, SameOperators DEF RowsTrue
<1>4. (\A i \in DOMAIN scan.page : PageRow(scan.page[i]))'
  <2>1. scan'.page = <<>> \/ scan'.page = Tail(scan.page)
      BY ListEffect DEF Rest
  <2>2. CASE scan'.page = <<>>
      BY <2>2
  <2>3. CASE scan'.page = Tail(scan.page)
    <3>1. ASSUME NEW i \in DOMAIN scan'.page
          PROVE  i + 1 \in DOMAIN scan.page /\ scan'.page[i] = scan.page[i + 1]
        BY <1>0, <2>3, TailElements DEF Typed
    <3> QED BY <1>1, <3>1, SameRows DEF RowsTrue, SamePlace
  <2> QED BY <2>1, <2>2, <2>3
<1>5. CASE scan'.batch = scan.batch /\ scan'.ready = scan.ready
    BY <1>1, <1>3, <1>4, <1>5, SameRows, SameOperators DEF RowsTrue
<1>6. CASE store.view = "leaf" /\ scan'.batch = scan.batch /\ scan'.ready = <<row>>
  <2>1. ViewedRow(row)'
      BY <1>0, <1>1, <1>2, <1>6, ListedRow, SameOperators
  <2>2. (\A i \in DOMAIN scan.ready : ViewedRow(scan.ready[i]))'
      BY <1>6, <2>1
  <2> QED BY <1>1, <1>3, <1>4, <1>6, <2>2, SameRows DEF RowsTrue
<1>7. CASE /\ store.view # "leaf" /\ Evaluate(scan.plan.inner, row)
           /\ scan'.batch = (IF Batched THEN Append(scan.batch, ViewRow(row)) ELSE scan.batch)
           /\ scan'.ready = (IF Batched THEN scan.ready ELSE <<ViewRow(row)>>)
  <2>0. PICK v \in Row : /\ v = ViewRow(row) /\ (~ Batched => ViewedRow(v)) /\ (Batched => BatchRow(v))
      BY <1>0, <1>2, <1>7, ListedRow, ViewRowTypes
  <2>1. CASE Batched
    <3>1. \A i \in DOMAIN scan'.batch :
            (i \in DOMAIN scan.batch /\ scan'.batch[i] = scan.batch[i]) \/ scan'.batch[i] = v
        BY <1>0, <1>7, <2>0, <2>1, AppendElements DEF Typed
    <3>2. \A i \in DOMAIN scan'.batch : BatchRow(scan'.batch[i])
        BY <2>0, <2>1, <3>1 DEF RowsTrue
    <3>3. (\A i \in DOMAIN scan.batch : BatchRow(scan.batch[i]))'
        BY <1>1, <3>2, SameRows
    <3>4. (\A i \in DOMAIN scan.ready : ViewedRow(scan.ready[i]))'
        BY <1>1, <1>7, <2>1, SameOperators DEF RowsTrue
    <3> QED BY <1>3, <1>4, <3>3, <3>4 DEF RowsTrue
  <2>2. CASE ~ Batched
    <3>1. ViewedRow(v)'
        BY <1>1, <2>0, <2>2, SameOperators
    <3>2. (\A i \in DOMAIN scan.ready : ViewedRow(scan.ready[i]))'
        BY <1>7, <2>0, <2>2, <3>1
    <3>3. (\A i \in DOMAIN scan.batch : BatchRow(scan.batch[i]))'
        BY <1>1, <1>7, <2>2, SameRows DEF RowsTrue
    <3> QED BY <1>3, <1>4, <3>2, <3>3 DEF RowsTrue
  <2> QED BY <2>1, <2>2
<1> QED BY <1>2, <1>5, <1>6, <1>7, ListEffect

\* A client's write leaves what is shown of every other record as it was.
LEMMA WriteSpares ==
    ASSUME ScanTypes, NEW p \in Parts, NEW j \in Key, NEW v \in Value \cup {None}, Write(p, j, v),
           NEW k \in Key, Caller(k) \in Steady'
    PROVE  /\ Caller(k) \in Steady /\ k # j
           /\ \A q \in {1, 2} : data'[q][k] = data[q][k]
           /\ k \in old' <=> k \in old
<1>1. /\ touched' = touched \cup {Caller(j)} /\ data' = [data EXCEPT ![p][j] = v]
      /\ old' = IF p = 1 THEN old \ {j} ELSE old
      /\ data \in [{1, 2} -> [Key -> Value \cup {None}]]
    BY DEF Write, Caller, ScanTypes, Parts
<1>2. k # j /\ Caller(k) \in Steady
    BY <1>1 DEF Steady
<1> QED BY <1>1, <1>2 DEF Parts

LEMMA WriteSame ==
    ASSUME ScanTypes, NEW p \in Parts, NEW j \in Key, NEW v \in Value \cup {None}, Write(p, j, v)
    PROVE  /\ Order' = Order /\ ReadsValues' = ReadsValues /\ StatReaches' = StatReaches
           /\ Batched' = Batched /\ Scanned' = Scanned
           /\ \A k : /\ Caller(k)' = Caller(k) /\ StoredKey(k)' = StoredKey(k) /\ Pos(k)' = Pos(k)
                     /\ UnderPrefix(k)' = UnderPrefix(k) /\ Sought(k)' = Sought(k)
           /\ \A k : TakenForUnder(k)' = TakenForUnder(k)
           /\ \A row : Accepted(row)' = Accepted(row)
           /\ \A k \in Steady' : k \in Steady /\ k \in Key
           /\ \A k \in Steady' : Present(k)' = Present(k)
           /\ \A k \in Steady' : PartOf(k)' = PartOf(k)
           /\ \A k \in Steady' : BatchGet(data, k)' = BatchGet(data, k)
           /\ \A k \in Steady' : StatOf(k)' = StatOf(k)
           /\ \A k \in Steady' : Matches(k)' = Matches(k)
<1>0. UNCHANGED <<store, scan, listed, resumes>> /\ store.view \in Views
    BY WriteTypes, StoreTypes
<1>1. Order' = Order /\ ReadsValues' = ReadsValues /\ Scanned' = Scanned
    BY <1>0, Zenon DEF Order, ReadsValues, Scanned
<1>2. StatReaches' = StatReaches
    BY <1>0, Zenon DEF StatReaches
<1>3. Batched' = Batched
    BY <1>0, Zenon DEF Batched, NeedsValues
<1>4. \A k : StoredKey(k)' = StoredKey(k) /\ Caller(k)' = Caller(k)
    BY <1>0, Zenon DEF StoredKey, Caller
<1>5. \A k : Pos(k)' = Pos(k)
    BY <1>1, <1>4, Zenon DEF Pos
<1>6. \A k : UnderPrefix(k)' = UnderPrefix(k)
    BY <1>0, Zenon DEF UnderPrefix
<1>7. \A k : Sought(k)' = Sought(k)
    BY <1>0, <1>6, Zenon DEF Sought
<1>8. \A k : TakenForUnder(k)' = TakenForUnder(k)
    BY <1>0, Zenon DEF TakenForUnder
<1>9. \A row : Accepted(row)' = Accepted(row)
    BY <1>0, Zenon DEF Accepted
<1>10. ASSUME NEW k \in Steady'
       PROVE  /\ k \in Steady /\ k \in Key /\ StoredKey(k) \in Key
              /\ \A q \in {1, 2} : data'[q][StoredKey(k)] = data[q][StoredKey(k)]
              /\ StoredKey(k) \in old' <=> StoredKey(k) \in old
              /\ store.view = "rekeyed" => StoredKey(k) = ToStore(k)
              /\ store.view # "rekeyed" => StoredKey(k) = k
  <2>1. k \in Key
      BY DEF Steady
  <2>2. StoredKey(k) \in Key /\ Caller(StoredKey(k)) = k
      BY <2>1, ToStoreTypes DEF StoredKey, Caller
  <2> QED BY <2>1, <2>2, WriteSpares DEF StoredKey
<1>11. ASSUME NEW k \in Steady' PROVE Present(k)' = Present(k)
    BY <1>0, <1>4, <1>10, <1>11 DEF Present
<1>12. ASSUME NEW k \in Steady' PROVE PartOf(k)' = PartOf(k)
    BY <1>4, <1>10, <1>12 DEF PartOf
<1>13. ASSUME NEW k \in Steady' PROVE BatchGet(data, k)' = BatchGet(data, k)
  <2>1. BatchGet(data, k)' = BatchGet(data', k)
      BY <1>0, Zenon DEF BatchGet
  <2>2. \A q \in {1, 2} : data'[q][StoredKey(k)] = data[q][StoredKey(k)]
      BY <1>10, <1>13
  <2>3. CASE store.view = "leaf"
      BY <1>10, <1>13, <2>1, <2>2, <2>3 DEF BatchGet
  <2>4. CASE store.view = "mapped"
      BY <1>10, <1>13, <2>1, <2>2, <2>4 DEF BatchGet
  <2>5. CASE store.view = "rekeyed"
      BY <1>10, <1>13, <2>1, <2>2, <2>5 DEF BatchGet
  <2>6. CASE store.view \in {"through", "commit"}
      BY <1>10, <1>13, <2>1, <2>2, <2>6 DEF BatchGet
  <2>7. CASE store.view = "union"
      BY <1>10, <1>13, <2>1, <2>2, <2>7 DEF BatchGet
  <2> QED BY <1>0, <2>3, <2>4, <2>5, <2>6, <2>7 DEF Views
<1>14. ASSUME NEW k \in Steady' PROVE StatOf(k)' = StatOf(k)
    BY <1>2, <1>4, <1>10, <1>14 DEF StatOf
<1>15. ASSUME NEW k \in Steady' PROVE Matches(k)' = Matches(k)
  <2>1. NeedsValues(scan.spec, scan.plan.residual)' = NeedsValues(scan.spec, scan.plan.residual)
      BY <1>0, Zenon DEF NeedsValues
  <2>2. BatchGet(data, k)' = BatchGet(data, k)
      BY <1>13, <1>15
  <2>3. Holds(k)' = Holds(k)
    <3>1. store.view = "through" => data'[1][k] = data[1][k]
        BY <1>10, <1>15
    <3> QED BY <1>0, <2>1, <2>2, <3>1 DEF Holds
  <2>4. StatOf(k)' = StatOf(k)
      BY <1>14, <1>15
  <2>5. Matches(k) = (/\ Holds(k)
                      /\ Evaluate(scan.spec.where,
                           [key |-> k, value |-> BatchGet(data, k), stat |-> StatOf(k)])
                      /\ scan.spec.refine => k \in Refined)
      BY DEF Matches, StatOf
  <2>6. Matches(k)' = (/\ Holds(k)'
                       /\ Evaluate(scan.spec.where,
                            [key |-> k, value |-> BatchGet(data, k)', stat |-> StatOf(k)'])
                       /\ scan.spec.refine => k \in Refined)
      BY <1>0 DEF Matches, StatOf
  <2> QED BY <2>2, <2>3, <2>4, <2>5, <2>6
<1>16. \A k \in Steady' : k \in Steady /\ k \in Key
    BY <1>10
<1> QED BY <1>1, <1>2, <1>3, <1>4, <1>5, <1>6, <1>7, <1>8, <1>9, <1>11, <1>12, <1>13, <1>14, <1>15, <1>16

LEMMA WriteRows ==
    ASSUME ScanTypes, RowsTrue, NEW p \in Parts, NEW j \in Key, NEW v \in Value \cup {None}, Write(p, j, v)
    PROVE  RowsTrue'
<1>0. /\ UNCHANGED <<store, scan, listed, resumes>> /\ Underway /\ Typed
    BY WriteTypes, TypedFields
<1>1. ASSUME NEW row \in Row, PageRow(row) PROVE PageRow(row)'
  <2>1. UnderPrefix(row.key)' /\ row.key \in Key
      BY <1>1, WriteSame, RowFields DEF PageRow
  <2>2. Caller(row.key)' = Caller(row.key)
      BY WriteSame
  <2>3. ASSUME Caller(row.key) \in Steady' PROVE data'[scan.part][row.key] # None /\ row = LeafRow(scan.part, row.key)'
    <3>1. /\ data'[scan.part][row.key] = data[scan.part][row.key]
          /\ (row.key \in old') = (row.key \in old) 
          /\ Caller(row.key) \in Steady
        BY <1>0, <2>1, <2>3, WriteSpares DEF Typed
    <3>2. LeafRow(scan.part, row.key)' = LeafRow(scan.part, row.key)
        BY <1>0, <3>1 DEF LeafRow
    <3> QED BY <1>1, <3>1, <3>2 DEF PageRow
  <2>4. PageRow(row)' = (/\ UnderPrefix(row.key)'
                         /\ Caller(row.key)' \in Steady' =>
                              data'[scan'.part][row.key] # None /\ row = LeafRow(scan.part, row.key)')
      BY DEF PageRow
  <2> QED BY <1>0, <2>1, <2>2, <2>3, <2>4
<1>2. ASSUME NEW row \in Row, BatchRow(row) PROVE BatchRow(row)'
    BY <1>0, <1>2, WriteSame DEF BatchRow
<1>3. ASSUME NEW row \in Row, ViewedRow(row) PROVE ViewedRow(row)'
  <2>1. StoredKey(row.key)' = StoredKey(row.key) /\ Sought(StoredKey(row.key))' 
      BY <1>3, WriteSame DEF ViewedRow
  <2>2. row.key \in Steady' =>
         /\ Present(row.key)'
         /\ store.view \in {"commit", "union"} => BatchGet(data, row.key)' # None
         /\ row.stat = StatOf(row.key)'
         /\ row.value \in {None, BatchGet(data, row.key)'}
      BY <1>3, WriteSame DEF ViewedRow
  <2> QED BY <1>0, <2>1, <2>2 DEF ViewedRow
<1>4. ASSUME NEW row \in Row, PendingRow(row) PROVE PendingRow(row)'
  <2>1. ViewedRow(row)'
      BY <1>3, <1>4 DEF PendingRow
  <2>2. scan.filled /\ row.key \in Steady' => row.value = BatchGet(data, row.key)'
      BY <1>4, WriteSame DEF PendingRow
  <2> QED BY <1>0, <1>4, <2>1, <2>2 DEF PendingRow
<1>5. ASSUME NEW row \in Row, OutRow(row) PROVE OutRow(row)'
  <2>1. StoredKey(row.key)' = StoredKey(row.key) /\ Sought(StoredKey(row.key))'
        /\ (row.key \in Steady' => Present(row.key)')
      BY <1>5, WriteSame DEF OutRow
  <2>2. Deserved(row)'
    <3>1. TakenForUnder(row.key)' = TakenForUnder(row.key) /\ Accepted(row)' = Accepted(row)
        BY WriteSame
    <3>2. row.key \in Steady' => row.key \in Steady /\ Matches(row.key)' = Matches(row.key)
        BY WriteSame
    <3> QED BY <1>0, <1>5, <3>1, <3>2 DEF OutRow, Deserved
  <2> QED BY <2>1, <2>2 DEF OutRow
<1>6. /\ \A i \in DOMAIN scan.page : scan.page[i] \in Row
      /\ \A i \in DOMAIN scan.batch : scan.batch[i] \in Row
      /\ \A i \in DOMAIN scan.ready : scan.ready[i] \in Row
      /\ \A i \in DOMAIN scan.pending : scan.pending[i] \in Row
      /\ \A i \in DOMAIN scan.out : scan.out[i] \in Row
    BY <1>0 DEF Typed
<1> QED BY <1>0, <1>1, <1>2, <1>3, <1>4, <1>5, <1>6 DEF RowsTrue

LEMMA SteppedMeant ==
    ASSUME ScanTypes, Grounded, Meant, Stepped PROVE Meant'
<1>0. Underway /\ Typed /\ scan.step = "listing"
    BY TypedFields DEF Stepped, Fetch, NextPart, List, Confirm, Bring, Take, Flush, Yield, End, Underway
<1>1. /\ Same
      /\ scan'.ready = scan.ready \/ scan'.ready = <<>> \/ \E r : scan'.ready = <<r>>
      /\ scan'.batch # <<>> => scan.batch # <<>> \/ Batched
      /\ scan'.pending # <<>> => scan.pending # <<>> \/ ReadsValues
  <2>1. CASE Fetch \/ NextPart \/ End
      BY <2>1, FetchEffect, NextPartEffect, EndEffect DEF SameCascade
  <2>2. CASE List
    <3>1. Same /\ scan'.pending = scan.pending
        BY <2>2, ListEffect
    <3>2. /\ scan'.ready = scan.ready \/ \E r : scan'.ready = <<r>>
          /\ scan'.batch = scan.batch \/ Batched
        BY <2>2, ListEffect
    <3> QED BY <3>1, <3>2
  <2>3. CASE Confirm
    <3>1. Same /\ scan'.pending = scan.pending /\ scan'.ready = scan.ready /\ scan.batch # <<>>
        BY <1>0, <2>3, ConfirmEffect, DueFacts DEF Confirm
    <3> QED BY <3>1
  <2>4. CASE Bring
    <3>1. Same /\ scan'.pending = scan.pending /\ scan.batch # <<>>
        BY <1>0, <2>4, BringEffect, DueFacts DEF Bring, Grounded
    <3>2. scan'.ready = scan.ready \/ \E r : scan'.ready = <<r>>
        BY <2>4, BringEffect
    <3> QED BY <3>1, <3>2
  <2>5. CASE Take
    <3>1. Same /\ scan'.batch = scan.batch
        BY <2>5, TakeEffect
    <3>2. scan'.ready = scan.ready \/ scan'.ready = <<>>
        BY <2>5, TakeEffect
    <3>3. scan'.pending = scan.pending \/ ReadsValues
        BY <2>5, TakeEffect
    <3> QED BY <3>1, <3>2, <3>3
  <2>6. CASE Flush
    <3>1. Same /\ scan'.batch = scan.batch /\ scan'.ready = scan.ready /\ scan.pending # <<>>
        BY <1>0, <2>6, FlushEffect, DueFacts DEF Flush
    <3> QED BY <3>1
  <2>7. CASE Yield
    <3>1. Same /\ scan'.batch = scan.batch /\ scan'.ready = scan.ready /\ scan.pending # <<>>
        BY <1>0, <2>7, YieldEffect, DueFacts DEF Yield, Grounded
    <3> QED BY <3>1
  <2> QED BY <2>1, <2>2, <2>3, <2>4, <2>5, <2>6, <2>7 DEF Stepped
<1>2. Len(scan'.ready) <= 1
  <2>1. \A r : Len(<<r>>) <= 1
      OBVIOUS
  <2>2. Len(<<>>) <= 1
      OBVIOUS
  <2> QED BY <1>1, <2>1, <2>2 DEF Meant
<1>3. Batched' = Batched /\ ReadsValues' = ReadsValues
    BY <1>1, SameOperators
<1>4. scan'.spec = scan.spec /\ store' = store
    BY <1>1 DEF Same
<1> QED BY <1>1, <1>2, <1>3, <1>4 DEF Meant

LEMMA SteppedRows ==
    ASSUME Filtering, ScanTypes, Grounded, RowsTrue, Meant, Stepped PROVE RowsTrue' \/ scan'.step = "failed"
<1>0. Underway
    BY DEF Stepped, Fetch, NextPart, List, Confirm, Bring, Take, Flush, Yield, End, Underway
<1>1. CASE Fetch
    BY <1>1, FetchRows
<1>2. CASE NextPart
    BY <1>2, NextPartRows
<1>3. CASE List
  <2>1. scan.page # <<>> /\ ~ scan.confirmed
      BY <1>0, <1>3, DueFacts DEF List
  <2> QED BY <1>3, <2>1, ListRows
<1>4. CASE Confirm
    BY <1>4, ConfirmRows
<1>5. CASE Bring
  <2>1. scan.confirmed /\ scan.batch # <<>>
      BY <1>0, <1>5, DueFacts DEF Bring, Grounded
  <2> QED BY <1>5, <2>1, BringRows
<1>6. CASE Take
  <2>1. scan.ready # <<>> /\ ~ scan.filled
      BY <1>0, <1>6, DueFacts DEF Take
  <2> QED BY <1>6, <2>1, TakeRows
<1>7. CASE Flush
  <2>1. ~ scan.filled
      BY <1>0, <1>7, DueFacts DEF Flush
  <2> QED BY <1>7, <2>1, FlushRows
<1>8. CASE Yield
  <2>1. scan.filled /\ scan.pending # <<>>
      BY <1>0, <1>8, DueFacts DEF Yield, Grounded
  <2> QED BY <1>8, <2>1, YieldRows
<1>9. CASE End
    BY <1>9, EndRows
<1> QED BY <1>1, <1>2, <1>3, <1>4, <1>5, <1>6, <1>7, <1>8, <1>9 DEF Stepped

\* A scan begins with no rows.
LEMMA BegunRows ==
    ASSUME NEW spec, NEW cursor, scan' = Begun(spec, cursor), store' = store,
           spec.orderBy => store.leaf = "sql" /\ store.view # "union"
    PROVE  RowsTrue' /\ Meant'
<1>1. /\ scan'.page = <<>> /\ scan'.batch = <<>> /\ scan'.ready = <<>> /\ scan'.pending = <<>>
      /\ scan'.out = <<>> /\ scan'.spec = spec
    BY DEF Begun
<1>2. RowsTrue'
    BY <1>1 DEF RowsTrue
<1>3. Meant'
    BY <1>1 DEF Meant
<1> QED BY <1>2, <1>3

LEMMA NextRowInv ==
    ASSUME Filtering, ScanTypes, Grounded, RowInv, [ScanNext]_scanVars PROVE RowInv'
<1>1. ASSUME NEW spec \in Specs, ScanRowsOf(spec) PROVE RowInv'
  <2>1. CASE Refuses(spec)
    <3>1. scan' = [Begun(spec, None) EXCEPT !.step = "refused"]
        BY <1>1, <2>1 DEF ScanRowsOf
    <3>2. scan'.step = "refused"
        BY <3>1 DEF Begun
    <3> QED BY <3>2 DEF RowInv, Active
  <2>2. CASE ~ Refuses(spec)
    <3>1. scan' = Begun(spec, None) /\ store' = store
        BY <1>1, <2>2 DEF ScanRowsOf
    <3>2. spec.orderBy => store.leaf = "sql" /\ store.view # "union"
        BY <2>2 DEF Refuses
    <3> QED BY <3>1, <3>2, BegunRows DEF RowInv
  <2> QED BY <2>1, <2>2
<1>2. CASE Stepped
  <2>1. Active
      BY <1>2 DEF Stepped, Fetch, NextPart, List, Confirm, Bring, Take, Flush, Yield, End, Active
  <2>2. RowsTrue' \/ scan'.step = "failed"
      BY <1>2, <2>1, SteppedRows DEF RowInv
  <2>3. Meant'
      BY <1>2, <2>1, SteppedMeant DEF RowInv
  <2> QED BY <2>2, <2>3 DEF RowInv, Active
<1>3. CASE Resume
  <2>1. scan' = Begun(scan.spec, scan.out[Len(scan.out)].key) /\ store' = store /\ ~ scan.spec.orderBy
      BY <1>3 DEF Resume
  <2> QED BY <2>1, BegunRows DEF RowInv
<1>4. CASE DeleteWhere
    BY <1>4, DeleteWhereTypes DEF RowInv, Active
<1>5. ASSUME NEW p \in Parts, NEW k \in Key, NEW v \in Value \cup {None}, Write(p, k, v)
      PROVE  RowInv'
  <2>1. Active /\ UNCHANGED <<store, scan>>
      BY <1>5 DEF Write, Active
  <2>2. RowsTrue'
      BY <1>5, <2>1, WriteRows DEF RowInv
  <2>3. Batched' = Batched /\ ReadsValues' = ReadsValues
      BY <1>5, WriteSame
  <2>4. Meant'
      BY <2>1, <2>3 DEF RowInv, Meant
  <2> QED BY <2>2, <2>4 DEF RowInv
<1>6. CASE UNCHANGED scanVars
  <2>1. Same /\ UNCHANGED scan
      BY <1>6 DEF scanVars, Same
  <2>2. (Active => RowsTrue)'  <=> (Active => RowsTrue)
      BY <2>1, SameRows, SameOperators DEF RowsTrue, Active
  <2>3. (Active => Meant)' <=> (Active => Meant)
      BY <2>1, SameOperators DEF Meant, Active, Same
  <2> QED BY <2>2, <2>3 DEF RowInv
<1> QED BY <1>1, <1>2, <1>3, <1>4, <1>5, <1>6 DEF ScanNext, Stepped

\* A scan returns nothing it was not asked for.
THEOREM FilteringReturnsOnlyMatches == ASSUME Filtering PROVE ScanSpec => []ReturnsOnlyMatches
<1>1. ScanInit => RowInv
    BY DEF ScanInit, Idle, RowInv, Active
<1>2. ScanTypes /\ Grounded /\ RowInv /\ [ScanNext]_scanVars => RowInv'
    BY NextRowInv
<1>3. ScanTypes /\ RowInv => ReturnsOnlyMatches
    BY DEF RowInv, Active, RowsTrue, OutRow, ReturnsOnlyMatches
<1> QED BY <1>1, <1>2, <1>3, ScanTyped, PTL DEF ScanSpec

-----------------------------------------------------------------------------
(***************************************************************************)
(* How the parts of a scan go together.                                    *)
(***************************************************************************)

\* The next page of a leaf, and where it leaves the leaf.
LEMMA Fetched ==
    ASSUME ScanTypes, Grounded, Fetch
    PROVE  /\ Same /\ SameCascade /\ scan'.step = "listing"
           /\ scan'.part = scan.part /\ scan'.snapshot = scan.snapshot
           /\ scan'.started = scan.started /\ scan'.given = scan.given
           /\ scan'.passed = scan.passed /\ scan'.seen = scan.seen
           /\ \E n \in 0 .. Size : \E got \in [1 .. n -> Unlisted(scan.part)] :
                LET rows == [i \in 1 .. n |-> LeafRow(scan.part, Order[got[i]])]
                IN /\ IsPage(got, n, Unlisted(scan.part))
                   /\ scan'.at = (IF n = 0 THEN scan.at ELSE got[n])
                   /\ scan'.ended = (n < Size)
                   /\ \/ scan'.page = rows /\ scan'.relisted = scan.relisted
                      \/ /\ scan'.page = Append(rows, rows[1]) /\ scan'.relisted = TRUE
                         /\ store.leaf = "redis" /\ n > 0
<1>0. Underway
    BY DEF Fetch, Underway
<1>1. Scanned[scan.part] = scan.part
    BY <1>0, ScannedTypes
<1>2. /\ Same /\ SameCascade /\ scan'.step = "listing"
      /\ scan'.part = scan.part /\ scan'.snapshot = scan.snapshot
      /\ scan'.started = scan.started /\ scan'.given = scan.given
      /\ scan'.passed = scan.passed /\ scan'.seen = scan.seen
    BY FetchEffect
<1>3. \E n \in 0 .. Size : \E got \in [1 .. n -> Unlisted(Scanned[scan.part])] :
                LET rows == [i \in 1 .. n |-> LeafRow(Scanned[scan.part], Order[got[i]])]
                IN /\ IsPage(got, n, Unlisted(Scanned[scan.part]))
                   /\ scan'.at = (IF n = 0 THEN scan.at ELSE got[n])
                   /\ scan'.ended = (n < Size)
                   /\ \/ scan'.page = rows /\ scan'.relisted = scan.relisted
                      \/ /\ scan'.page = Append(rows, rows[1]) /\ scan'.relisted = TRUE
                         /\ store.leaf = "redis" /\ n > 0
    BY FetchEffect
<1>4. \E n \in 0 .. Size : \E got \in [1 .. n -> Unlisted(scan.part)] :
                LET rows == [i \in 1 .. n |-> LeafRow(scan.part, Order[got[i]])]
                IN /\ IsPage(got, n, Unlisted(scan.part))
                   /\ scan'.at = (IF n = 0 THEN scan.at ELSE got[n])
                   /\ scan'.ended = (n < Size)
                   /\ \/ scan'.page = rows /\ scan'.relisted = scan.relisted
                      \/ /\ scan'.page = Append(rows, rows[1]) /\ scan'.relisted = TRUE
                         /\ store.leaf = "redis" /\ n > 0
  <2>1. PICK p : p = Scanned[scan.part]
      OBVIOUS
  <2>2. \E n \in 0 .. Size : \E got \in [1 .. n -> Unlisted(p)] :
                LET rows == [i \in 1 .. n |-> LeafRow(p, Order[got[i]])]
                IN /\ IsPage(got, n, Unlisted(p))
                   /\ scan'.at = (IF n = 0 THEN scan.at ELSE got[n])
                   /\ scan'.ended = (n < Size)
                   /\ \/ scan'.page = rows /\ scan'.relisted = scan.relisted
                      \/ /\ scan'.page = Append(rows, rows[1]) /\ scan'.relisted = TRUE
                         /\ store.leaf = "redis" /\ n > 0
      BY <1>3, <2>1, ZenonT(60)
  <2>3. p = scan.part
      BY <1>1, <2>1
  <2> QED BY <2>2, <2>3, ZenonT(60)
<1> QED BY <1>2, <1>4

\* What none of a scan's steps but the next part changes, and how it is opened.
LEMMA SteppedOpening == ASSUME ScanTypes, Grounded, Opening, Stepped PROVE Opening'
<1>0. Underway /\ Typed /\ scan.step = "listing"
    BY TypedFields DEF Stepped, Fetch, NextPart, List, Confirm, Bring, Take, Flush, Yield, End, Underway
<1>1. CASE Fetch
  <2>1. /\ Same /\ SameCascade /\ scan'.started = scan.started /\ scan'.seen = scan.seen
      BY <1>1, Fetched
  <2>2. scan'.relisted = scan.relisted \/ store.leaf = "redis"
    <3>1. PICK n \in 0 .. Size : \E got \in [1 .. n -> Unlisted(scan.part)] :
            scan'.relisted = scan.relisted \/ store.leaf = "redis"
        BY <1>1, Fetched
    <3> QED BY <3>1
  <2> QED BY <2>1, <2>2 DEF Opening, Same, SameCascade, Holding
<1>2. CASE NextPart
  <2>1. store.view = "union"
    <3>1. scan.part # Len(Scanned) /\ scan.part \in {1, 2} /\ (scan.part = 2 => store.view = "union")
        BY <1>0, <1>2, DueFacts DEF NextPart, Typed, Grounded
    <3>2. store.view # "union" => Len(Scanned) = 1
        BY DEF Scanned
    <3> QED BY <3>1, <3>2
  <2>2. /\ Same /\ SameCascade /\ scan'.relisted = scan.relisted /\ scan'.seen = scan.seen
        /\ scan'.started = Begun(scan.spec, scan.cursor).started
      BY <1>2, NextPartEffect
  <2>3. store.leaf \notin {"memory", "redis"} => scan'.started
      BY <2>2 DEF Begun
  <2> QED BY <2>1, <2>2, <2>3 DEF Opening, Same
<1>3. CASE List
  <2>1. Same /\ SamePlace /\ scan'.out = scan.out /\ scan'.pending = scan.pending
      BY <1>3, ListEffect
  <2>2. CASE /\ ~ scan.started /\ scan'.seen = scan.seen
             /\ scan'.batch = scan.batch /\ scan'.ready = scan.ready
      BY <2>1, <2>2 DEF Opening, Same, SamePlace, Holding
  <2>3. CASE scan'.started /\ scan'.seen = scan.seen
      BY <2>1, <2>3 DEF Opening, Same, SamePlace
  <2>4. CASE scan'.started /\ scan'.seen = (IF store.view \in {"commit", "union"}
                                     THEN scan.seen \cup {Head(scan.page).key} ELSE scan.seen)
      BY <2>1, <2>4 DEF Opening, Same, SamePlace
  <2> QED BY <1>3, <2>2, <2>3, <2>4, ListEffect
<1>4. CASE Confirm \/ Bring \/ Take \/ Flush \/ Yield \/ End
  <2>1. Same /\ SamePlace /\ SameSource
      BY <1>4, ConfirmEffect, BringEffect, TakeEffect, FlushEffect, YieldEffect, EndEffect
  <2>2. CASE End
      BY <2>1, <2>2, EndEffect DEF Opening, Same, SamePlace, SameSource, SameCascade, Holding
  <2>3. CASE Confirm \/ Bring \/ Take \/ Flush \/ Yield
    <3>1. Holding
        BY <1>0, <2>3, DueFacts DEF Confirm, Bring, Take, Flush, Yield, Holding, Grounded
    <3> QED BY <2>1, <3>1 DEF Opening, Same, SamePlace, SameSource
  <2> QED BY <1>4, <2>2, <2>3
<1> QED BY <1>1, <1>2, <1>3, <1>4 DEF Stepped

LEMMA SteppedOnePage == ASSUME ScanTypes, Grounded, Meant, OnePage, Stepped PROVE OnePage'
<1>0. Underway /\ Typed /\ scan.step = "listing"
    BY TypedFields DEF Stepped, Fetch, NextPart, List, Confirm, Bring, Take, Flush, Yield, End, Underway
<1> SUFFICES ASSUME store'.leaf = "memory", scan'.page # <<>>
             PROVE  Len(scan'.page) = 1 /\ ~ scan'.ended /\ scan'.at = Position(Order', scan'.page[1].key)
    BY DEF OnePage
<1>1. CASE Fetch
  <2>1. Same
      BY <1>1, Fetched
  <2>2. store.leaf = "memory" /\ Order' = Order /\ Size = 1 /\ scan.spec.orderBy \in BOOLEAN
    <3>1. store.leaf = "memory" /\ Order' = Order /\ scan.spec.orderBy \in BOOLEAN
        BY <1>0, <2>1, SameOperators, SpecsAssumption DEF Same, Typed
    <3> QED BY <3>1 DEF Meant, Size
  <2>3. PICK n \in 0 .. Size : \E got \in [1 .. n -> Unlisted(scan.part)] :
            /\ scan'.at = (IF n = 0 THEN scan.at ELSE got[n]) /\ scan'.ended = (n < Size)
            /\ scan'.page = [i \in 1 .. n |-> LeafRow(scan.part, Order[got[i]])]
      BY <1>1, <2>2, Fetched
  <2>4. PICK got \in [1 .. n -> Unlisted(scan.part)] :
            /\ scan'.at = (IF n = 0 THEN scan.at ELSE got[n]) /\ scan'.ended = (n < Size)
            /\ scan'.page = [i \in 1 .. n |-> LeafRow(scan.part, Order[got[i]])]
      BY <2>3
  <2>5. n = 1
    <3>1. n = 0 \/ n = 1
        BY <2>2
    <3>2. CASE n = 0
      <4>1. 1 .. 0 = {}
          OBVIOUS
      <4>2. scan'.page = [i \in {} |-> LeafRow(scan.part, Order[got[i]])]
          BY <2>4, <3>2, <4>1
      <4>3. scan'.page = <<>>
          BY <4>2
      <4> QED BY <4>3
    <3> QED BY <3>1, <3>2
  <2>6. scan'.page \in [1 .. 1 -> {LeafRow(scan.part, Order[got[1]])}]
      BY <2>4, <2>5
  <2>7. Len(scan'.page) = 1 /\ scan'.page[1] = LeafRow(scan.part, Order[got[1]])
      BY <2>6
  <2>8. got[1] \in 1 .. Len(Order) /\ Order[got[1]] \in Key
      BY <1>0, <2>5, UnreadTypes
  <2>9. scan'.page[1].key = Order[got[1]]
      BY <1>0, <2>7, <2>8, LeafRowTypes DEF Typed
  <2>10. Position(Order, Order[got[1]]) = got[1]
      BY <2>8, PositionTypes DEF Order
  <2>11. scan'.at = got[1]
      BY <2>4, <2>5
  <2>12. ~ scan'.ended
    <3>1. scan'.ended = (1 < 1)
        BY <2>2, <2>4, <2>5, Zenon
    <3>2. (1 < 1) = FALSE
        OBVIOUS
    <3> QED BY <3>1, <3>2
  <2> QED BY <2>2, <2>7, <2>9, <2>10, <2>11, <2>12
<1>2. CASE NextPart
  <2>1. scan'.page = scan.page /\ scan.page = <<>>
      BY <1>0, <1>2, NextPartEffect, DueFacts DEF NextPart
  <2> QED BY <2>1
<1>3. CASE List
  <2>1. Same /\ SamePlace
      BY <1>3, ListEffect
  <2>2. scan.page # <<>>
      BY <1>0, <1>3, DueFacts DEF List
  <2>3. scan'.page = Tail(scan.page)
      BY <1>3, ListEffect DEF Rest
  <2>4. Len(scan.page) = 1
      BY <2>1, <2>2 DEF OnePage, Same
  <2>5. scan.page \in Seq(Row) /\ Len(Tail(scan.page)) = 0
      BY <1>0, <2>2, <2>4, TailSome DEF Typed
  <2>6. scan'.page = <<>>
      BY <2>2, <2>3, <2>5, TailSome, EmptySeq
  <2> QED BY <2>6
<1>4. CASE Confirm \/ Bring \/ Take \/ Flush \/ Yield \/ End
  <2>1. Same /\ SamePlace /\ SameSource
      BY <1>4, ConfirmEffect, BringEffect, TakeEffect, FlushEffect, YieldEffect, EndEffect
  <2>2. Order' = Order
      BY <2>1, SameOperators
  <2> QED BY <2>1, <2>2 DEF OnePage, Same, SamePlace, SameSource
<1> QED BY <1>1, <1>2, <1>3, <1>4 DEF Stepped

LEMMA SteppedSnapped == ASSUME ScanTypes, Grounded, Snapped, Stepped PROVE Snapped'
<1>0. Underway /\ Typed /\ scan.step = "listing"
    BY TypedFields DEF Stepped, Fetch, NextPart, List, Confirm, Bring, Take, Flush, Yield, End, Underway
<1>1. CASE NextPart
  <2>1. Same /\ scan'.part = scan.part + 1 /\ scan'.snapshot = {k \in Key : data[2][k] # None}
      BY <1>1, NextPartEffect
  <2>2. scan'.part = 2
    <3>1. scan.part # Len(Scanned) /\ scan.part \in {1, 2} /\ scan.part <= Len(Scanned)
        BY <1>0, <1>1, DueFacts, ScannedTypes DEF NextPart, Typed
    <3>2. Len(Scanned) = 1 \/ Len(Scanned) = 2
        BY DEF Scanned
    <3>3. scan.part = 1
      <4>1. CASE Len(Scanned) = 1
          BY <3>1, <4>1
      <4>2. CASE Len(Scanned) = 2
          BY <3>1, <4>2
      <4> QED BY <3>2, <4>1, <4>2
    <3> QED BY <2>1, <3>3
  <2> QED BY <2>1, <2>2 DEF Snapped, Same
<1>2. CASE Fetch \/ List \/ Confirm \/ Bring \/ Take \/ Flush \/ Yield \/ End
  <2>1. Same /\ scan'.part = scan.part /\ scan'.snapshot = scan.snapshot
      BY <1>2, FetchEffect, ListEffect, ConfirmEffect, BringEffect, TakeEffect, FlushEffect, YieldEffect,
         EndEffect DEF SamePlace
  <2>2. Steady' = Steady /\ \A k : Caller(k)' = Caller(k)
      BY <2>1, SameOperators
  <2> QED BY <2>1, <2>2 DEF Snapped, Same
<1> QED BY <1>1, <1>2 DEF Stepped

LEMMA SteppedPaging == ASSUME ScanTypes, Grounded, Paging, Stepped PROVE Paging'
<1>0. Underway /\ Typed /\ scan.step = "listing"
    BY TypedFields DEF Stepped, Fetch, NextPart, List, Confirm, Bring, Take, Flush, Yield, End, Underway
<1>1. Same
    BY FetchEffect, NextPartEffect, ListEffect, ConfirmEffect, BringEffect, TakeEffect, FlushEffect,
       YieldEffect, EndEffect DEF Stepped
<1>2. scan.started /\ scan.cursor = None => scan'.started
  <2>1. CASE NextPart
      BY <2>1, NextPartEffect DEF Begun
  <2>2. CASE List
      BY <2>2, ListEffect
  <2>3. CASE Fetch \/ Confirm \/ Bring \/ Take \/ Flush \/ Yield \/ End
      BY <2>3, FetchEffect, ConfirmEffect, BringEffect, TakeEffect, FlushEffect, YieldEffect,
         EndEffect DEF SameSource
  <2> QED BY <2>1, <2>2, <2>3 DEF Stepped
<1> QED BY <1>1, <1>2 DEF Paging, Same

-----------------------------------------------------------------------------
(***************************************************************************)
(* Sequences: concatenation, and a sequence with some elements left out.   *)
(***************************************************************************)
LEMMA ConcatElements ==
    ASSUME NEW S, NEW s \in Seq(S), NEW t \in Seq(S)
    PROVE  /\ s \o t \in Seq(S) /\ Len(s \o t) = Len(s) + Len(t) /\ Len(s) \in Nat /\ Len(t) \in Nat
           /\ DOMAIN (s \o t) = 1 .. Len(s) + Len(t) /\ DOMAIN s = 1 .. Len(s) /\ DOMAIN t = 1 .. Len(t)
           /\ \A i \in 1 .. Len(s) : (s \o t)[i] = s[i]
           /\ \A i \in 1 .. Len(t) : (s \o t)[Len(s) + i] = t[i]
           /\ \A i \in 1 .. Len(s) + Len(t) : i \in 1 .. Len(s) \/ i - Len(s) \in 1 .. Len(t)
<1>1. /\ s \o t \in Seq(S) /\ Len(s \o t) = Len(s) + Len(t) /\ Len(s) \in Nat /\ Len(t) \in Nat
      /\ DOMAIN s = 1 .. Len(s) /\ DOMAIN t = 1 .. Len(t)
    BY ConcatProperties, LenProperties
<1>2. DOMAIN (s \o t) = 1 .. Len(s) + Len(t)
    BY <1>1, LenProperties
<1>3. \A i \in 1 .. Len(s) + Len(t) : (s \o t)[i] = IF i <= Len(s) THEN s[i] ELSE t[i - Len(s)]
    BY ConcatProperties
<1>4. \A i \in 1 .. Len(s) : (s \o t)[i] = s[i]
    BY <1>1, <1>3
<1>5. ASSUME NEW i \in 1 .. Len(t) PROVE (s \o t)[Len(s) + i] = t[i]
  <2>1. Len(s) + i \in 1 .. Len(s) + Len(t) /\ ~ (Len(s) + i <= Len(s)) /\ (Len(s) + i) - Len(s) = i
      BY <1>1
  <2> QED BY <1>3, <2>1
<1>6. \A i \in 1 .. Len(s) + Len(t) : i \in 1 .. Len(s) \/ i - Len(s) \in 1 .. Len(t)
    BY <1>1
<1> QED BY <1>1, <1>2, <1>4, <1>5, <1>6

LEMMA Singleton ==
    ASSUME NEW S, NEW x \in S
    PROVE  <<x>> \in Seq(S) /\ Len(<<x>>) = 1 /\ <<x>>[1] = x /\ DOMAIN <<x>> = {1}
OBVIOUS

LEMMA HeadFirst ==
    ASSUME NEW S, NEW s \in Seq(S), s # <<>>
    PROVE  s = <<Head(s)>> \o Tail(s) /\ Head(s) \in S /\ Tail(s) \in Seq(S)
<1>1. /\ Head(s) \in S /\ Tail(s) \in Seq(S) /\ Len(Tail(s)) = Len(s) - 1 /\ Len(s) \in Nat
      /\ \A i \in 1 .. Len(Tail(s)) : Tail(s)[i] = s[i + 1]
    BY HeadTailProperties, LenProperties
<1>2. PICK h \in S : h = Head(s) /\ h = s[1]
    BY <1>1, TailElements
<1>3. PICK t \in Seq(S) : t = Tail(s)
    BY <1>1
<1>4. /\ <<h>> \o t \in Seq(S) /\ Len(<<h>> \o t) = 1 + Len(t)
      /\ (<<h>> \o t)[1] = h /\ \A i \in 1 .. Len(t) : (<<h>> \o t)[1 + i] = t[i]
    BY Singleton, ConcatElements
<1>5. Len(<<h>> \o t) = Len(s)
    BY <1>1, <1>3, <1>4
<1>6. ASSUME NEW i \in 1 .. Len(s) PROVE s[i] = (<<h>> \o t)[i]
  <2>1. CASE i = 1
      BY <1>2, <1>4, <2>1
  <2>2. CASE i # 1
    <3>1. i - 1 \in 1 .. Len(t) /\ (i - 1) + 1 = i /\ 1 + (i - 1) = i
        BY <1>1, <1>3, <2>2
    <3> QED BY <1>1, <1>3, <1>4, <3>1
  <2> QED BY <2>1, <2>2
<1>7. s = <<h>> \o t
    BY <1>4, <1>5, <1>6, SeqEqual
<1> QED BY <1>1, <1>2, <1>3, <1>7

\* t is s without the elements at D.
Thin(t, s, D) ==
    \E e \in [DOMAIN t -> DOMAIN s] :
        /\ \A i, j \in DOMAIN t : i < j => e[i] < e[j]
        /\ \A i \in DOMAIN t : t[i] = s[e[i]]
        /\ \A m \in DOMAIN s : m \in D \/ \E i \in DOMAIN t : e[i] = m

LEMMA ThinSame == ASSUME NEW s PROVE Thin(s, s, {})
<1> DEFINE e == [i \in DOMAIN s |-> i]
<1>1. /\ e \in [DOMAIN s -> DOMAIN s] /\ \A i, j \in DOMAIN s : i < j => e[i] < e[j]
      /\ \A i \in DOMAIN s : s[i] = s[e[i]]
      /\ \A m \in DOMAIN s : \E i \in DOMAIN s : e[i] = m
    OBVIOUS
<1> HIDE DEF e
<1> QED BY <1>1 DEF Thin

LEMMA ThinDrop ==
    ASSUME NEW S, NEW a \in Seq(S), NEW b \in Seq(S), NEW x \in S
    PROVE  /\ Thin(a \o b, a \o (<<x>> \o b), {Len(a) + 1})
           /\ Len(a) + 1 \in DOMAIN (a \o (<<x>> \o b)) /\ (a \o (<<x>> \o b))[Len(a) + 1] = x
<1>1. PICK c \in Seq(S) : c = <<x>> \o b /\ Len(c) = 1 + Len(b) /\ c[1] = x
                          /\ \A i \in 1 .. Len(b) : c[1 + i] = b[i]
  <2>1. PICK o \in Seq(S) : o = <<x>> /\ Len(o) = 1 /\ o[1] = x
      BY Singleton
  <2>2. /\ o \o b \in Seq(S) /\ Len(o \o b) = Len(o) + Len(b)
        /\ \A i \in 1 .. Len(o) : (o \o b)[i] = o[i]
        /\ \A i \in 1 .. Len(b) : (o \o b)[Len(o) + i] = b[i]
      BY ConcatElements
  <2>3. (o \o b)[1] = x /\ \A i \in 1 .. Len(b) : (o \o b)[1 + i] = b[i]
      BY <2>1, <2>2
  <2>4. o \o b = <<x>> \o b /\ Len(o \o b) = 1 + Len(b)
      BY <2>1, <2>2
  <2> QED BY <2>2, <2>3, <2>4, Zenon
<1>2. PICK t \in Seq(S) : t = a \o b
    BY ConcatElements
<1>3. PICK f \in Seq(S) : f = a \o c
    BY ConcatElements
<1>4. /\ DOMAIN t = 1 .. Len(a) + Len(b) /\ Len(a) \in Nat /\ Len(b) \in Nat
      /\ DOMAIN f = 1 .. Len(a) + Len(c)
      /\ \A i \in 1 .. Len(a) : t[i] = a[i] /\ f[i] = a[i]
      /\ \A i \in 1 .. Len(b) : t[Len(a) + i] = b[i]
      /\ \A i \in 1 .. Len(c) : f[Len(a) + i] = c[i]
    BY <1>2, <1>3, ConcatElements
<1> DEFINE e == [i \in DOMAIN t |-> IF i <= Len(a) THEN i ELSE i + 1]
<1>5. e \in [DOMAIN t -> DOMAIN f]
    BY <1>1, <1>4
<1>6. \A i, j \in DOMAIN t : i < j => e[i] < e[j]
    BY <1>4
<1>7. ASSUME NEW i \in DOMAIN t PROVE t[i] = f[e[i]]
  <2>1. CASE i <= Len(a)
      BY <1>4, <2>1
  <2>2. CASE ~ (i <= Len(a))
    <3>1. PICK j \in 1 .. Len(b) : i = Len(a) + j
      <4>1. i - Len(a) \in 1 .. Len(b) /\ i = Len(a) + (i - Len(a))
          BY <1>4, <2>2
      <4> QED BY <4>1
    <3>2. e[i] = Len(a) + (1 + j) /\ 1 + j \in 1 .. Len(c)
        BY <1>1, <1>4, <2>2, <3>1
    <3>3. f[e[i]] = c[1 + j]
        BY <1>4, <3>2
    <3> QED BY <1>1, <1>4, <3>1, <3>3
  <2> QED BY <2>1, <2>2
<1>8. ASSUME NEW m \in DOMAIN f PROVE m \in {Len(a) + 1} \/ \E i \in DOMAIN t : e[i] = m
  <2>1. CASE m <= Len(a)
    <3>1. m \in DOMAIN t /\ e[m] = m
        BY <1>4, <2>1
    <3> QED BY <3>1
  <2>2. CASE m > Len(a) + 1
    <3>1. m - 1 \in DOMAIN t /\ ~ (m - 1 <= Len(a)) /\ (m - 1) + 1 = m
        BY <1>1, <1>4, <2>2
    <3>2. e[m - 1] = m
        BY <3>1
    <3> QED BY <3>1, <3>2
  <2> QED BY <1>4, <2>1, <2>2
<1> HIDE DEF e
<1>9. Thin(t, f, {Len(a) + 1})
    BY <1>5, <1>6, <1>7, <1>8 DEF Thin
<1>10. Len(a) + 1 \in DOMAIN f /\ f[Len(a) + 1] = x
  <2>1. 1 \in 1 .. Len(c)
      BY <1>1, <1>4
  <2> QED BY <1>1, <1>4, <2>1
<1> QED BY <1>1, <1>2, <1>3, <1>9, <1>10

LEMMA ThinCut ==
    ASSUME NEW S, NEW a \in Seq(S), NEW b \in Seq(S)
    PROVE  Thin(a, a \o b, (Len(a) + 1) .. (Len(a) + Len(b)))
<1>1. PICK f \in Seq(S) : f = a \o b
    BY ConcatElements
<1>2. /\ DOMAIN a = 1 .. Len(a) /\ Len(a) \in Nat /\ Len(b) \in Nat
      /\ DOMAIN f = 1 .. Len(a) + Len(b) /\ \A i \in 1 .. Len(a) : f[i] = a[i]
    BY <1>1, ConcatElements
<1> DEFINE e == [i \in DOMAIN a |-> i]
           D == (Len(a) + 1) .. (Len(a) + Len(b))
<1>3. /\ e \in [DOMAIN a -> DOMAIN f] /\ \A i, j \in DOMAIN a : i < j => e[i] < e[j]
      /\ \A i \in DOMAIN a : a[i] = f[e[i]]
    BY <1>2
<1>4. \A m \in DOMAIN f : m \in D \/ \E i \in DOMAIN a : e[i] = m
    BY <1>2
<1> HIDE DEF e, D
<1>5. Thin(a, f, D)
    BY <1>3, <1>4 DEF Thin
<1> QED BY <1>1, <1>5 DEF D

-----------------------------------------------------------------------------
(***************************************************************************)
(* The keys a scan holds, and how a step moves them.                       *)
(***************************************************************************)
MapSeq(f, s) == [i \in DOMAIN s |-> f[s[i]]]

LEMMA MapTypes ==
    ASSUME NEW f \in [Row -> Key], NEW s \in Seq(Row)
    PROVE  /\ MapSeq(f, s) \in Seq(Key) /\ Len(MapSeq(f, s)) = Len(s) /\ DOMAIN MapSeq(f, s) = DOMAIN s
           /\ \A i \in DOMAIN s : MapSeq(f, s)[i] = f[s[i]]
           /\ s = <<>> <=> MapSeq(f, s) = <<>>
           /\ Len(s) \in Nat /\ DOMAIN s = 1 .. Len(s)
           /\ \A i \in 1 .. Len(s) : MapSeq(f, s)[i] = f[s[i]]
<1>1. MapSeq(f, s) = [i \in DOMAIN s |-> MapSeq(f, s)[i]] /\ \A i \in DOMAIN s : MapSeq(f, s)[i] = f[s[i]]
    BY DEF MapSeq
<1>2. \A i \in DOMAIN s : MapSeq(f, s)[i] \in Key
    BY <1>1
<1>3. MapSeq(f, s) \in Seq(Key) /\ Len(MapSeq(f, s)) = Len(s) /\ DOMAIN MapSeq(f, s) = DOMAIN s
    BY <1>1, <1>2, MappedSeq
<1> QED BY <1>1, <1>3

LEMMA MapAppend ==
    ASSUME NEW f \in [Row -> Key], NEW s \in Seq(Row), NEW r \in Row
    PROVE  MapSeq(f, Append(s, r)) = MapSeq(f, s) \o <<f[r]>> /\ MapSeq(f, <<r>>) = <<f[r]>>
<1> DEFINE t == Append(s, r)
           k == MapSeq(f, s)
           o == <<f[r]>>
           m == MapSeq(f, t)
<1>1. /\ t \in Seq(Row) /\ Len(t) = Len(s) + 1 /\ t[Len(s) + 1] = r
      /\ \A i \in 1 .. Len(s) : t[i] = s[i]
    BY AppendProperties
<1>2. o \in Seq(Key) /\ Len(o) = 1 /\ o[1] = f[r]
    BY Singleton
<1>8. MapSeq(f, <<r>>) = <<f[r]>>
    BY DEF MapSeq
<1> HIDE DEF t, o
<1>3. /\ k \in Seq(Key) /\ Len(k) = Len(s) /\ Len(s) \in Nat
      /\ \A i \in 1 .. Len(s) : k[i] = f[s[i]]
    BY MapTypes
<1>4. m \in Seq(Key) /\ Len(m) = Len(t) /\ \A i \in 1 .. Len(t) : m[i] = f[t[i]]
    BY <1>1, MapTypes
<1> HIDE DEF k, m
<1>5. /\ k \o o \in Seq(Key) /\ Len(k \o o) = Len(k) + Len(o)
      /\ \A i \in 1 .. Len(k) : (k \o o)[i] = k[i]
      /\ \A i \in 1 .. Len(o) : (k \o o)[Len(k) + i] = o[i]
    BY <1>2, <1>3, ConcatElements, SMTT(30)
<1>6. ASSUME NEW i \in 1 .. Len(m) PROVE m[i] = (k \o o)[i]
  <2>1. CASE i \in 1 .. Len(s)
    <3>1. m[i] = f[t[i]] /\ t[i] = s[i]
        BY <1>1, <1>4, <2>1
    <3>2. (k \o o)[i] = k[i] /\ k[i] = f[s[i]]
        BY <1>3, <1>5, <2>1
    <3> QED BY <3>1, <3>2
  <2>2. CASE i = Len(s) + 1
    <3>1. (k \o o)[Len(k) + 1] = o[1]
        BY <1>2, <1>5
    <3>2. m[Len(s) + 1] = f[t[Len(s) + 1]]
        BY <1>1, <1>3, <1>4
    <3> QED BY <1>1, <1>2, <1>3, <2>2, <3>1, <3>2
  <2>3. Len(m) = Len(s) + 1 /\ Len(s) \in Nat
      BY <1>1, <1>3, <1>4
  <2>4. i \in 1 .. Len(s) \/ i = Len(s) + 1
    <3> HIDE DEF m
    <3> QED BY <2>3
  <2> QED BY <2>1, <2>2, <2>4
<1>7. m = k \o o
  <2>1. Len(m) = Len(k \o o)
      BY <1>1, <1>2, <1>3, <1>4, <1>5
  <2> QED BY <1>4, <1>5, <1>6, <2>1, SeqEqual
<1> QED BY <1>7, <1>8 DEF m, k, o, t

LEMMA MapTail ==
    ASSUME NEW f \in [Row -> Key], NEW s \in Seq(Row), s # <<>>
    PROVE  MapSeq(f, s) = <<f[Head(s)]>> \o MapSeq(f, Tail(s))
<1> DEFINE k == MapSeq(f, s)
           t == Tail(s)
           m == MapSeq(f, t)
           u == Tail(k)
<1>1. /\ k \in Seq(Key) /\ Len(k) = Len(s) /\ DOMAIN k = DOMAIN s /\ k # <<>>
      /\ (\A i \in DOMAIN s : k[i] = f[s[i]]) /\ DOMAIN s = 1 .. Len(s) /\ Len(s) \in Nat
    BY MapTypes
<1>2. /\ t \in Seq(Row) /\ Len(t) = Len(s) - 1
      /\ \A i \in DOMAIN t : i + 1 \in DOMAIN s /\ t[i] = s[i + 1]
    BY TailElements, TailSome
<1> HIDE DEF t, k
<1>3. m \in Seq(Key) /\ Len(m) = Len(t) /\ \A i \in DOMAIN t : m[i] = f[t[i]]
    BY <1>2, MapTypes
<1>4. /\ u \in Seq(Key) /\ Len(u) = Len(k) - 1
      /\ \A i \in DOMAIN u : u[i] = k[i + 1]
    BY <1>1, TailElements, TailSome
<1>5. k = <<Head(k)>> \o Tail(k)
    BY <1>1, HeadFirst
<1> HIDE DEF m, u
<1>6. DOMAIN t = 1 .. Len(t) /\ DOMAIN u = 1 .. Len(u) /\ Len(t) = Len(u)
    BY <1>1, <1>2, <1>4, LenProperties
<1>7. \A i \in 1 .. Len(u) : u[i] = m[i]
    BY <1>1, <1>2, <1>3, <1>4, <1>6, ZenonT(60)
<1>8. u = m
    BY <1>3, <1>4, <1>6, <1>7, SeqEqual
<1>9. Head(k) = f[Head(s)]
  <2>1. Head(k) = k[1]
      BY <1>1, TailElements
  <2>2. Head(s) = s[1] /\ 1 \in DOMAIN s
      BY TailElements
  <2> QED BY <1>1, <2>1, <2>2
<1> QED BY <1>5, <1>8, <1>9 DEF u, m, k, t

KeyOf == [r \in Row |-> r.key]
CallerOf == [r \in Row |-> Caller(r.key)]

LEMMA CallerTypes ==
    ASSUME NEW k \in Key PROVE Caller(k) \in Key /\ StoredKey(k) \in Key
                               /\ StoredKey(Caller(k)) = k /\ Caller(StoredKey(k)) = k
BY ToStoreTypes DEF Caller, StoredKey

LEMMA KeysMapped ==
    /\ KeyOf \in [Row -> Key] /\ CallerOf \in [Row -> Key]
    /\ \A s \in Seq(Row) : KeysOf(s) = MapSeq(KeyOf, s) /\ CallersOf(s) = MapSeq(CallerOf, s)
<1>1. KeyOf \in [Row -> Key] /\ CallerOf \in [Row -> Key]
    BY RowFields, CallerTypes DEF KeyOf, CallerOf
<1>2. ASSUME NEW s \in Seq(Row) PROVE KeysOf(s) = MapSeq(KeyOf, s) /\ CallersOf(s) = MapSeq(CallerOf, s)
  <2>1. \A i \in DOMAIN s : s[i] \in Row
      OBVIOUS
  <2> QED BY <2>1 DEF KeysOf, CallersOf, MapSeq, KeyOf, CallerOf
<1> QED BY <1>1, <1>2

LEMMA KeysOfRows ==
    ASSUME NEW s \in Seq(Row)
    PROVE  /\ KeysOf(s) \in Seq(Key) /\ Len(KeysOf(s)) = Len(s) /\ DOMAIN KeysOf(s) = DOMAIN s
           /\ \A i \in DOMAIN s : KeysOf(s)[i] = s[i].key
           /\ s = <<>> <=> KeysOf(s) = <<>>
<1>1. KeysOf(s) = MapSeq(KeyOf, s) /\ KeyOf \in [Row -> Key]
    BY KeysMapped
<1>2. /\ MapSeq(KeyOf, s) \in Seq(Key) /\ Len(MapSeq(KeyOf, s)) = Len(s)
      /\ DOMAIN MapSeq(KeyOf, s) = DOMAIN s /\ s = <<>> <=> MapSeq(KeyOf, s) = <<>>
    BY <1>1, MapTypes
<1>3. \A i \in DOMAIN s : KeysOf(s)[i] = s[i].key
    BY DEF KeysOf
<1> QED BY <1>1, <1>2, <1>3

LEMMA KeysOfAppend ==
    ASSUME NEW s \in Seq(Row), NEW r \in Row
    PROVE  KeysOf(Append(s, r)) = KeysOf(s) \o <<r.key>> /\ KeysOf(<<r>>) = <<r.key>>
<1>1. /\ KeysOf(s) = MapSeq(KeyOf, s) /\ KeysOf(Append(s, r)) = MapSeq(KeyOf, Append(s, r))
      /\ KeysOf(<<r>>) = MapSeq(KeyOf, <<r>>) /\ KeyOf \in [Row -> Key] /\ KeyOf[r] = r.key
  <2>1. Append(s, r) \in Seq(Row) /\ <<r>> \in Seq(Row)
      BY AppendProperties
  <2> QED BY <2>1, KeysMapped DEF KeyOf
<1>2. /\ MapSeq(KeyOf, Append(s, r)) = MapSeq(KeyOf, s) \o <<KeyOf[r]>>
      /\ MapSeq(KeyOf, <<r>>) = <<KeyOf[r]>>
    BY <1>1, MapAppend
<1> QED BY <1>1, <1>2

LEMMA KeysOfTail ==
    ASSUME NEW s \in Seq(Row), s # <<>>
    PROVE  KeysOf(s) = <<Head(s).key>> \o KeysOf(Tail(s))
<1>1. /\ KeysOf(s) = MapSeq(KeyOf, s) /\ KeysOf(Tail(s)) = MapSeq(KeyOf, Tail(s))
      /\ KeyOf \in [Row -> Key] /\ KeyOf[Head(s)] = Head(s).key
  <2>1. Tail(s) \in Seq(Row) /\ Head(s) \in Row
      BY TailSome
  <2> QED BY <2>1, KeysMapped DEF KeyOf
<1>2. MapSeq(KeyOf, s) = <<KeyOf[Head(s)]>> \o MapSeq(KeyOf, Tail(s))
    BY <1>1, MapTail
<1> QED BY <1>1, <1>2

LEMMA CallersOfRows ==
    ASSUME NEW s \in Seq(Row)
    PROVE  /\ CallersOf(s) \in Seq(Key) /\ Len(CallersOf(s)) = Len(s) /\ DOMAIN CallersOf(s) = DOMAIN s
           /\ \A i \in DOMAIN s : CallersOf(s)[i] = Caller(s[i].key)
           /\ s = <<>> <=> CallersOf(s) = <<>>
<1>1. CallersOf(s) = MapSeq(CallerOf, s) /\ CallerOf \in [Row -> Key]
    BY KeysMapped
<1>2. /\ MapSeq(CallerOf, s) \in Seq(Key) /\ Len(MapSeq(CallerOf, s)) = Len(s)
      /\ DOMAIN MapSeq(CallerOf, s) = DOMAIN s /\ s = <<>> <=> MapSeq(CallerOf, s) = <<>>
    BY <1>1, MapTypes
<1>3. \A i \in DOMAIN s : CallersOf(s)[i] = Caller(s[i].key)
    BY DEF CallersOf
<1> QED BY <1>1, <1>2, <1>3

LEMMA CallersOfTail ==
    ASSUME NEW s \in Seq(Row), s # <<>>
    PROVE  CallersOf(s) = <<Caller(Head(s).key)>> \o CallersOf(Tail(s))
<1>1. /\ CallersOf(s) = MapSeq(CallerOf, s) /\ CallersOf(Tail(s)) = MapSeq(CallerOf, Tail(s))
      /\ CallerOf \in [Row -> Key] /\ CallerOf[Head(s)] = Caller(Head(s).key)
  <2>1. Tail(s) \in Seq(Row) /\ Head(s) \in Row
      BY TailSome
  <2> QED BY <2>1, KeysMapped DEF CallerOf
<1>2. MapSeq(CallerOf, s) = <<CallerOf[Head(s)]>> \o MapSeq(CallerOf, Tail(s))
    BY <1>1, MapTail
<1> QED BY <1>1, <1>2

LEMMA FlowTypes ==
    ASSUME ScanTypes, Underway
    PROVE  /\ KeysOf(scan.out) \in Seq(Key) /\ KeysOf(scan.pending) \in Seq(Key)
           /\ KeysOf(scan.ready) \in Seq(Key) /\ KeysOf(scan.batch) \in Seq(Key)
           /\ CallersOf(scan.page) \in Seq(Key) /\ Kept \in Seq(Key) /\ Flow \in Seq(Key)
<1>1. /\ KeysOf(scan.out) \in Seq(Key) /\ KeysOf(scan.pending) \in Seq(Key)
      /\ KeysOf(scan.ready) \in Seq(Key) /\ KeysOf(scan.batch) \in Seq(Key)
      /\ CallersOf(scan.page) \in Seq(Key)
    BY TypedFields, KeysOfRows, CallersOfRows DEF Typed
<1>2. Kept \in Seq(Key)
    BY <1>1, ConcatProperties DEF Kept
<1> QED BY <1>1, <1>2, ConcatProperties DEF Flow

-----------------------------------------------------------------------------
(***************************************************************************)
(* How a step moves the keys a scan holds.                                 *)
(***************************************************************************)
Cat(s, t) == s \o t

LEMMA CatLaws ==
    /\ \A s, t \in Seq(Key) : Cat(s, t) \in Seq(Key)
    /\ \A s, t, u \in Seq(Key) : Cat(Cat(s, t), u) = Cat(s, Cat(t, u))
    /\ \A s \in Seq(Key) : Cat(s, <<>>) = s /\ Cat(<<>>, s) = s
<1>1. ASSUME NEW s \in Seq(Key), NEW t \in Seq(Key) PROVE Cat(s, t) \in Seq(Key)
    BY ConcatProperties DEF Cat
<1>2. ASSUME NEW s \in Seq(Key), NEW t \in Seq(Key), NEW u \in Seq(Key)
      PROVE  Cat(Cat(s, t), u) = Cat(s, Cat(t, u))
    BY ConcatAssociative DEF Cat
<1>3. ASSUME NEW s \in Seq(Key) PROVE Cat(s, <<>>) = s /\ Cat(<<>>, s) = s
    BY ConcatEmptySeq DEF Cat
<1> QED BY <1>1, <1>2, <1>3

LEMMA KeySeqs ==
    /\ \A a, b \in Seq(Key) : a \o b \in Seq(Key)
    /\ \A a \in Seq(Key) : a \o <<>> = a /\ <<>> \o a = a
<1>1. \A a, b \in Seq(Key) : a \o b \in Seq(Key)
    BY ConcatProperties
<1>2. ASSUME NEW a \in Seq(Key) PROVE a \o <<>> = a /\ <<>> \o a = a
    BY ConcatEmptySeq
<1> QED BY <1>1, <1>2, Zenon

LEMMA ReadyDropped ==
    \A a, b, d \in Seq(Key) : \A x \in Key : ((a \o b) \o <<x>>) \o d = (a \o b) \o (<<x>> \o d)
<1> SUFFICES ASSUME NEW a \in Seq(Key), NEW b \in Seq(Key), NEW d \in Seq(Key), NEW x \in Key
             PROVE  ((a \o b) \o <<x>>) \o d = (a \o b) \o (<<x>> \o d)
    BY Zenon
<1>3. PICK o \in Seq(Key) : o = <<x>>
    BY Singleton
<1>4. Cat(Cat(Cat(a, b), o), d) = Cat(Cat(a, b), Cat(o, d))
    BY CatLaws
<1> QED BY <1>3, <1>4, Zenon DEF Cat

LEMMA NoneReady ==
    \A a, b, d \in Seq(Key) : ((a \o b) \o <<>>) \o d = (a \o b) \o d
<1> SUFFICES ASSUME NEW a \in Seq(Key), NEW b \in Seq(Key), NEW d \in Seq(Key)
             PROVE  ((a \o b) \o <<>>) \o d = (a \o b) \o d
    BY Zenon
<1>1. PICK e \in Seq(Key) : e = <<>>
    BY EmptySeq
<1>2. \A s \in Seq(Key) : Cat(s, e) = s /\ Cat(e, s) = s
    BY <1>1, CatLaws
<1>4. Cat(Cat(Cat(a, b), e), d) = Cat(Cat(a, b), d)
    BY <1>2, CatLaws
<1> QED BY <1>1, <1>4, Zenon DEF Cat

LEMMA ReadyToPending ==
    \A a, b, d \in Seq(Key) : \A x \in Key : ((a \o (b \o <<x>>)) \o <<>>) \o d = ((a \o b) \o <<x>>) \o d
<1> SUFFICES ASSUME NEW a \in Seq(Key), NEW b \in Seq(Key), NEW d \in Seq(Key), NEW x \in Key
             PROVE  ((a \o (b \o <<x>>)) \o <<>>) \o d = ((a \o b) \o <<x>>) \o d
    BY Zenon
<1>1. PICK e \in Seq(Key) : e = <<>>
    BY EmptySeq
<1>2. \A s \in Seq(Key) : Cat(s, e) = s /\ Cat(e, s) = s
    BY <1>1, CatLaws
<1>3. PICK o \in Seq(Key) : o = <<x>>
    BY Singleton
<1>4. Cat(Cat(Cat(a, Cat(b, o)), e), d) = Cat(Cat(Cat(a, b), o), d)
    BY <1>2, CatLaws
<1> QED BY <1>1, <1>3, <1>4, Zenon DEF Cat

LEMMA ReadyToOut ==
    \A a, d \in Seq(Key) : \A x \in Key : (((a \o <<x>>) \o <<>>) \o <<>>) \o d = ((a \o <<>>) \o <<x>>) \o d
<1> SUFFICES ASSUME NEW a \in Seq(Key), NEW d \in Seq(Key), NEW x \in Key
             PROVE  (((a \o <<x>>) \o <<>>) \o <<>>) \o d = ((a \o <<>>) \o <<x>>) \o d
    BY Zenon
<1>1. PICK e \in Seq(Key) : e = <<>>
    BY EmptySeq
<1>2. \A s \in Seq(Key) : Cat(s, e) = s /\ Cat(e, s) = s
    BY <1>1, CatLaws
<1>3. PICK o \in Seq(Key) : o = <<x>>
    BY Singleton
<1>4. Cat(Cat(Cat(Cat(a, o), e), e), d) = Cat(Cat(Cat(a, e), o), d)
    BY <1>2, CatLaws
<1> QED BY <1>1, <1>3, <1>4, Zenon DEF Cat

LEMMA BatchToReady ==
    \A a, b, d \in Seq(Key) : \A x \in Key : ((a \o b) \o <<x>>) \o d = ((a \o b) \o <<>>) \o (<<x>> \o d)
<1> SUFFICES ASSUME NEW a \in Seq(Key), NEW b \in Seq(Key), NEW d \in Seq(Key), NEW x \in Key
             PROVE  ((a \o b) \o <<x>>) \o d = ((a \o b) \o <<>>) \o (<<x>> \o d)
    BY Zenon
<1>1. PICK e \in Seq(Key) : e = <<>>
    BY EmptySeq
<1>2. \A s \in Seq(Key) : Cat(s, e) = s /\ Cat(e, s) = s
    BY <1>1, CatLaws
<1>3. PICK o \in Seq(Key) : o = <<x>>
    BY Singleton
<1>4. Cat(Cat(Cat(a, b), o), d) = Cat(Cat(Cat(a, b), e), Cat(o, d))
    BY <1>2, CatLaws
<1> QED BY <1>1, <1>3, <1>4, Zenon DEF Cat

LEMMA ListedToReady ==
    \A a, b \in Seq(Key) : \A x \in Key : ((a \o b) \o <<x>>) \o <<>> = (((a \o b) \o <<>>) \o <<>>) \o <<x>>
<1> SUFFICES ASSUME NEW a \in Seq(Key), NEW b \in Seq(Key), NEW x \in Key
             PROVE  ((a \o b) \o <<x>>) \o <<>> = (((a \o b) \o <<>>) \o <<>>) \o <<x>>
    BY Zenon
<1>1. PICK e \in Seq(Key) : e = <<>>
    BY EmptySeq
<1>2. \A s \in Seq(Key) : Cat(s, e) = s /\ Cat(e, s) = s
    BY <1>1, CatLaws
<1>3. PICK o \in Seq(Key) : o = <<x>>
    BY Singleton
<1>4. Cat(Cat(Cat(a, b), o), e) = Cat(Cat(Cat(Cat(a, b), e), e), o)
    BY <1>2, CatLaws
<1> QED BY <1>1, <1>3, <1>4, Zenon DEF Cat

LEMMA NextListed ==
    \A a, b \in Seq(Key) : \A x \in Key : (a \o <<x>>) \o b = a \o (<<x>> \o b)
<1> SUFFICES ASSUME NEW a \in Seq(Key), NEW b \in Seq(Key), NEW x \in Key
             PROVE  (a \o <<x>>) \o b = a \o (<<x>> \o b)
    BY Zenon
<1>3. PICK o \in Seq(Key) : o = <<x>>
    BY Singleton
<1>4. Cat(Cat(a, o), b) = Cat(a, Cat(o, b))
    BY CatLaws
<1> QED BY <1>3, <1>4, Zenon DEF Cat

LEMMA Associates ==
    \A a, b, c \in Seq(Key) : (a \o b) \o c = a \o (b \o c)
<1> SUFFICES ASSUME NEW a \in Seq(Key), NEW b \in Seq(Key), NEW c \in Seq(Key)
             PROVE  (a \o b) \o c = a \o (b \o c)
    BY Zenon
<1>4. Cat(Cat(a, b), c) = Cat(a, Cat(b, c))
    BY CatLaws
<1> QED BY <1>4, Zenon DEF Cat

\* Reading values leaves the keys.
LEMMA SameKeys ==
    ASSUME ScanTypes, NEW s \in Seq(Row)
    PROVE  KeysOf([i \in DOMAIN s |-> [s[i] EXCEPT !.value = BatchGet(data, s[i].key)]]) = KeysOf(s)
<1> DEFINE t == [i \in DOMAIN s |-> [s[i] EXCEPT !.value = BatchGet(data, s[i].key)]]
<1>1. ASSUME NEW i \in DOMAIN s PROVE t[i].key = s[i].key
  <2>1. PICK r \in Row : r = s[i]
      OBVIOUS
  <2>2. r.key \in Key
      BY RowFields
  <2>3. BatchGet(data, r.key) \in Value \cup {None}
      BY <2>2, BatchGetTypes
  <2>4. [r EXCEPT !.value = BatchGet(data, r.key)].key = r.key
      BY <2>3, RowFields
  <2>5. t[i] = [r EXCEPT !.value = BatchGet(data, r.key)]
      BY <2>1, Zenon
  <2> QED BY <2>1, <2>4, <2>5, Zenon
<1>2. DOMAIN t = DOMAIN s
    BY Zenon
<1> HIDE DEF t
<1>3. [i \in DOMAIN t |-> t[i].key] = [i \in DOMAIN s |-> s[i].key]
    BY <1>1, <1>2, Zenon
<1>4. KeysOf(t) = KeysOf(s)
    BY <1>3 DEF KeysOf
<1> QED BY <1>4 DEF t

\* A row the cascade drops is of no record that matches.
LEMMA DroppedRow ==
    ASSUME Filtering, ScanTypes, Underway, NEW r \in Row, ViewedRow(r), r.key \in Steady,
           \/ ~ AllPass(PartitionByNeeds(scan.plan.residual).key, r)
           \/ ~ AllPass(PartitionByNeeds(scan.plan.residual).stat, r)
           \/ (~ ReadsValues \/ r.value # None) /\ ~ Accepted(r)
    PROVE  ~ Matches(r.key)
<1> DEFINE need == PartitionByNeeds(scan.plan.residual)
           full == [key |-> r.key, value |-> BatchGet(data, r.key), stat |-> StatOf(r.key)]
<1> SUFFICES ASSUME Matches(r.key) PROVE FALSE
    OBVIOUS
<1>1. r.key \in Key /\ BatchGet(data, r.key) \in Value \cup {None} /\ StatOf(r.key) \in Stat
    BY RowFields, BatchGetTypes DEF StatOf, Stat
<1>2. full \in Row /\ full.key = r.key /\ full.stat = StatOf(r.key) /\ full.value = BatchGet(data, r.key)
    BY <1>1, RowFields
<1>3. Evaluate(scan.spec.where, full) /\ (scan.spec.refine => r.key \in Refined)
    BY DEF Matches, StatOf
<1>4. r.stat = full.stat /\ r.value \in {None, full.value}
    BY <1>2 DEF ViewedRow
<1> HIDE DEF full, need
<1>5. Evaluate(scan.plan.residual, full)
    BY <1>2, <1>3, Sifts
<1>6. AllPass(need.key, full) /\ AllPass(need.stat, full) /\ AllPass(need.value, full)
    BY <1>2, <1>5, CascadeAsks DEF need
<1>7. AllPass(need.key, r) /\ AllPass(need.stat, r)
    BY <1>2, <1>4, <1>6, CascadeAsks DEF need
<1>8. (~ ReadsValues \/ r.value # None) /\ ~ Accepted(r)
    BY <1>7 DEF need
<1>9. ReadsValues => r.value = full.value
    BY <1>4, <1>8
<1>10. Evaluate(scan.plan.residual, r)
    BY <1>2, <1>4, <1>5, <1>9, CascadeAsks
<1>11. AllPass(need.value, r)
    BY <1>10, CascadeAsks DEF need
<1> QED BY <1>3, <1>8, <1>11 DEF Accepted, need

\* A key the cascade drops: of no record that matches.
Drops ==
    \E a, b \in Seq(Key), x \in Key :
        /\ Kept = a \o (<<x>> \o b) /\ Kept' = a \o b
        /\ Filtering /\ RowsTrue => (x \in Steady => ~ Matches(x))

LEMMA FlushMoves == ASSUME ScanTypes, Confirm \/ Flush \/ End PROVE Kept' = Kept
<1>0. Underway /\ Typed
    BY TypedFields DEF Confirm, Flush, End, Underway
<1>1. CASE Confirm
  <2>1. KeysOf(scan'.batch) = KeysOf(scan.batch)
      BY <1>0, <1>1, ConfirmEffect, SameKeys DEF Typed
  <2> QED BY <1>1, <2>1, ConfirmEffect DEF Kept
<1>2. CASE Flush
  <2>1. KeysOf(scan'.pending) = KeysOf(scan.pending)
      BY <1>0, <1>2, FlushEffect, SameKeys DEF Typed
  <2> QED BY <1>2, <2>1, FlushEffect DEF Kept
<1>3. CASE End
    BY <1>3, EndEffect DEF Kept, SameCascade
<1> QED BY <1>1, <1>2, <1>3

\* What waits in the cascade is one row at most.
LEMMA OneRow ==
    ASSUME NEW s \in Seq(Row), s # <<>>, Len(s) <= 1
    PROVE  s = <<Head(s)>> /\ Head(s) = s[1] /\ Head(s) \in Row /\ KeysOf(s) = <<Head(s).key>>
<1>1. Head(s) = s[1] /\ Head(s) \in Row /\ Len(s) \in Nat /\ Len(s) # 0
    BY TailElements, LenProperties, EmptySeq
<1>2. Len(s) = 1
  <2>1. PICK n \in Nat : n = Len(s)
      BY <1>1
  <2> QED BY <1>1, <2>1
<1>3. PICK h \in Row : h = Head(s)
    BY <1>1
<1>4. <<h>> \in Seq(Row) /\ Len(<<h>>) = 1 /\ <<h>>[1] = h
    BY Singleton
<1>5. \A i \in 1 .. Len(s) : s[i] = <<h>>[i]
    BY <1>1, <1>2, <1>3, <1>4
<1>6. s = <<h>>
    BY <1>2, <1>4, <1>5, SeqEqual
<1>7. KeysOf(<<h>>) = <<h.key>>
  <2>1. <<>> \in Seq(Row)
      OBVIOUS
  <2> QED BY <2>1, KeysOfAppend
<1> QED BY <1>1, <1>3, <1>6, <1>7

LEMMA NoKeys == KeysOf(<<>>) = <<>>
<1>1. PICK e \in Seq(Row) : e = <<>>
    BY EmptySeq
<1>2. KeysOf(e) = <<>>
    BY <1>1, KeysOfRows
<1> QED BY <1>1, <1>2

LEMMA TakeMoves ==
    ASSUME ScanTypes, Meant, Take PROVE Kept' = Kept \/ Drops
<1>0. Underway /\ Typed
    BY TypedFields DEF Take, Underway
<1> DEFINE row == Head(scan.ready)
           need == PartitionByNeeds(scan.plan.residual)
<1>1. /\ scan.ready = <<row>> /\ row = scan.ready[1] /\ row \in Row /\ scan.ready # <<>>
      /\ KeysOf(scan.ready) = <<row.key>>
  <2>1. scan.ready \in Seq(Row) /\ scan.ready # <<>> /\ Len(scan.ready) <= 1
      BY <1>0, DueFacts DEF Take, Typed, Meant
  <2> QED BY <2>1, OneRow
<1>2. PICK x \in Key : x = row.key
    BY <1>1, RowFields
<1>3. PICK a \in Seq(Key) : a = KeysOf(scan.out)
    BY <1>0, FlowTypes
<1>4. PICK b \in Seq(Key) : b = KeysOf(scan.pending)
    BY <1>0, FlowTypes
<1>5. PICK d \in Seq(Key) : d = KeysOf(scan.batch)
    BY <1>0, FlowTypes
<1>6. Kept = ((a \o b) \o <<x>>) \o d /\ scan'.batch = scan.batch
    BY <1>1, <1>2, <1>3, <1>4, <1>5, TakeEffect DEF Kept
<1>7. KeysOf(<<>>) = <<>>
    BY NoKeys
<1>8. CASE scan'.ready = scan.ready /\ scan'.pending = scan.pending /\ scan'.out = scan.out
    BY <1>8, TakeEffect DEF Kept
<1>9. CASE /\ \/ ~ AllPass(need.key, row) \/ ~ AllPass(need.stat, row)
              \/ (~ ReadsValues \/ row.value # None) /\ ~ Accepted(row)
           /\ scan'.pending = scan.pending /\ scan'.out = scan.out /\ scan'.ready = <<>>
  <2>1. Kept' = ((a \o b) \o <<>>) \o d
      BY <1>3, <1>4, <1>5, <1>6, <1>7, <1>9 DEF Kept
  <2>2. Kept = (a \o b) \o (<<x>> \o d) /\ Kept' = (a \o b) \o d /\ a \o b \in Seq(Key)
    <3>1. ((a \o b) \o <<x>>) \o d = (a \o b) \o (<<x>> \o d)
        BY ReadyDropped, SMTT(30)
    <3>2. ((a \o b) \o <<>>) \o d = (a \o b) \o d
        BY NoneReady
    <3>3. a \o b \in Seq(Key)
        BY KeySeqs, Zenon
    <3> QED BY <1>6, <2>1, <3>1, <3>2, <3>3, Zenon
  <2>3. ASSUME Filtering, RowsTrue, x \in Steady PROVE ~ Matches(x)
    <3>1. ViewedRow(row)
        BY <1>1, <2>3 DEF RowsTrue
    <3> QED BY <1>0, <1>1, <1>2, <1>9, <2>3, <3>1, DroppedRow
  <2> QED BY <2>2, <2>3 DEF Drops
<1>10. CASE /\ scan'.pending = Append(scan.pending, row) /\ scan'.out = scan.out
            /\ scan'.ready = <<>>
  <2>1. KeysOf(scan'.pending) = b \o <<x>>
      BY <1>0, <1>1, <1>2, <1>4, <1>10, KeysOfAppend DEF Typed
  <2>2. Kept' = ((a \o (b \o <<x>>)) \o <<>>) \o d
      BY <1>3, <1>5, <1>6, <1>7, <1>10, <2>1 DEF Kept
  <2>3. ((a \o (b \o <<x>>)) \o <<>>) \o d = ((a \o b) \o <<x>>) \o d
      BY ReadyToPending
  <2> QED BY <1>6, <2>2, <2>3, Zenon
<1>11. CASE /\ ~ ReadsValues \/ row.value # None
            /\ ~ LimitReached
            /\ scan'.pending = scan.pending /\ scan'.ready = <<>>
            /\ scan'.out = Append(scan.out, ProjectRow(row, scan.spec.project))
  <2>1. scan.pending = <<>>
      BY <1>0, <1>1, <1>11, DueFacts DEF Meant, Take
  <2>2. ProjectRow(row, scan.spec.project) \in Row /\ ProjectRow(row, scan.spec.project).key = x
      BY <1>1, <1>2, ProjectRowTypes
  <2>3. KeysOf(scan'.out) = a \o <<x>>
      BY <1>0, <1>3, <1>11, <2>2, KeysOfAppend DEF Typed
  <2>4. b = <<>>
      BY <1>4, <1>7, <2>1
  <2>5. Kept' = (((a \o <<x>>) \o <<>>) \o <<>>) \o d
      BY <1>5, <1>6, <1>7, <1>11, <2>1, <2>3 DEF Kept
  <2>6. Kept = ((a \o <<>>) \o <<x>>) \o d
      BY <1>6, <2>4
  <2>7. (((a \o <<x>>) \o <<>>) \o <<>>) \o d = ((a \o <<>>) \o <<x>>) \o d
      BY ReadyToOut
  <2> QED BY <2>5, <2>6, <2>7, Zenon
<1> QED BY <1>8, <1>9, <1>10, <1>11, TakeEffect

LEMMA YieldMoves ==
    ASSUME Grounded, ScanTypes, Meant, Yield PROVE Kept' = Kept \/ Drops
<1>0. Underway /\ Typed /\ scan.filled /\ scan.pending # <<>>
    BY TypedFields, DueFacts DEF Yield, Underway, Grounded
<1> DEFINE row == Head(scan.pending)
<1>1. /\ row = scan.pending[1] /\ row \in Row /\ 1 \in DOMAIN scan.pending
      /\ KeysOf(scan.pending) = <<row.key>> \o KeysOf(Tail(scan.pending))
      /\ Tail(scan.pending) \in Seq(Row)
    BY <1>0, TailElements, TailSome, KeysOfTail DEF Typed
<1>2. PICK x \in Key : x = row.key
    BY <1>1, RowFields
<1>3. PICK a \in Seq(Key) : a = KeysOf(scan.out)
    BY <1>0, FlowTypes
<1>4. PICK b \in Seq(Key) : b = KeysOf(Tail(scan.pending))
    BY <1>1, KeysOfRows
<1>5. PICK c \in Seq(Key) : c = KeysOf(scan.ready)
    BY <1>0, FlowTypes
<1>6. PICK d \in Seq(Key) : d = KeysOf(scan.batch)
    BY <1>0, FlowTypes
<1>7. /\ Kept = ((a \o (<<x>> \o b)) \o c) \o d
      /\ scan'.batch = scan.batch /\ scan'.ready = scan.ready /\ scan'.pending = Tail(scan.pending)
    BY <1>1, <1>2, <1>3, <1>4, <1>5, <1>6, YieldEffect DEF Kept
<1>8. CASE (row.value = None \/ ~ Accepted(row)) /\ scan'.out = scan.out
  <2>1. Kept' = ((a \o b) \o c) \o d
      BY <1>3, <1>4, <1>5, <1>6, <1>7, <1>8 DEF Kept
  <2>2. /\ Kept = a \o (<<x>> \o ((b \o c) \o d)) /\ Kept' = a \o ((b \o c) \o d)
        /\ (b \o c) \o d \in Seq(Key)
    <3>1. ((a \o (<<x>> \o b)) \o c) \o d = a \o (<<x>> \o ((b \o c) \o d))
      <4>1. PICK o \in Seq(Key) : o = <<x>>
          BY Singleton
      <4>2. Cat(Cat(Cat(a, Cat(o, b)), c), d) = Cat(a, Cat(o, Cat(Cat(b, c), d)))
          BY CatLaws
      <4> QED BY <4>1, <4>2, Zenon DEF Cat
    <3>2. ((a \o b) \o c) \o d = a \o ((b \o c) \o d)
      <4>1. Cat(Cat(Cat(a, b), c), d) = Cat(a, Cat(Cat(b, c), d))
          BY CatLaws
      <4> QED BY <4>1, Zenon DEF Cat
    <3>3. (b \o c) \o d \in Seq(Key)
        BY KeySeqs, Zenon
    <3> QED BY <1>7, <2>1, <3>1, <3>2, <3>3, Zenon
  <2>3. ASSUME Filtering, RowsTrue, x \in Steady PROVE ~ Matches(x)
    <3>1. ViewedRow(row) /\ row.value = BatchGet(data, x)
        BY <1>0, <1>1, <1>2, <2>3 DEF RowsTrue, PendingRow
    <3>2. CASE row.value = None
      <4>1. ReadsValues
          BY <1>0 DEF Meant
      <4>2. "value" \in Needs(scan.plan.residual)
          BY <1>0, <2>3, <4>1, CascadeAsks
      <4> QED BY <3>1, <3>2, <4>2 DEF Matches, Holds, NeedsValues
    <3>3. CASE row.value # None /\ ~ Accepted(row)
        BY <1>0, <1>1, <1>2, <2>3, <3>1, <3>3, DroppedRow
    <3> QED BY <1>8, <3>2, <3>3
  <2> QED BY <2>2, <2>3 DEF Drops
<1>9. CASE scan'.out = Append(scan.out, ProjectRow(row, scan.spec.project))
  <2>1. ProjectRow(row, scan.spec.project) \in Row /\ ProjectRow(row, scan.spec.project).key = x
      BY <1>1, <1>2, ProjectRowTypes
  <2>2. KeysOf(scan'.out) = a \o <<x>>
      BY <1>0, <1>3, <1>9, <2>1, KeysOfAppend DEF Typed
  <2>3. Kept' = (((a \o <<x>>) \o b) \o c) \o d
      BY <1>4, <1>5, <1>6, <1>7, <2>2 DEF Kept
  <2>4. (((a \o <<x>>) \o b) \o c) \o d = ((a \o (<<x>> \o b)) \o c) \o d
    <3>1. PICK o \in Seq(Key) : o = <<x>>
        BY Singleton
    <3>2. Cat(Cat(Cat(Cat(a, o), b), c), d) = Cat(Cat(Cat(a, Cat(o, b)), c), d)
        BY CatLaws
    <3> QED BY <3>1, <3>2, Zenon DEF Cat
  <2> QED BY <1>7, <2>3, <2>4, Zenon
<1> QED BY <1>8, <1>9, YieldEffect

LEMMA BringMoves ==
    ASSUME Grounded, ScanTypes, Meant, Bring PROVE Kept' = Kept \/ Drops
<1>0. Underway /\ Typed /\ scan.confirmed /\ scan.batch # <<>> /\ scan.ready = <<>>
    BY TypedFields, DueFacts DEF Bring, Underway, Grounded
<1> DEFINE row == Head(scan.batch)
<1>1. /\ row = scan.batch[1] /\ row \in Row /\ 1 \in DOMAIN scan.batch
      /\ KeysOf(scan.batch) = <<row.key>> \o KeysOf(Tail(scan.batch))
      /\ Tail(scan.batch) \in Seq(Row)
    BY <1>0, TailElements, TailSome, KeysOfTail DEF Typed
<1>2. PICK x \in Key : x = row.key
    BY <1>1, RowFields
<1>3. PICK a \in Seq(Key) : a = KeysOf(scan.out)
    BY <1>0, FlowTypes
<1>4. PICK b \in Seq(Key) : b = KeysOf(scan.pending)
    BY <1>0, FlowTypes
<1>5. PICK d \in Seq(Key) : d = KeysOf(Tail(scan.batch))
    BY <1>1, KeysOfRows
<1>6. KeysOf(<<>>) = <<>>
    BY NoKeys
<1>7. /\ Kept = ((a \o b) \o <<>>) \o (<<x>> \o d)
      /\ scan'.pending = scan.pending /\ scan'.out = scan.out /\ scan'.batch = Tail(scan.batch)
    BY <1>0, <1>1, <1>2, <1>3, <1>4, <1>5, <1>6, BringEffect DEF Kept
<1>8. CASE /\ store.view # "through" /\ row.value = None /\ scan'.ready = scan.ready
  <2>1. Kept' = ((a \o b) \o <<>>) \o d
      BY <1>0, <1>3, <1>4, <1>5, <1>6, <1>7, <1>8 DEF Kept
  <2>2. (a \o b) \o <<>> \in Seq(Key)
      BY KeySeqs, Zenon
  <2>3. ASSUME Filtering, RowsTrue, x \in Steady PROVE ~ Matches(x)
    <3>1. row.value = BatchGet(data, x)
        BY <1>0, <1>1, <1>2, <2>3 DEF RowsTrue, BatchRow
    <3> QED BY <1>8, <3>1 DEF Matches, Holds
  <2> QED BY <1>7, <2>1, <2>2, <2>3 DEF Drops
<1>9. CASE scan'.ready = <<[row EXCEPT !.value = IF NeedsValues(scan.spec, scan.plan.residual) THEN @ ELSE None]>>
  <2>1. PICK v \in Value \cup {None} :
           v = (IF NeedsValues(scan.spec, scan.plan.residual) THEN row.value ELSE None)
      BY <1>1, RowFields
  <2>2. PICK r \in Row : r = [row EXCEPT !.value = v] /\ r.key = x
      BY <1>1, <1>2, RowFields, ZenonT(60)
  <2>3. scan'.ready = <<r>>
      BY <1>9, <2>1, <2>2
  <2>4. KeysOf(<<r>>) = <<x>>
    <3>1. <<>> \in Seq(Row)
        OBVIOUS
    <3> QED BY <2>2, <3>1, KeysOfAppend
  <2>5. Kept' = ((a \o b) \o <<x>>) \o d
      BY <1>3, <1>4, <1>5, <1>7, <2>3, <2>4 DEF Kept
  <2>6. ((a \o b) \o <<x>>) \o d = ((a \o b) \o <<>>) \o (<<x>> \o d)
      BY BatchToReady
  <2> QED BY <1>7, <2>5, <2>6, Zenon
<1> QED BY <1>8, <1>9, BringEffect

\* Whether the next row of the leaf goes on, and whether the leaf stops with it.
Passing ==
    /\ scan.started
    /\ store.view # "leaf" =>
         /\ ~ Reached(scan.passed, scan.plan.innerLimit)
         /\ Evaluate(scan.plan.inner, Head(scan.page)) /\ Head(scan.page).key \notin scan.seen
Cutting ==
    \/ Reached(scan.given + 1, scan.plan.limit)
    \/ scan.started /\ store.view # "leaf" /\ Reached(scan.passed, scan.plan.innerLimit)

LEMMA ListMoves ==
    ASSUME ScanTypes, Grounded, Meant, List
    PROVE  LET c == Caller(Head(scan.page).key)
               rest == CallersOf(Tail(scan.page))
           IN /\ c \in Key /\ rest \in Seq(Key) /\ Kept \in Seq(Key)
              /\ Flow = Kept \o (<<c>> \o rest)
              /\ Kept' = IF Passing THEN Kept \o <<c>> ELSE Kept
              /\ Flow' = Kept' \o (IF Cutting THEN <<>> ELSE rest)
<1> DEFINE row == Head(scan.page)
           c == Caller(row.key)
           rest == CallersOf(Tail(scan.page))
<1>0. Underway /\ Typed /\ scan.page # <<>> /\ scan.ready = <<>>
    BY TypedFields, DueFacts DEF List, Underway
<1>1. /\ row \in Row /\ Tail(scan.page) \in Seq(Row) /\ row.key \in Key /\ c \in Key
      /\ CallersOf(scan.page) = <<c>> \o rest /\ rest \in Seq(Key)
    BY <1>0, TailSome, CallersOfTail, CallersOfRows, RowFields, CallerTypes DEF Typed
<1>2. Kept \in Seq(Key) /\ Flow = Kept \o (<<c>> \o rest)
    BY <1>0, <1>1, FlowTypes DEF Flow
<1>3. /\ Same /\ scan'.pending = scan.pending /\ scan'.out = scan.out
    BY ListEffect
<1>4. scan'.page = (IF Cutting THEN <<>> ELSE Tail(scan.page))
    BY ListEffect DEF Cutting, Rest
<1>5. CallersOf(scan.page)' = (IF Cutting THEN <<>> ELSE rest)
  <2>1. \A k : Caller(k)' = Caller(k)
      BY <1>3, SameOperators
  <2>2. CASE Cutting
    <3>1. scan'.page = <<>>
        BY <1>4, <2>2
    <3>2. DOMAIN <<>> = {}
        OBVIOUS
    <3> QED BY <2>2, <3>1, <3>2 DEF CallersOf
  <2>3. CASE ~ Cutting
    <3>1. scan'.page = Tail(scan.page)
        BY <1>4, <2>3
    <3> QED BY <2>1, <2>3, <3>1, Zenon DEF CallersOf
  <2> QED BY <2>2, <2>3
<1>6. Flow' = Kept' \o (IF Cutting THEN <<>> ELSE rest)
    BY <1>5 DEF Flow
<1>7. PICK a \in Seq(Key) : a = KeysOf(scan.out)
    BY <1>0, FlowTypes
<1>8. PICK b \in Seq(Key) : b = KeysOf(scan.pending)
    BY <1>0, FlowTypes
<1>9. PICK d \in Seq(Key) : d = KeysOf(scan.batch)
    BY <1>0, FlowTypes
<1>10. Kept = ((a \o b) \o <<>>) \o d
    BY <1>0, <1>7, <1>8, <1>9, NoKeys DEF Kept
<1>11. CASE ~ Passing
  <2>1. scan'.ready = scan.ready /\ scan'.batch = scan.batch
      BY <1>11, ListEffect DEF Passing
  <2> QED BY <1>1, <1>2, <1>3, <1>6, <1>11, <2>1 DEF Kept
<1>12. CASE Passing /\ ~ Batched
  <2>1. scan.batch = <<>> /\ d = <<>>
      BY <1>9, <1>12, NoKeys DEF Meant
  <2>2. PICK r \in Row : r.key = c /\ scan'.ready = <<r>> /\ scan'.batch = scan.batch
    <3>1. CASE store.view = "leaf"
      <4>1. c = row.key
          BY <3>1 DEF Caller
      <4> QED BY <1>1, <1>12, <3>1, <4>1, ListEffect DEF Passing
    <3>2. CASE store.view # "leaf"
      <4>1. ViewRow(row) \in Row /\ ViewRow(row).key = c
          BY <1>0, <1>1, ViewRowFields
      <4>2. scan'.ready = <<ViewRow(row)>> /\ scan'.batch = scan.batch
          BY <1>12, <3>2, ListEffect DEF Passing
      <4> QED BY <4>1, <4>2
    <3> QED BY <3>1, <3>2
  <2>3. KeysOf(<<r>>) = <<c>>
    <3>1. <<>> \in Seq(Row)
        OBVIOUS
    <3> QED BY <2>2, <3>1, KeysOfAppend
  <2>4. Kept' = ((a \o b) \o <<c>>) \o <<>>
      BY <1>3, <1>7, <1>8, <2>1, <2>2, <2>3, NoKeys DEF Kept
  <2>5. ((a \o b) \o <<c>>) \o <<>> = (((a \o b) \o <<>>) \o <<>>) \o <<c>>
      BY <1>1, ListedToReady
  <2>6. Kept = ((a \o b) \o <<>>) \o <<>>
      BY <1>10, <2>1, Zenon
  <2>7. Kept' = Kept \o <<c>>
      BY <2>4, <2>5, <2>6, Zenon
  <2> QED BY <1>1, <1>2, <1>6, <1>12, <2>7
<1>13. CASE Passing /\ Batched
  <2>1. store.view # "leaf"
      BY <1>13 DEF Batched
  <2>2. ViewRow(row) \in Row /\ ViewRow(row).key = c
      BY <1>0, <1>1, ViewRowFields
  <2>3. scan'.ready = scan.ready /\ scan'.batch = Append(scan.batch, ViewRow(row))
      BY <1>13, <2>1, ListEffect DEF Passing
  <2>4. KeysOf(scan'.batch) = d \o <<c>>
      BY <1>0, <1>9, <2>2, <2>3, KeysOfAppend DEF Typed
  <2>5. Kept' = ((a \o b) \o <<>>) \o (d \o <<c>>)
      BY <1>0, <1>3, <1>7, <1>8, <2>3, <2>4, NoKeys DEF Kept
  <2>6. ((a \o b) \o <<>>) \o (d \o <<c>>) = (((a \o b) \o <<>>) \o d) \o <<c>>
    <3>1. PICK e \in Seq(Key) : e = <<>>
        BY EmptySeq
    <3>2. PICK o \in Seq(Key) : o = <<c>>
        BY <1>1, Singleton
    <3>3. PICK p \in Seq(Key) : p = Cat(Cat(a, b), e)
        BY CatLaws
    <3>4. Cat(p, Cat(d, o)) = Cat(Cat(p, d), o)
        BY CatLaws
    <3> QED BY <3>1, <3>2, <3>3, <3>4, Zenon DEF Cat
  <2>7. Kept' = Kept \o <<c>>
      BY <1>10, <2>5, <2>6, Zenon
  <2> QED BY <1>1, <1>2, <1>6, <1>13, <2>7
<1> QED BY <1>11, <1>12, <1>13

-----------------------------------------------------------------------------
LEMMA PosTypes ==
    ASSUME ScanTypes, Underway
    PROVE  /\ \A k \in Key : Pos(k) \in 1 .. Len(Order) /\ Pos(k) \in Nat
           /\ \A k \in Key : Pos(Caller(k)) = Position(Order, k)
           /\ \A i \in 1 .. Len(Order) : Order[i] \in Key /\ Pos(Caller(Order[i])) = i
           /\ \A j, k \in Key : Pos(j) = Pos(k) => j = k
           /\ Len(Order) \in Nat /\ DOMAIN Order = 1 .. Len(Order)
           /\ \A k \in Key : Order[Position(Order, k)] = k
<1>1. Order \in {Listing, ByColumn} /\ Len(Order) \in Nat /\ DOMAIN Order = 1 .. Len(Order)
    BY OrderTypes DEF Order
<1>2. PICK o \in {Listing, ByColumn} : o = Order
    BY <1>1
<1>3. /\ \A k \in Key : Position(o, k) \in 1 .. Len(o) /\ o[Position(o, k)] = k
      /\ \A i \in 1 .. Len(o) : o[i] \in Key /\ Position(o, o[i]) = i
      /\ \A j, k \in Key : Position(o, j) = Position(o, k) => j = k
    BY PositionTypes
<1>4. /\ \A k \in Key : Position(Order, k) \in 1 .. Len(Order) /\ Order[Position(Order, k)] = k
      /\ \A i \in 1 .. Len(Order) : Order[i] \in Key /\ Position(Order, Order[i]) = i
      /\ \A j, k \in Key : Position(Order, j) = Position(Order, k) => j = k
    BY <1>2, <1>3
<1>5. \A k \in Key : StoredKey(k) \in Key /\ Caller(k) \in Key /\ StoredKey(Caller(k)) = k
                     /\ Caller(StoredKey(k)) = k
    BY CallerTypes
<1>6. \A k \in Key : Pos(k) \in 1 .. Len(Order) /\ Pos(Caller(k)) = Position(Order, k)
    BY <1>4, <1>5 DEF Pos
<1>7. \A j, k \in Key : Pos(j) = Pos(k) => j = k
  <2>1. ASSUME NEW j \in Key, NEW k \in Key, Pos(j) = Pos(k) PROVE j = k
    <3>1. StoredKey(j) = StoredKey(k)
        BY <1>4, <1>5, <2>1 DEF Pos
    <3> QED BY <1>5, <3>1
  <2> QED BY <2>1
<1>8. \A k \in Key : Pos(k) \in Nat
  <2>1. 1 .. Len(Order) \subseteq Nat
      BY <1>1
  <2> QED BY <1>6, <2>1
<1> QED BY <1>1, <1>4, <1>6, <1>7, <1>8

\* The keys a page adds after those the scan holds.
LEMMA FetchMoves ==
    ASSUME ScanTypes, Grounded, Fetch
    PROVE  /\ Same /\ Flow = Kept /\ Kept' = Kept /\ Kept \in Seq(Key) /\ scan'.at >= scan.at
           /\ \E g \in Seq(Key) :
                /\ Flow' = Kept \o g /\ g = CallersOf(scan'.page)
                /\ \A i \in DOMAIN g : Pos(g[i]) > scan.at /\ Pos(g[i]) <= scan'.at
                /\ ~ scan'.relisted => \A i, j \in DOMAIN g : i < j => Pos(g[i]) < Pos(g[j])
                /\ \A k \in Key :
                     Listable(scan.part, k) /\ Position(Order, k) > scan.at =>
                       \/ \E i \in DOMAIN g :
                            g[i] = Caller(k) /\ \A j \in DOMAIN g : j < i => Pos(g[j]) < Pos(Caller(k))
                       \/ ~ scan'.ended /\ scan'.at < Position(Order, k)
<1>0. Underway /\ Typed /\ scan.page = <<>>
    BY TypedFields, DueFacts DEF Fetch, Underway
<1>1. ScanTypes' /\ Underway' /\ scan'.page \in Seq(Row)
  <2>1. ScanTypes' /\ Underway'
      BY <1>0, FetchTypes, Fetched DEF Underway
  <2>2. (ScanTypes /\ Underway => Typed)'
      BY TypedFields, PTL
  <2> QED BY <2>1, <2>2 DEF Typed
<1>2. Same /\ SameCascade
    BY Fetched
<1>3. Kept' = Kept /\ Kept \in Seq(Key) /\ Flow = Kept
  <2>1. Kept' = Kept /\ Kept \in Seq(Key)
      BY <1>0, <1>2, FlowTypes DEF Kept, SameCascade
  <2>2. CallersOf(scan.page) = <<>>
      BY <1>0, CallersOfRows DEF Typed
  <2>3. Kept \o <<>> = Kept
      BY <2>1, KeySeqs, Zenon
  <2> QED BY <2>1, <2>2, <2>3 DEF Flow
<1>4. PICK s \in Seq(Row) : s = scan'.page
    BY <1>1
<1>5. PICK g \in Seq(Key) : g = CallersOf(s)
    BY CallersOfRows
<1>6. Flow' = Kept \o g
  <2>1. \A k : Caller(k)' = Caller(k)
      BY <1>2, SameOperators
  <2>2. CallersOf(scan.page)' = CallersOf(s)
      BY <1>4, <2>1, Zenon DEF CallersOf
  <2> QED BY <1>3, <1>5, <2>2 DEF Flow
<1>7. DOMAIN g = DOMAIN s /\ \A i \in DOMAIN g : g[i] = Caller(s[i].key)
    BY <1>5, CallersOfRows
<1> DEFINE Rows(n, got) == [i \in 1 .. n |-> LeafRow(scan.part, Order[got[i]])]
<1>8. PICK n \in 0 .. Size : \E got \in [1 .. n -> Unlisted(scan.part)] :
                   /\ IsPage(got, n, Unlisted(scan.part))
                   /\ scan'.at = (IF n = 0 THEN scan.at ELSE got[n])
                   /\ scan'.ended = (n < Size)
                   /\ \/ scan'.page = Rows(n, got) /\ scan'.relisted = scan.relisted
                      \/ /\ scan'.page = Append(Rows(n, got), Rows(n, got)[1]) /\ scan'.relisted = TRUE
                         /\ store.leaf = "redis" /\ n > 0
    BY Fetched
<1>9. PICK got \in [1 .. n -> Unlisted(scan.part)] :
                   /\ IsPage(got, n, Unlisted(scan.part))
                   /\ scan'.at = (IF n = 0 THEN scan.at ELSE got[n])
                   /\ scan'.ended = (n < Size)
                   /\ \/ scan'.page = Rows(n, got) /\ scan'.relisted = scan.relisted
                      \/ /\ scan'.page = Append(Rows(n, got), Rows(n, got)[1]) /\ scan'.relisted = TRUE
                         /\ store.leaf = "redis" /\ n > 0
    BY <1>8
<1>10. n \in Nat /\ Size \in Nat
    BY <1>0, SizeTypes
<1>11. \A i \in 1 .. n : got[i] \in 1 .. Len(Order) /\ got[i] > scan.at /\ Order[got[i]] \in Key
    BY <1>0, UnreadTypes
<1>12. PICK r \in Seq(Row) : r = Rows(n, got)
  <2>1. \A i \in 1 .. n : LeafRow(scan.part, Order[got[i]]) \in Row
      BY <1>0, <1>11, LeafRowTypes DEF Typed
  <2>2. Rows(n, got) \in [1 .. n -> Row]
      BY <2>1
  <2>3. Rows(n, got) \in Seq(Row)
      BY <1>10, <2>2
  <2> QED BY <2>3
<1>13. /\ Len(r) = n /\ DOMAIN r = 1 .. n
       /\ \A i \in 1 .. n : r[i].key = Order[got[i]] /\ Pos(Caller(r[i].key)) = got[i]
  <2>1. r = [i \in 1 .. n |-> LeafRow(scan.part, Order[got[i]])]
      BY <1>12, Zenon
  <2>2. DOMAIN r = 1 .. n /\ \A i \in 1 .. n : r[i] = LeafRow(scan.part, Order[got[i]])
      BY <2>1, Zenon
  <2>3. \A i \in 1 .. n : LeafRow(scan.part, Order[got[i]]).key = Order[got[i]]
      BY <1>0, <1>11, LeafRowTypes DEF Typed
  <2>4. \A i \in 1 .. n : Pos(Caller(Order[got[i]])) = got[i]
      BY <1>0, <1>11, PosTypes
  <2>5. Len(r) = n
      BY <1>10, <1>12, <2>2, LenProperties
  <2> QED BY <2>2, <2>3, <2>4, <2>5, Zenon
<1> HIDE DEF Rows
<1>14. \/ s = r /\ scan'.relisted = scan.relisted
       \/ s = Append(r, r[1]) /\ scan'.relisted = TRUE /\ n > 0
    BY <1>4, <1>9, <1>12, Zenon
<1>15. /\ \A i \in 1 .. n : i \in DOMAIN g /\ g[i] = Caller(r[i].key) /\ Pos(g[i]) = got[i]
       /\ \A i \in DOMAIN g : i \in 1 .. n \/ (~ (i <= n) /\ n > 0 /\ scan'.relisted /\ Pos(g[i]) = got[1])
       /\ DOMAIN g \subseteq Nat
  <2>1. CASE s = r
      BY <1>7, <1>10, <1>13, <2>1, SMTT(30)
  <2>2. CASE s = Append(r, r[1]) /\ scan'.relisted = TRUE /\ n > 0
    <3>1. r[1] \in Row /\ 1 \in 1 .. n
        BY <1>10, <1>13, <2>2
    <3>2. /\ DOMAIN s = 1 .. n + 1 /\ s[n + 1] = r[1]
          /\ \A i \in 1 .. n : s[i] = r[i]
        BY <1>13, <2>2, <3>1, AppendProperties, LenProperties
    <3>3. \A i \in 1 .. n + 1 : i \in 1 .. n \/ (i = n + 1 /\ ~ (i <= n))
        BY <1>10
    <3>4. \A i \in 1 .. n : i \in DOMAIN g /\ g[i] = Caller(r[i].key) /\ Pos(g[i]) = got[i]
      <4>1. \A i \in 1 .. n : i \in 1 .. n + 1
          BY <1>10
      <4>2. \A i \in 1 .. n : i \in DOMAIN g /\ g[i] = Caller(s[i].key)
          BY <1>7, <3>2, <4>1, Zenon
      <4> QED BY <1>13, <3>2, <4>2, ZenonT(60)
    <3>5. g[n + 1] = Caller(r[1].key) /\ Pos(g[n + 1]) = got[1]
      <4>1. n + 1 \in 1 .. n + 1
          BY <1>10
      <4>2. g[n + 1] = Caller(s[n + 1].key)
          BY <1>7, <3>2, <4>1, Zenon
      <4> QED BY <1>13, <3>1, <3>2, <4>2, ZenonT(60)
    <3>6. DOMAIN g = 1 .. n + 1 /\ DOMAIN g \subseteq Nat
        BY <1>7, <1>10, <3>2
    <3> QED BY <2>2, <3>3, <3>4, <3>5, <3>6
  <2> QED BY <1>14, <2>1, <2>2
<1>16. \A i, j \in 1 .. n : i < j => got[i] < got[j]
    BY <1>9 DEF IsPage
<1>17. scan.at \in Nat
    BY <1>0 DEF Typed
<1>18. scan'.at >= scan.at /\ \A i \in 1 .. n : got[i] <= scan'.at
  <2>1. CASE n = 0
      BY <1>9, <1>17, <2>1
  <2>2. CASE n # 0
    <3>1. n \in 1 .. n /\ scan'.at = got[n]
        BY <1>9, <1>10, <2>2
    <3>2. \A i \in 1 .. n : i < n \/ i = n
        BY <1>10
    <3> QED BY <1>11, <1>16, <1>17, <3>1, <3>2
  <2> QED BY <2>1, <2>2
<1>19. \A i \in DOMAIN g : Pos(g[i]) > scan.at /\ Pos(g[i]) <= scan'.at
  <2>1. n > 0 => 1 \in 1 .. n
      BY <1>10
  <2> QED BY <1>11, <1>15, <1>18, <2>1
<1>20. ~ scan'.relisted => \A i, j \in DOMAIN g : i < j => Pos(g[i]) < Pos(g[j])
    BY <1>15, <1>16
<1>21. ASSUME NEW k \in Key, Listable(scan.part, k), Position(Order, k) > scan.at
       PROVE  \/ \E i \in DOMAIN g :
                     g[i] = Caller(k) /\ \A j \in DOMAIN g : j < i => Pos(g[j]) < Pos(Caller(k))
              \/ ~ scan'.ended /\ scan'.at < Position(Order, k)
  <2>1. PICK u \in 1 .. Len(Order) : u = Position(Order, k) /\ Order[u] = k /\ Pos(Caller(k)) = u
    <3>1. Pos(Caller(k)) = Position(Order, k) /\ Order[Position(Order, k)] = k
        BY <1>0, PosTypes
    <3>2. Caller(k) \in Key
        BY CallerTypes
    <3>3. Pos(Caller(k)) \in 1 .. Len(Order)
        BY <1>0, <3>2, PosTypes
    <3> QED BY <3>1, <3>3
  <2>2. u \in Unlisted(scan.part)
      BY <1>0, <1>21, <2>1, OrderTypes DEF Unlisted
  <2>3. CASE \E i \in 1 .. n : got[i] = u
    <3>1. PICK i \in 1 .. n : got[i] = u
        BY <2>3
    <3>2. i \in DOMAIN g /\ g[i] = Caller(k)
        BY <1>13, <1>15, <2>1, <3>1
    <3>3. ASSUME NEW j \in DOMAIN g, j < i PROVE Pos(g[j]) < Pos(Caller(k))
      <4>1. j \in 1 .. n
          BY <1>10, <1>15, <3>3
      <4> QED BY <1>15, <1>16, <2>1, <3>1, <3>3, <4>1
    <3> QED BY <3>2, <3>3
  <2>4. CASE \A i \in 1 .. n : got[i] # u
    <3>1. n = Size /\ got[n] < u
        BY <1>9, <2>2, <2>4 DEF IsPage
    <3>2. ~ scan'.ended
      <4>1. scan'.ended = (n < n)
          BY <1>9, <3>1, Zenon
      <4>2. (n < n) = FALSE
          BY <1>10
      <4> QED BY <4>1, <4>2
    <3>3. n # 0
      <4>1. Len(Order) >= 1
          BY <1>0, <2>1, OrderTypes
      <4>2. scan.spec.orderBy \in BOOLEAN
          BY <1>0, SpecsAssumption DEF Typed
      <4>3. Size >= 1
          BY <4>1, <4>2, ScanAssumption DEF Size
      <4> QED BY <1>10, <3>1, <4>3
    <3> QED BY <1>9, <2>1, <3>1, <3>2, <3>3
  <2> QED BY <2>3, <2>4
<1>22. g = CallersOf(scan'.page)
    BY <1>4, <1>5
<1> QED BY <1>2, <1>3, <1>6, <1>18, <1>19, <1>20, <1>21, <1>22

-----------------------------------------------------------------------------
Cascaded == Confirm \/ Bring \/ Take \/ Flush \/ Yield \/ End

LEMMA CascadeMoves ==
    ASSUME ScanTypes, Grounded, Meant, Cascaded
    PROVE  /\ Same /\ SamePlace /\ SameSource /\ CallersOf(scan.page)' = CallersOf(scan.page)
           /\ Kept' = Kept \/ Drops
<1>1. Same /\ SamePlace /\ SameSource
    BY ConfirmEffect, BringEffect, TakeEffect, FlushEffect, YieldEffect, EndEffect DEF Cascaded
<1>2. CallersOf(scan.page)' = CallersOf(scan.page)
  <2>1. (\A k : Caller(k)' = Caller(k)) /\ scan'.page = scan.page
      BY <1>1, SameOperators DEF SameSource
  <2> QED BY <2>1, Zenon DEF CallersOf
<1>3. Kept' = Kept \/ Drops
    BY FlushMoves, TakeMoves, YieldMoves, BringMoves DEF Cascaded
<1> QED BY <1>1, <1>2, <1>3

\* What a scan holds is thinned by every step but the next page's.
LEMMA FlowThins ==
    ASSUME ScanTypes, Grounded, Meant, NextPart \/ List \/ Cascaded
    PROVE  Same /\ \E D : Thin(Flow', Flow, D)
<1>0. Underway
    BY DEF NextPart, List, Cascaded, Confirm, Bring, Take, Flush, Yield, End, Underway
<1>1. PICK p \in Seq(Key) : p = CallersOf(scan.page)
    BY <1>0, FlowTypes
<1>2. CASE Cascaded
  <2>1. Same /\ CallersOf(scan.page)' = p /\ (Kept' = Kept \/ Drops)
      BY <1>1, <1>2, CascadeMoves
  <2>2. CASE Kept' = Kept
    <3>1. Flow' = Flow
        BY <1>1, <2>1, <2>2 DEF Flow
    <3> QED BY <2>1, <3>1, ThinSame
  <2>3. CASE Drops
    <3>1. PICK a \in Seq(Key), b \in Seq(Key), x \in Key : Kept = a \o (<<x>> \o b) /\ Kept' = a \o b
        BY <2>3 DEF Drops
    <3>2. Flow = (a \o (<<x>> \o b)) \o p /\ Flow' = (a \o b) \o p
      <4>1. Flow = Kept \o p
          BY <1>1, Zenon DEF Flow
      <4>2. Flow' = Kept' \o p
          BY <2>1, Zenon DEF Flow
      <4>3. Flow = (a \o (<<x>> \o b)) \o p
          BY <3>1, <4>1, Zenon
      <4>4. Flow' = (a \o b) \o p
          BY <3>1, <4>2, Zenon
      <4> QED BY <4>3, <4>4, Zenon
    <3>3. PICK q \in Seq(Key) : q = b \o p
        BY KeySeqs, Zenon
    <3>4. (a \o (<<x>> \o b)) \o p = a \o (<<x>> \o (b \o p))
      <4>1. PICK o \in Seq(Key) : o = <<x>>
          BY Singleton
      <4>2. Cat(Cat(a, Cat(o, b)), p) = Cat(a, Cat(o, Cat(b, p)))
          BY CatLaws
      <4> QED BY <4>1, <4>2, Zenon DEF Cat
    <3>5. (a \o b) \o p = a \o (b \o p)
        BY Associates
    <3>6. Flow = a \o (<<x>> \o q) /\ Flow' = a \o q
        BY <3>2, <3>3, <3>4, <3>5, Zenon
    <3>7. Thin(a \o q, a \o (<<x>> \o q), {Len(a) + 1})
        BY ThinDrop
    <3> QED BY <2>1, <3>6, <3>7
  <2> QED BY <2>1, <2>2, <2>3
<1>3. CASE NextPart
  <2>1. Same /\ SameCascade /\ scan'.page = scan.page
      BY <1>3, NextPartEffect
  <2>2. \A k : Caller(k)' = Caller(k)
      BY <2>1, SameOperators
  <2>3. CallersOf(scan.page)' = CallersOf(scan.page)
      BY <2>1, <2>2, Zenon DEF CallersOf
  <2>4. Flow' = Flow
      BY <2>1, <2>3 DEF Flow, Kept, SameCascade
  <2> QED BY <2>1, <2>4, ThinSame
<1>4. CASE List
  <2>1. PICK c \in Key, rest \in Seq(Key), kept \in Seq(Key) :
          /\ kept = Kept /\ Flow = kept \o (<<c>> \o rest)
          /\ Kept' = IF Passing THEN kept \o <<c>> ELSE kept
          /\ Flow' = Kept' \o (IF Cutting THEN <<>> ELSE rest)
      BY <1>4, ListMoves
  <2>2. Same
      BY <1>4, ListEffect
  <2>3. PICK a \in Seq(Key) : a = kept \o <<c>>
    <3>1. <<c>> \in Seq(Key)
        BY Singleton
    <3> QED BY <3>1, KeySeqs, Zenon
  <2>4. (kept \o <<c>>) \o rest = kept \o (<<c>> \o rest)
      BY NextListed
  <2>5. CASE Passing /\ ~ Cutting
    <3>1. Flow' = Flow
        BY <2>1, <2>4, <2>5, Zenon
    <3> QED BY <2>2, <3>1, ThinSame
  <2>6. CASE Passing /\ Cutting
    <3>1. a \o <<>> = a
        BY KeySeqs, Zenon
    <3>2. Flow' = a /\ Flow = a \o rest
        BY <2>1, <2>3, <2>4, <2>6, <3>1, Zenon
    <3>3. Thin(a, a \o rest, (Len(a) + 1) .. (Len(a) + Len(rest)))
        BY ThinCut
    <3> QED BY <2>2, <3>2, <3>3
  <2>7. CASE ~ Passing /\ ~ Cutting
    <3>1. Flow' = kept \o rest
        BY <2>1, <2>7
    <3>2. Thin(kept \o rest, kept \o (<<c>> \o rest), {Len(kept) + 1})
        BY ThinDrop
    <3> QED BY <2>1, <2>2, <3>1, <3>2
  <2>8. CASE ~ Passing /\ Cutting
    <3>1. kept \o <<>> = kept
        BY KeySeqs, Zenon
    <3>2. Flow' = kept
        BY <2>1, <2>8, <3>1, Zenon
    <3>3. PICK q \in Seq(Key) : q = <<c>> \o rest
      <4>1. <<c>> \in Seq(Key)
          BY Singleton
      <4> QED BY <4>1, KeySeqs, Zenon
    <3>4. Thin(kept, kept \o q, (Len(kept) + 1) .. (Len(kept) + Len(q)))
        BY ThinCut
    <3> QED BY <2>1, <2>2, <3>2, <3>3, <3>4
  <2> QED BY <2>5, <2>6, <2>7, <2>8
<1> QED BY <1>2, <1>3, <1>4

LEMMA ThinOrdered ==
    ASSUME ScanTypes, Grounded, Meant, NextPart \/ List \/ Cascaded, store.view # "union", Ordered
    PROVE  Ordered' /\ (After => After')
<1>0. Underway
    BY DEF NextPart, List, Cascaded, Confirm, Bring, Take, Flush, Yield, End, Underway
<1>1. Same /\ \E D : Thin(Flow', Flow, D)
    BY FlowThins
<1>2. PICK t : t = Flow'
    OBVIOUS
<1>3. PICK D : Thin(t, Flow, D)
    BY <1>1, <1>2
<1>4. PICK e \in [DOMAIN t -> DOMAIN Flow] :
             /\ \A i, j \in DOMAIN t : i < j => e[i] < e[j]
             /\ \A i \in DOMAIN t : t[i] = Flow[e[i]]
    BY <1>3, Zenon DEF Thin
<1>5. \A k : Pos(k)' = Pos(k)
    BY <1>1, SameOperators
<1>6. scan'.at = scan.at /\ scan'.relisted = scan.relisted
  <2>1. CASE NextPart
    <3>1. Typed /\ Due = "part" /\ scan.part # Len(Scanned)
        BY <1>0, <2>1, DueFacts, TypedFields DEF NextPart
    <3>2. Len(Scanned) = 1 /\ scan.part <= Len(Scanned) /\ scan.part \in {1, 2}
        BY <1>0, <3>1, ScannedTypes DEF Typed
    <3> QED BY <3>1, <3>2
  <2>2. CASE List
      BY <2>2, ListEffect DEF SamePlace
  <2>3. CASE Cascaded
      BY <2>3, CascadeMoves DEF SamePlace
  <2> QED BY <2>1, <2>2, <2>3
<1>7. store' = store /\ scan'.cursor = scan.cursor
    BY <1>1 DEF Same
<1>8. \A i \in DOMAIN t : Pos(t[i]) <= scan.at
    BY <1>4 DEF Ordered
<1>9. ~ scan.relisted => \A i, j \in DOMAIN t : i < j => Pos(t[i]) < Pos(t[j])
    BY <1>4 DEF Ordered
<1>10. After => \A i \in DOMAIN t : Pos(scan.cursor) < Pos(t[i])
    BY <1>4 DEF After
<1>11. Ordered'
  <2>1. \A i \in DOMAIN Flow' : Pos(Flow[i])' <= scan'.at
      BY <1>2, <1>5, <1>6, <1>8
  <2>2. ~ scan'.relisted => \A i, j \in DOMAIN Flow' : i < j => Pos(Flow[i])' < Pos(Flow[j])'
      BY <1>2, <1>5, <1>6, <1>9
  <2> QED BY <1>7, <2>1, <2>2 DEF Ordered
<1>12. After => After'
    BY <1>2, <1>5, <1>7, <1>10 DEF After
<1> QED BY <1>11, <1>12

LEMMA FetchOrdered ==
    ASSUME ScanTypes, Grounded, Fetch, store.view # "union", Ordered
    PROVE  /\ Ordered'
           /\ After /\ scan.at >= Pos(scan.cursor) /\ scan.cursor \in Key =>
                After' /\ scan'.at >= Pos(scan.cursor)
<1>0. Underway /\ Typed
    BY TypedFields DEF Fetch, Underway
<1>1. /\ Same /\ Flow = Kept /\ Kept' = Kept /\ Kept \in Seq(Key) /\ scan'.at >= scan.at
    BY FetchMoves
<1>2. PICK g \in Seq(Key) :
                /\ Flow' = Kept \o g
                /\ \A i \in DOMAIN g : Pos(g[i]) > scan.at /\ Pos(g[i]) <= scan'.at
                /\ ~ scan'.relisted => \A i, j \in DOMAIN g : i < j => Pos(g[i]) < Pos(g[j])
    BY FetchMoves
<1>3. PICK s \in Seq(Key) : s = Kept
    BY <1>1
<1>4. PICK t \in Seq(Key) : t = s \o g
    BY KeySeqs, Zenon
<1>5. /\ DOMAIN t = 1 .. Len(s) + Len(g) /\ Len(s) \in Nat /\ Len(g) \in Nat
      /\ DOMAIN s = 1 .. Len(s) /\ DOMAIN g = 1 .. Len(g)
      /\ \A i \in 1 .. Len(s) : t[i] = s[i]
      /\ \A i \in 1 .. Len(g) : t[Len(s) + i] = g[i]
      /\ \A i \in 1 .. Len(s) + Len(g) : i \in 1 .. Len(s) \/ i - Len(s) \in 1 .. Len(g)
    BY <1>4, ConcatElements
<1>6. \A i \in DOMAIN t : (i \in DOMAIN s /\ t[i] = s[i])
                          \/ (~ (i <= Len(s)) /\ i - Len(s) \in DOMAIN g /\ t[i] = g[i - Len(s)])
  <2>1. ASSUME NEW i \in DOMAIN t, i \notin DOMAIN s
        PROVE  ~ (i <= Len(s)) /\ i - Len(s) \in DOMAIN g /\ t[i] = g[i - Len(s)]
    <3>1. i - Len(s) \in 1 .. Len(g) /\ Len(s) + (i - Len(s)) = i /\ ~ (i <= Len(s))
        BY <1>5, <2>1
    <3> QED BY <1>5, <3>1
  <2> QED BY <1>5, <2>1
<1>7. /\ \A k \in Key : Pos(k) \in Nat
      /\ \A i \in DOMAIN s : s[i] \in Key
      /\ \A i \in DOMAIN g : g[i] \in Key
      /\ scan.at \in Nat /\ scan'.at \in Nat
  <2>1. \A k \in Key : Pos(k) \in Nat
      BY <1>0, PosTypes
  <2>2. ScanTypes' /\ Underway'
      BY FetchTypes, Fetched DEF Underway
  <2>3. (ScanTypes /\ Underway => Typed)'
      BY TypedFields, PTL
  <2>4. scan.at \in Nat /\ scan'.at \in Nat
      BY <1>0, <2>2, <2>3 DEF Typed
  <2> QED BY <2>1, <2>4
<1>8. \A i \in DOMAIN s : Pos(s[i]) <= scan.at
    BY <1>1, <1>3 DEF Ordered
<1>9. scan.relisted => scan'.relisted
  <2>1. PICK n \in 0 .. Size : \E got \in [1 .. n -> Unlisted(scan.part)] :
            scan'.relisted = scan.relisted \/ scan'.relisted = TRUE
      BY Fetched
  <2> QED BY <2>1
<1>10. ~ scan.relisted => \A i, j \in DOMAIN s : i < j => Pos(s[i]) < Pos(s[j])
    BY <1>1, <1>3 DEF Ordered
<1>11. \A i \in DOMAIN t : Pos(t[i]) <= scan'.at
  <2>1. ASSUME NEW i \in DOMAIN s PROVE Pos(s[i]) <= scan'.at
      BY <1>1, <1>7, <1>8
  <2> QED BY <1>2, <1>6, <2>1
<1>12. ASSUME ~ scan'.relisted, NEW i \in DOMAIN t, NEW j \in DOMAIN t, i < j
       PROVE  Pos(t[i]) < Pos(t[j])
  <2>1. CASE i \in DOMAIN s /\ j \in DOMAIN s
      BY <1>5, <1>9, <1>10, <1>12, <2>1
  <2>2. CASE i \in DOMAIN s /\ j \notin DOMAIN s
    <3>1. PICK m \in DOMAIN g : t[j] = g[m]
        BY <1>6, <2>2
    <3>2. Pos(s[i]) \in Nat /\ Pos(g[m]) \in Nat /\ Pos(s[i]) <= scan.at /\ Pos(g[m]) > scan.at /\ t[i] = s[i]
        BY <1>2, <1>5, <1>7, <1>8, <2>2
    <3> QED BY <1>7, <3>1, <3>2, SMTT(30)
  <2>3. CASE i \notin DOMAIN s
    <3>1. ~ (i <= Len(s)) /\ i - Len(s) \in DOMAIN g /\ t[i] = g[i - Len(s)]
        BY <1>6, <2>3
    <3>2. j \notin DOMAIN s
        BY <1>5, <1>12, <3>1
    <3>3. j - Len(s) \in DOMAIN g /\ t[j] = g[j - Len(s)]
        BY <1>6, <3>2
    <3>4. i - Len(s) < j - Len(s)
        BY <1>5, <1>12
    <3> QED BY <1>2, <1>12, <3>1, <3>3, <3>4
  <2> QED BY <2>1, <2>2, <2>3
<1>13. \A k : Pos(k)' = Pos(k)
    BY <1>1, SameOperators
<1>14. Flow' = t /\ store' = store /\ scan'.cursor = scan.cursor
    BY <1>1, <1>2, <1>3, <1>4, Zenon DEF Same
<1>15. Ordered'
  <2>1. \A i \in DOMAIN Flow' : Pos(Flow[i])' <= scan'.at
      BY <1>11, <1>13, <1>14
  <2>2. ~ scan'.relisted => \A i, j \in DOMAIN Flow' : i < j => Pos(Flow[i])' < Pos(Flow[j])'
      BY <1>12, <1>13, <1>14
  <2> QED BY <1>14, <2>1, <2>2 DEF Ordered
<1>16. ASSUME After, scan.at >= Pos(scan.cursor), scan.cursor \in Key
       PROVE  After' /\ scan'.at >= Pos(scan.cursor)
  <2>1. Pos(scan.cursor) \in Nat /\ scan'.at >= Pos(scan.cursor)
      BY <1>1, <1>7, <1>16
  <2>2. \A i \in DOMAIN s : Pos(scan.cursor) < Pos(s[i])
      BY <1>1, <1>3, <1>16 DEF After
  <2>3. ASSUME NEW i \in DOMAIN g PROVE Pos(scan.cursor) < Pos(g[i])
    <3>1. Pos(g[i]) \in Nat /\ Pos(g[i]) > scan.at
        BY <1>2, <1>7
    <3> QED BY <1>7, <1>16, <2>1, <3>1
  <2>4. \A i \in DOMAIN t : Pos(scan.cursor) < Pos(t[i])
      BY <1>6, <2>2, <2>3
  <2> QED BY <1>13, <1>14, <2>1, <2>4 DEF After
<1> QED BY <1>15, <1>16

-----------------------------------------------------------------------------
LEMMA UnionOrdered ==
    ASSUME ScanTypes, Grounded, Meant, Stepped, store.view = "union", Ordered
    PROVE  Ordered'
<1>0. Underway /\ Typed
    BY TypedFields DEF Stepped, Fetch, NextPart, List, Confirm, Bring, Take, Flush, Yield, End, Underway
<1>1. PICK s \in Seq(Key) : s = Kept
    BY <1>0, FlowTypes
<1>2. /\ \A i \in DOMAIN s : s[i] \in scan.seen
      /\ \A i, j \in DOMAIN s : s[i] = s[j] => i = j
    BY <1>1 DEF Ordered
<1>3. CASE Kept' = Kept /\ scan'.seen = scan.seen /\ store' = store
    BY <1>3 DEF Ordered
<1>4. CASE Fetch \/ NextPart
    BY <1>3, <1>4, FetchEffect, NextPartEffect DEF Same, SameCascade, Kept
<1>5. CASE Cascaded
  <2>1. store' = store /\ scan'.seen = scan.seen /\ (Kept' = Kept \/ Drops)
      BY <1>5, CascadeMoves DEF Same, SameSource
  <2>2. CASE Drops
    <3>1. PICK a \in Seq(Key), b \in Seq(Key), x \in Key : Kept = a \o (<<x>> \o b) /\ Kept' = a \o b
        BY <2>2 DEF Drops
    <3>2. PICK t \in Seq(Key) : t = a \o b
        BY KeySeqs, Zenon
    <3>3. Thin(a \o b, a \o (<<x>> \o b), {Len(a) + 1})
        BY ThinDrop
    <3>4. Thin(t, s, {Len(a) + 1})
        BY <1>1, <3>1, <3>2, <3>3, Zenon
    <3>5. PICK e \in [DOMAIN t -> DOMAIN s] :
             /\ \A i, j \in DOMAIN t : i < j => e[i] < e[j]
             /\ \A i \in DOMAIN t : t[i] = s[e[i]]
        BY <3>4, Zenon DEF Thin
    <3>6. DOMAIN t \subseteq Nat /\ DOMAIN s \subseteq Nat
        BY LenProperties
    <3>7. \A i \in DOMAIN t : t[i] \in scan.seen
        BY <1>2, <3>5
    <3>8. ASSUME NEW i \in DOMAIN t, NEW j \in DOMAIN t, t[i] = t[j] PROVE i = j
      <4>1. e[i] = e[j] /\ e[i] \in Nat
          BY <1>2, <3>5, <3>6, <3>8
      <4>2. ~ (i < j) /\ ~ (j < i)
          BY <3>5, <4>1
      <4> QED BY <3>6, <4>2
    <3>9. Kept' = t
        BY <3>1, <3>2
    <3> QED BY <2>1, <3>7, <3>8, <3>9 DEF Ordered
  <2> QED BY <1>3, <2>1, <2>2
<1>6. CASE List
  <2>1. PICK c \in Key : c = Caller(Head(scan.page).key) /\ Kept' = IF Passing THEN Kept \o <<c>> ELSE Kept
      BY <1>6, ListMoves
  <2>2. c = Head(scan.page).key /\ store' = store
      BY <1>6, <2>1, ListEffect DEF Caller, Same
  <2>3. CASE ~ Passing
    <3>1. scan'.seen = scan.seen
        BY <1>6, <2>3, ListEffect DEF Passing
    <3> QED BY <1>3, <2>1, <2>2, <2>3, <3>1
  <2>4. CASE Passing
    <3>1. scan'.seen = scan.seen \cup {c} /\ c \notin scan.seen
        BY <1>6, <2>2, <2>4, ListEffect DEF Passing
    <3>2. PICK o \in Seq(Key) : o = <<c>> /\ Len(o) = 1 /\ o[1] = c
        BY Singleton
    <3>3. PICK t \in Seq(Key) : t = s \o o
        BY KeySeqs, Zenon
    <3>4. /\ DOMAIN t = 1 .. Len(s) + 1 /\ Len(s) \in Nat /\ DOMAIN s = 1 .. Len(s)
          /\ \A i \in 1 .. Len(s) : t[i] = s[i]
          /\ t[Len(s) + 1] = c
      <4>1. /\ DOMAIN t = 1 .. Len(s) + Len(o) /\ Len(s) \in Nat /\ DOMAIN s = 1 .. Len(s)
            /\ \A i \in 1 .. Len(s) : t[i] = s[i]
            /\ \A i \in 1 .. Len(o) : t[Len(s) + i] = o[i]
          BY <3>3, ConcatElements
      <4> QED BY <3>2, <4>1
    <3>5. \A i \in DOMAIN t : (i \in DOMAIN s /\ t[i] = s[i]) \/ (i = Len(s) + 1 /\ t[i] = c)
        BY <3>4
    <3>6. \A i \in DOMAIN t : t[i] \in scan'.seen
        BY <1>2, <3>1, <3>5
    <3>7. \A i, j \in DOMAIN t : t[i] = t[j] => i = j
        BY <1>2, <3>1, <3>5
    <3>8. Kept' = t
        BY <1>1, <2>1, <2>4, <3>2, <3>3, Zenon
    <3> QED BY <2>2, <3>6, <3>7, <3>8 DEF Ordered
  <2> QED BY <2>3, <2>4
<1> QED BY <1>4, <1>5, <1>6 DEF Stepped, Cascaded

LEMMA SteppedSame == ASSUME ScanTypes, Stepped PROVE Same
BY FetchEffect, NextPartEffect, ListEffect, ConfirmEffect, BringEffect, TakeEffect, FlushEffect,
   YieldEffect, EndEffect DEF Stepped

LEMMA SteppedOrdered ==
    ASSUME ScanTypes, Grounded, Meant, Stepped, Ordered PROVE Ordered'
BY UnionOrdered, ThinOrdered, FetchOrdered DEF Stepped, Cascaded

\* A resumed scan stays after its cursor, which it finds where the leaf lists it.
LEMMA SteppedPaged ==
    ASSUME ScanTypes, Grounded, Meant, Settled, Ordered, Stepped, Paged PROVE Paged'
<1>0. Underway /\ Typed
    BY TypedFields DEF Stepped, Fetch, NextPart, List, Confirm, Bring, Take, Flush, Yield, End, Underway
<1>1. Same /\ CursorViews' = CursorViews /\ (\A k : Pos(k)' = Pos(k))
    BY SteppedSame, SameOperators DEF CursorViews, Same
<1> SUFFICES ASSUME resumes > 0, CursorViews PROVE Paged'
    BY <1>1 DEF Paged, Same
<1>2. /\ \A i \in DOMAIN listed : Pos(listed[i]) <= Pos(scan.cursor)
      /\ \A i, j \in DOMAIN listed : listed[i] = listed[j] => i = j
      /\ scan.started => scan.at >= Pos(scan.cursor) /\ After
    BY DEF Paged
<1>3. scan.cursor \in Key /\ store.view # "union" /\ store.view # "rekeyed" /\ store.leaf # "redis"
    BY DEF Settled, Paging, CursorViews
<1>4. CASE scan.started
  <2>1. CASE Fetch
    <3>1. After' /\ scan'.at >= Pos(scan.cursor)
        BY <1>2, <1>3, <1>4, <2>1, FetchOrdered
    <3> QED BY <1>1, <1>2, <3>1 DEF Paged, Same
  <2>2. CASE NextPart \/ List \/ Cascaded
    <3>1. After'
        BY <1>2, <1>3, <1>4, <2>2, ThinOrdered
    <3>2. scan'.at = scan.at
      <4>1. CASE NextPart
        <5>1. Typed /\ Due = "part" /\ scan.part # Len(Scanned)
            BY <1>0, <4>1, DueFacts DEF NextPart
        <5>2. Len(Scanned) = 1 /\ scan.part <= Len(Scanned) /\ scan.part \in {1, 2}
            BY <1>0, <1>3, <5>1, ScannedTypes DEF Typed
        <5> QED BY <5>1, <5>2
      <4>2. CASE List
          BY <4>2, ListEffect DEF SamePlace
      <4>3. CASE Cascaded
          BY <4>3, CascadeMoves DEF SamePlace
      <4> QED BY <2>2, <4>1, <4>2, <4>3
    <3> QED BY <1>1, <1>2, <1>4, <3>1, <3>2 DEF Paged, Same
  <2> QED BY <2>1, <2>2 DEF Stepped, Cascaded
<1>5. CASE ~ scan.started /\ ~ scan'.started
    BY <1>1, <1>2, <1>5 DEF Paged, Same
<1>6. CASE ~ scan.started /\ scan'.started
  <2>1. List
    <3>1. CASE NextPart
      <4>1. Typed /\ Due = "part" /\ scan.part # Len(Scanned)
          BY <1>0, <3>1, DueFacts DEF NextPart
      <4>2. Len(Scanned) = 1 /\ scan.part <= Len(Scanned) /\ scan.part \in {1, 2}
          BY <1>0, <1>3, <4>1, ScannedTypes DEF Typed
      <4> QED BY <4>1, <4>2
    <3>2. CASE Fetch
        BY <1>6, <3>2, Fetched
    <3>3. CASE Cascaded
        BY <1>6, <3>3, CascadeMoves DEF SameSource
    <3> QED BY <3>1, <3>2, <3>3 DEF Stepped, Cascaded
  <2>2. scan.page # <<>> /\ scan.page \in Seq(Row)
      BY <1>0, <2>1, DueFacts DEF List, Typed
  <2>3. store.leaf = "memory"
      BY <1>6 DEF Settled, Opening, CursorViews
  <2>4. Len(scan.page) = 1 /\ scan.at = Position(Order, scan.page[1].key)
      BY <2>2, <2>3 DEF Settled, OnePage
  <2>5. Head(scan.page).key = scan.cursor /\ scan'.at = scan.at
    <3>1. scan'.started = (Head(scan.page).key = scan.cursor)
        BY <1>6, <2>1, ListEffect
    <3> QED BY <1>6, <2>1, <3>1, ListEffect DEF SamePlace
  <2>6. scan.at = Pos(scan.cursor)
    <3>1. Head(scan.page) = scan.page[1]
        BY <2>2, TailElements
    <3>2. StoredKey(scan.cursor) = scan.cursor
        BY <1>3 DEF StoredKey
    <3> QED BY <2>4, <2>5, <3>1, <3>2 DEF Pos
  <2>7. Flow' = <<>>
    <3>1. Kept = <<>>
      <4>1. ~ Holding
          BY <1>3, <1>6 DEF Settled, Opening
      <4>2. scan.out = <<>> /\ scan.pending = <<>> /\ scan.ready = <<>> /\ scan.batch = <<>>
          BY <4>1 DEF Holding
      <4>3. <<>> \o <<>> = <<>>
          OBVIOUS
      <4> QED BY <4>2, <4>3, NoKeys, Zenon DEF Kept
    <3>2. ~ Passing
        BY <1>6 DEF Passing
    <3>3. PICK rest : rest = CallersOf(Tail(scan.page)) /\ Flow' = Kept' \o (IF Cutting THEN <<>> ELSE rest)
                      /\ Kept' = Kept
        BY <2>1, <3>2, ListMoves
    <3>4. Tail(scan.page) = <<>>
      <4>1. Tail(scan.page) \in Seq(Row) /\ Len(Tail(scan.page)) = 0
          BY <2>2, <2>4, TailSome
      <4> QED BY <4>1, EmptySeq
    <3>5. rest = <<>>
      <4>1. <<>> \in Seq(Row)
          OBVIOUS
      <4> QED BY <3>3, <3>4, <4>1, CallersOfRows
    <3>6. <<>> \o <<>> = <<>>
        OBVIOUS
    <3> QED BY <3>1, <3>3, <3>5, <3>6, Zenon
  <2>8. After'
    <3>1. DOMAIN <<>> = {}
        OBVIOUS
    <3> QED BY <2>7, <3>1 DEF After
  <2>9. scan'.at >= Pos(scan.cursor)
    <3>1. Pos(scan.cursor) \in Nat
        BY <1>0, <1>3, PosTypes
    <3> QED BY <2>5, <2>6, <3>1
  <2> QED BY <1>1, <1>2, <2>8, <2>9 DEF Paged, Same
<1> QED BY <1>4, <1>5, <1>6

\* The elements of two sequences joined.
LEMMA Joined ==
    ASSUME NEW s \in Seq(Key), NEW t \in Seq(Key)
    PROVE  \A i \in DOMAIN (s \o t) : (i \in DOMAIN s /\ (s \o t)[i] = s[i])
                                     \/ (i - Len(s) \in DOMAIN t /\ (s \o t)[i] = t[i - Len(s)])
<1>1. PICK f \in Seq(Key) : f = s \o t
    BY KeySeqs, Zenon
<1>2. /\ DOMAIN f = 1 .. Len(s) + Len(t) /\ Len(s) \in Nat /\ Len(t) \in Nat
      /\ DOMAIN s = 1 .. Len(s) /\ DOMAIN t = 1 .. Len(t)
      /\ \A i \in 1 .. Len(s) : f[i] = s[i]
      /\ \A i \in 1 .. Len(t) : f[Len(s) + i] = t[i]
      /\ \A i \in 1 .. Len(s) + Len(t) : i \in 1 .. Len(s) \/ i - Len(s) \in 1 .. Len(t)
    BY <1>1, ConcatElements
<1>3. ASSUME NEW i \in DOMAIN f, i \notin DOMAIN s PROVE i - Len(s) \in DOMAIN t /\ f[i] = t[i - Len(s)]
  <2>1. i - Len(s) \in 1 .. Len(t) /\ Len(s) + (i - Len(s)) = i
      BY <1>2, <1>3
  <2> QED BY <1>2, <2>1
<1>4. \A i \in DOMAIN f : (i \in DOMAIN s /\ f[i] = s[i])
                         \/ (i - Len(s) \in DOMAIN t /\ f[i] = t[i - Len(s)])
  <2>1. \A i \in DOMAIN s : f[i] = s[i]
      BY <1>2
  <2>2. \A i \in DOMAIN f : i \notin DOMAIN s => i - Len(s) \in DOMAIN t /\ f[i] = t[i - Len(s)]
      BY <1>3
  <2> QED BY <2>1, <2>2
<1> QED BY <1>1, <1>4, Zenon

LEMMA JoinedOnce ==
    ASSUME NEW s \in Seq(Key), NEW t \in Seq(Key),
           \A i, j \in DOMAIN s : s[i] = s[j] => i = j,
           \A i, j \in DOMAIN t : t[i] = t[j] => i = j,
           \A i \in DOMAIN s : \A j \in DOMAIN t : s[i] # t[j]
    PROVE  \A i, j \in DOMAIN (s \o t) : (s \o t)[i] = (s \o t)[j] => i = j
<1>1. PICK f \in Seq(Key) : f = s \o t
    BY KeySeqs, Zenon
<1>2. \A i \in DOMAIN f : (i \in DOMAIN s /\ f[i] = s[i])
                         \/ (i - Len(s) \in DOMAIN t /\ f[i] = t[i - Len(s)])
    BY <1>1, Joined
<1>3. Len(s) \in Nat /\ DOMAIN f \subseteq Nat
    BY LenProperties
<1>4. ASSUME NEW i \in DOMAIN f, NEW j \in DOMAIN f, f[i] = f[j] PROVE i = j
  <2>1. CASE i \in DOMAIN s /\ f[i] = s[i]
      BY <1>2, <1>4, <2>1
  <2>2. CASE i - Len(s) \in DOMAIN t /\ f[i] = t[i - Len(s)]
    <3>1. j - Len(s) \in DOMAIN t /\ f[j] = t[j - Len(s)]
        BY <1>2, <1>4, <2>2
    <3>2. i - Len(s) = j - Len(s)
        BY <1>4, <2>2, <3>1
    <3> QED BY <1>3, <3>2
  <2> QED BY <1>2, <2>1, <2>2
<1> QED BY <1>1, <1>4

LEMMA PrefixElements ==
    ASSUME NEW s \in Seq(Key), NEW t \in Seq(Key)
    PROVE  \A i \in DOMAIN s : i \in DOMAIN (s \o t) /\ (s \o t)[i] = s[i]
<1>1. /\ Len(s) \in Nat /\ Len(t) \in Nat /\ DOMAIN s = 1 .. Len(s)
      /\ DOMAIN (s \o t) = 1 .. Len(s) + Len(t)
      /\ \A i \in 1 .. Len(s) : (s \o t)[i] = s[i]
    BY ConcatElements
<1> QED BY <1>1

\* Where the rows returned, and those that wait, are among the keys held.
LEMMA Embedded ==
    ASSUME ScanTypes, Underway
    PROVE  /\ \A i \in DOMAIN scan.out :
                i \in DOMAIN Kept /\ Kept[i] = scan.out[i].key /\ scan.out[i].key \in Key
           /\ \A i \in DOMAIN scan.pending :
                Len(scan.out) + i \in DOMAIN Kept /\ Kept[Len(scan.out) + i] = scan.pending[i].key
           /\ \A i \in DOMAIN Kept : i \in DOMAIN Flow /\ Flow[i] = Kept[i] /\ Kept[i] \in Key
           /\ Len(scan.out) \in Nat /\ DOMAIN scan.out = 1 .. Len(scan.out)
           /\ DOMAIN scan.pending \subseteq Nat
<1>0. Typed
    BY TypedFields
<1>1. PICK a \in Seq(Key) : a = KeysOf(scan.out) /\ Len(a) = Len(scan.out) /\ DOMAIN a = DOMAIN scan.out
                            /\ \A i \in DOMAIN a : a[i] = scan.out[i].key
    BY <1>0, KeysOfRows DEF Typed
<1>2. PICK b \in Seq(Key) : b = KeysOf(scan.pending) /\ DOMAIN b = DOMAIN scan.pending
                            /\ \A i \in DOMAIN b : b[i] = scan.pending[i].key
    BY <1>0, KeysOfRows DEF Typed
<1>3. PICK c \in Seq(Key) : c = KeysOf(scan.ready)
    BY FlowTypes
<1>4. PICK d \in Seq(Key) : d = KeysOf(scan.batch)
    BY FlowTypes
<1>5. PICK p \in Seq(Key) : p = CallersOf(scan.page)
    BY FlowTypes
<1>6. PICK ab \in Seq(Key) : ab = a \o b
    BY KeySeqs, Zenon
<1>7. PICK abc \in Seq(Key) : abc = ab \o c
    BY KeySeqs, Zenon
<1>8. PICK k \in Seq(Key) : k = abc \o d
    BY KeySeqs, Zenon
<1>9. PICK f \in Seq(Key) : f = k \o p
    BY KeySeqs, Zenon
<1>10. Kept = k /\ Flow = f
    BY <1>1, <1>2, <1>3, <1>4, <1>5, <1>6, <1>7, <1>8, <1>9, Zenon DEF Kept, Flow
<1>11. /\ Len(a) \in Nat /\ Len(b) \in Nat /\ DOMAIN a = 1 .. Len(a) /\ DOMAIN b = 1 .. Len(b)
       /\ DOMAIN ab = 1 .. Len(a) + Len(b)
       /\ \A i \in 1 .. Len(a) : ab[i] = a[i]
       /\ \A i \in 1 .. Len(b) : ab[Len(a) + i] = b[i]
    BY <1>6, ConcatElements
<1>12. \A i \in DOMAIN ab : i \in DOMAIN abc /\ abc[i] = ab[i]
    BY <1>7, PrefixElements
<1>13. \A i \in DOMAIN abc : i \in DOMAIN k /\ k[i] = abc[i]
    BY <1>8, PrefixElements
<1>14. \A i \in DOMAIN k : i \in DOMAIN f /\ f[i] = k[i]
    BY <1>9, PrefixElements
<1>15. \A i \in DOMAIN a : i \in DOMAIN ab /\ ab[i] = a[i]
    BY <1>6, PrefixElements
<1>16. \A i \in DOMAIN b : Len(a) + i \in DOMAIN ab /\ ab[Len(a) + i] = b[i]
    BY <1>11
<1>17. \A i \in DOMAIN scan.out : i \in DOMAIN Kept /\ Kept[i] = scan.out[i].key /\ scan.out[i].key \in Key
    BY <1>1, <1>10, <1>12, <1>13, <1>15, SMTT(30)
<1>18. \A i \in DOMAIN scan.pending :
          Len(scan.out) + i \in DOMAIN Kept /\ Kept[Len(scan.out) + i] = scan.pending[i].key
    BY <1>1, <1>2, <1>10, <1>12, <1>13, <1>16
<1>19. \A i \in DOMAIN Kept : i \in DOMAIN Flow /\ Flow[i] = Kept[i] /\ Kept[i] \in Key
    BY <1>10, <1>14
<1>20. Len(scan.out) \in Nat /\ DOMAIN scan.out = 1 .. Len(scan.out) /\ DOMAIN scan.pending \subseteq Nat
    BY <1>1, <1>2, <1>11
<1> QED BY <1>17, <1>18, <1>19, <1>20

\* Nothing is held twice, unless redis listed it twice.
LEMMA HeldOnce ==
    ASSUME ScanTypes, Underway, Ordered, ~ scan.relisted
    PROVE  \A i, j \in DOMAIN Kept : Kept[i] = Kept[j] => i = j
<1>1. CASE store.view = "union"
    BY <1>1 DEF Ordered
<1>2. CASE store.view # "union"
  <2>1. \A i, j \in DOMAIN Flow : i < j => Pos(Flow[i]) < Pos(Flow[j])
      BY <1>2 DEF Ordered
  <2>2. ASSUME NEW i \in DOMAIN Kept, NEW j \in DOMAIN Kept, Kept[i] = Kept[j] PROVE i = j
    <3>1. /\ i \in DOMAIN Flow /\ j \in DOMAIN Flow /\ Flow[i] = Flow[j] /\ Flow[i] \in Key
        BY <2>2, Embedded
    <3>2. Pos(Flow[i]) \in Nat
        BY <3>1, PosTypes
    <3>3. ~ (i < j) /\ ~ (j < i)
        BY <2>1, <3>1, <3>2
    <3>4. Flow \in Seq(Key)
        BY FlowTypes
    <3>5. i \in Nat /\ j \in Nat
        BY <3>1, <3>4, LenProperties
    <3> QED BY <3>3, <3>5
  <2> QED BY <2>2
<1> QED BY <1>1, <1>2

LEMMA FlushFails ==
    ASSUME ScanTypes, Ordered, Flush, scan'.step = "failed" PROVE scan'.relisted
<1>0. Underway /\ Typed
    BY TypedFields DEF Flush, Underway
<1>1. SamePlace /\ \E i, j \in DOMAIN scan.pending : i # j /\ scan.pending[i].key = scan.pending[j].key
    BY FlushEffect
<1>2. SUFFICES ASSUME ~ scan.relisted PROVE FALSE
    BY <1>1 DEF SamePlace
<1>3. PICK i \in DOMAIN scan.pending, j \in DOMAIN scan.pending :
         i # j /\ scan.pending[i].key = scan.pending[j].key
    BY <1>1
<1>4. Len(scan.out) + i = Len(scan.out) + j
    BY <1>0, <1>2, <1>3, Embedded, HeldOnce
<1>5. Len(scan.out) \in Nat /\ i \in Nat /\ j \in Nat
    BY <1>0, Embedded
<1> QED BY <1>3, <1>4, <1>5

\* A scan begins with nothing held.
LEMMA BegunFlow ==
    ASSUME NEW spec, NEW cursor, scan' = Begun(spec, cursor), store' = store
    PROVE  /\ Kept' = <<>> /\ Flow' = <<>> /\ Ordered' /\ After' /\ Opening' /\ OnePage'
           /\ scan'.spec = spec /\ scan'.cursor = cursor /\ scan'.part = 1
           /\ scan'.at = (IF store.leaf = "sql" /\ cursor # None THEN Position(Listing, cursor) ELSE 0)
           /\ scan'.started = (cursor = None \/ store.leaf \notin {"memory", "redis"})
           /\ scan'.snapshot = {k \in Key : data[1][k] # None}
<1>1. /\ scan'.spec = spec /\ scan'.cursor = cursor /\ scan'.part = 1
      /\ scan'.at = (IF store.leaf = "sql" /\ cursor # None THEN Position(Listing, cursor) ELSE 0)
      /\ scan'.started = (cursor = None \/ store.leaf \notin {"memory", "redis"})
      /\ scan'.snapshot = {k \in Key : data[1][k] # None}
    BY DEF Begun
<1>2. /\ scan'.out = <<>> /\ scan'.pending = <<>> /\ scan'.ready = <<>> /\ scan'.batch = <<>>
      /\ scan'.page = <<>> /\ scan'.seen = {} /\ scan'.relisted = FALSE
    BY DEF Begun
<1>3. <<>> \o <<>> = <<>> /\ DOMAIN <<>> = {}
    OBVIOUS
<1>4. Kept' = <<>>
    BY <1>2, <1>3, NoKeys, Zenon DEF Kept
<1>5. CallersOf(scan.page)' = <<>>
    BY <1>2, <1>3 DEF CallersOf
<1>6. Flow' = <<>>
    BY <1>3, <1>4, <1>5, Zenon DEF Flow
<1>7. Ordered' /\ After'
    BY <1>3, <1>4, <1>6 DEF Ordered, After
<1>8. Opening' /\ OnePage'
    BY <1>1, <1>2 DEF Opening, OnePage, Holding
<1> QED BY <1>1, <1>4, <1>6, <1>7, <1>8

LEMMA ScanRowsOfFlow ==
    ASSUME ScanTypes, NEW spec \in Specs, ScanRowsOf(spec), touched = {}, resumes = 0, listed = <<>>,
           ~ Refuses(spec)
    PROVE  Settled' /\ Ordered' /\ Paged'
<1>1. scan' = Begun(spec, None) /\ UNCHANGED <<data, old, store, listed, touched, writes, resumes>>
    BY DEF ScanRowsOf
<1>2. /\ Ordered' /\ Opening' /\ OnePage' /\ scan'.cursor = None /\ scan'.part = 1
      /\ scan'.started = (None = None \/ store.leaf \notin {"memory", "redis"})
      /\ scan'.snapshot = {k \in Key : data[1][k] # None}
    BY <1>1, BegunFlow
<1>3. Snapped'
    BY <1>1, <1>2 DEF Snapped
<1>4. Paging' /\ Paged'
  <2>1. resumes' = 0 /\ ~ (resumes' > 0) /\ listed' = <<>>
      BY <1>1
  <2>2. scan'.started
      BY <1>2
  <2> QED BY <1>2, <2>1, <2>2 DEF Paging, Paged
<1> QED BY <1>2, <1>3, <1>4 DEF Settled

\* The last row returned is the furthest, and is where the next page starts.
LEMMA ResumeFlow ==
    ASSUME ScanTypes, Grounded, Resume, Settled, Ordered, Paged
    PROVE  Settled' /\ Ordered' /\ Paged'
<1>0. Underway /\ Typed
    BY TypedFields DEF Resume, Underway
<1>1. PICK k \in Key : k = scan.out[Len(scan.out)].key
    BY ResumeTypes
<1>2. /\ scan' = Begun(scan.spec, k) /\ listed' = listed \o KeysOf(scan.out) /\ resumes' = resumes + 1
      /\ UNCHANGED <<data, old, store, touched, writes>>
      /\ ~ scan.spec.delete /\ ~ scan.spec.orderBy /\ scan.out # <<>>
    BY <1>1 DEF Resume
<1>3. /\ Ordered' /\ After' /\ Opening' /\ OnePage'
      /\ scan'.spec = scan.spec /\ scan'.cursor = k /\ scan'.part = 1
      /\ scan'.at = (IF store.leaf = "sql" /\ k # None THEN Position(Listing, k) ELSE 0)
      /\ scan'.started = (k = None \/ store.leaf \notin {"memory", "redis"})
      /\ scan'.snapshot = {j \in Key : data[1][j] # None}
    BY <1>2, BegunFlow
<1>4. Snapped'
    BY <1>2, <1>3 DEF Snapped
<1>5. resumes \in Nat /\ resumes' > 0
    BY <1>2, ScanAssumption DEF ScanTypes
<1>6. Paging'
    BY <1>2, <1>3, <1>5 DEF Paging
<1>7. ASSUME CursorViews PROVE Paged'
  <2>1. store.view # "union" /\ store.view # "rekeyed" /\ store.leaf \in {"sql", "memory"} /\ ~ scan.relisted
      BY <1>7 DEF CursorViews, Settled, Opening
  <2>2. \A j : Pos(j)' = Pos(j)
      BY <1>2, <1>3 DEF Pos, StoredKey, Order
  <2>3. \A j \in Key : Pos(j) = Position(Listing, j) /\ Pos(j) \in Nat
      BY <1>0, <1>2, <2>1, PosTypes DEF Pos, StoredKey, Order
  <2>4. PICK o \in Seq(Key) : /\ o = KeysOf(scan.out) /\ Len(o) = Len(scan.out) /\ DOMAIN o = DOMAIN scan.out
                              /\ \A i \in DOMAIN o : o[i] = scan.out[i].key
      BY <1>0, KeysOfRows DEF Typed
  <2>5. /\ \A i \in DOMAIN o : i \in DOMAIN Flow /\ Flow[i] = o[i]
        /\ Len(o) \in Nat /\ DOMAIN o = 1 .. Len(o)
      BY <1>0, <2>4, Embedded
  <2>6. Len(o) \in DOMAIN o /\ o[Len(o)] = k
    <3>1. Len(o) # 0
        BY <1>0, <1>2, <2>4, EmptySeq DEF Typed
    <3> QED BY <1>1, <2>4, <2>5, <3>1
  <2>7. \A i, j \in DOMAIN o : i < j => Pos(o[i]) < Pos(o[j])
      BY <2>1, <2>5 DEF Ordered
  <2>8. \A i \in DOMAIN o : Pos(o[i]) <= Pos(k)
    <3>1. \A i \in DOMAIN o : i = Len(o) \/ i < Len(o)
        BY <2>5
    <3>2. \A i \in DOMAIN o : Pos(o[i]) \in Nat
        BY <2>3
    <3> QED BY <2>6, <2>7, <3>1, <3>2
  <2>9. \A i, j \in DOMAIN o : o[i] = o[j] => i = j
    <3>1. ASSUME NEW i \in DOMAIN o, NEW j \in DOMAIN o, o[i] = o[j] PROVE i = j
      <4>1. Pos(o[i]) \in Nat /\ ~ (i < j) /\ ~ (j < i)
          BY <2>3, <2>7, <3>1
      <4> QED BY <2>5, <4>1
    <3> QED BY <3>1
  <2>10. /\ \A i \in DOMAIN listed : \A j \in DOMAIN o : Pos(listed[i]) < Pos(o[j])
         /\ \A i, j \in DOMAIN listed : listed[i] = listed[j] => i = j
         /\ listed \in Seq(Key)
    <3>1. listed \in Seq(Key)
        BY DEF ScanTypes
    <3>2. CASE resumes = 0
      <4>1. listed = <<>>
          BY <3>2 DEF Settled, Paging
      <4> QED BY <3>1, <4>1
    <3>3. CASE resumes # 0
      <4>1. resumes > 0 /\ scan.cursor \in Key
          BY <1>5, <3>3 DEF Settled, Paging
      <4>2. scan.started
          BY <1>2, <2>1 DEF Settled, Opening, Holding
      <4>3. /\ \A i \in DOMAIN listed : Pos(listed[i]) <= Pos(scan.cursor)
            /\ \A i, j \in DOMAIN listed : listed[i] = listed[j] => i = j
            /\ After
          BY <1>7, <4>1, <4>2 DEF Paged
      <4>4. \A j \in DOMAIN o : Pos(scan.cursor) < Pos(o[j])
          BY <2>5, <4>3 DEF After
      <4>5. /\ Pos(scan.cursor) \in Nat /\ \A i \in DOMAIN listed : Pos(listed[i]) \in Nat
            /\ \A j \in DOMAIN o : Pos(o[j]) \in Nat
          BY <2>3, <3>1, <4>1
      <4> QED BY <3>1, <4>3, <4>4, <4>5
    <3> QED BY <3>2, <3>3
  <2>11. PICK t \in Seq(Key) : t = listed \o o
      BY <2>10, KeySeqs, Zenon
  <2>12. \A i \in DOMAIN t : (i \in DOMAIN listed /\ t[i] = listed[i])
                             \/ (i - Len(listed) \in DOMAIN o /\ t[i] = o[i - Len(listed)])
      BY <2>10, <2>11, Joined
  <2>13. \A i \in DOMAIN t : Pos(t[i]) <= Pos(k)
    <3>1. ASSUME NEW i \in DOMAIN listed PROVE Pos(listed[i]) <= Pos(k)
      <4>1. Pos(listed[i]) < Pos(k)
          BY <2>6, <2>10
      <4>2. Pos(listed[i]) \in Nat /\ Pos(k) \in Nat
          BY <2>3, <2>10
      <4> QED BY <4>1, <4>2
    <3> QED BY <2>8, <2>12, <3>1
  <2>14. \A i, j \in DOMAIN t : t[i] = t[j] => i = j
    <3>1. \A i \in DOMAIN listed : \A j \in DOMAIN o : listed[i] # o[j]
      <4>1. ASSUME NEW i \in DOMAIN listed, NEW j \in DOMAIN o, listed[i] = o[j] PROVE FALSE
        <5>1. Pos(o[j]) \in Nat /\ Pos(listed[i]) < Pos(o[j])
            BY <2>3, <2>10
        <5> QED BY <4>1, <5>1
      <4> QED BY <4>1
    <3> QED BY <2>9, <2>10, <2>11, <3>1, JoinedOnce
  <2>15. scan'.started => scan'.at >= Pos(k)
    <3>1. k # None
        BY PredicatesAssumption
    <3>2. Pos(k) = Position(Listing, k) /\ Pos(k) \in Nat
        BY <2>3
    <3>3. CASE store.leaf = "sql"
      <4>1. scan'.at = Pos(k)
          BY <1>3, <3>1, <3>2, <3>3
      <4> QED BY <3>2, <4>1
    <3>4. CASE store.leaf = "memory"
        BY <1>3, <3>1, <3>4
    <3> QED BY <2>1, <3>3, <3>4
  <2>16. listed' = t
      BY <1>2, <2>4, <2>11, Zenon
  <2> QED BY <1>3, <2>2, <2>13, <2>14, <2>15, <2>16 DEF Paged
<1>8. CursorViews' = CursorViews
    BY <1>2 DEF CursorViews
<1>9. ~ CursorViews => Paged'
    BY <1>8 DEF Paged
<1> QED BY <1>3, <1>4, <1>6, <1>7, <1>9 DEF Settled

LEMMA WriteFlow ==
    ASSUME ScanTypes, NEW p \in Parts, NEW j \in Key, NEW v \in Value \cup {None}, Write(p, j, v),
           Meant, Settled, Ordered, Paged
    PROVE  Meant' /\ Settled' /\ Ordered' /\ Paged'
<1>0. Underway /\ Typed
    BY TypedFields DEF Write, Underway
<1>1. UNCHANGED <<store, scan, listed, resumes>>
    BY DEF Write
<1>2. /\ Order' = Order /\ ReadsValues' = ReadsValues /\ Batched' = Batched
      /\ \A k : Caller(k)' = Caller(k) /\ Pos(k)' = Pos(k)
    BY WriteSame
<1>3. Meant'
    BY <1>1, <1>2 DEF Meant
<1>4. Kept' = Kept
    BY <1>1 DEF Kept
<1>5. CallersOf(scan.page)' = CallersOf(scan.page)
    BY <1>1, <1>2, Zenon DEF CallersOf
<1>6. Flow' = Flow
    BY <1>4, <1>5, Zenon DEF Flow
<1>7. Ordered' /\ Paged'
  <2>1. After' = After /\ CursorViews' = CursorViews
      BY <1>1, <1>2, <1>6 DEF After, CursorViews
  <2>2. Ordered'
      BY <1>1, <1>2, <1>4, <1>6 DEF Ordered
  <2>3. Paged'
      BY <1>1, <1>2, <2>1 DEF Paged
  <2> QED BY <2>2, <2>3
<1>8. Opening' /\ OnePage' /\ Paging'
    BY <1>1, <1>2 DEF Settled, Opening, OnePage, Paging, Holding
<1>9. Snapped'
  <2> SUFFICES ASSUME NEW k \in Key, Caller(k) \in Steady'
               PROVE  data'[scan.part][k] # None <=> k \in scan.snapshot
      BY <1>1, <1>2 DEF Snapped
  <2>1. Caller(k) \in Steady /\ \A q \in {1, 2} : data'[q][k] = data[q][k]
      BY WriteSpares
  <2> QED BY <1>0, <2>1 DEF Settled, Snapped, Typed
<1> QED BY <1>3, <1>7, <1>8, <1>9 DEF Settled

LEMMA NextFlowInv ==
    ASSUME ScanTypes, Grounded, FlowInv, [ScanNext]_scanVars PROVE FlowInv'
<1>1. ASSUME NEW spec \in Specs, ScanRowsOf(spec) PROVE FlowInv'
  <2>1. CASE Refuses(spec)
    <3>1. scan' = [Begun(spec, None) EXCEPT !.step = "refused"]
        BY <1>1, <2>1 DEF ScanRowsOf
    <3>2. scan'.step = "refused"
        BY <3>1 DEF Begun
    <3> QED BY <3>2 DEF FlowInv, Active
  <2>2. CASE ~ Refuses(spec)
    <3>1. scan' = Begun(spec, None) /\ store' = store /\ scan.step = "idle"
        BY <1>1, <2>2 DEF ScanRowsOf
    <3>2. spec.orderBy => store.leaf = "sql" /\ store.view # "union"
        BY <2>2 DEF Refuses
    <3>3. Meant' /\ scan'.step = "listing"
        BY <3>1, <3>2, BegunRows DEF Begun
    <3>4. Settled' /\ Ordered' /\ Paged'
        BY <1>1, <2>2, <3>1, ScanRowsOfFlow DEF FlowInv
    <3> QED BY <3>3, <3>4 DEF FlowInv
  <2> QED BY <2>1, <2>2
<1>2. CASE Stepped
  <2>1. Meant /\ Settled /\ Ordered /\ Paged
      BY <1>2 DEF Stepped, Fetch, NextPart, List, Confirm, Bring, Take, Flush, Yield, End, FlowInv, Active
  <2>2. Meant' /\ Ordered' /\ Paged'
      BY <1>2, <2>1, SteppedMeant, SteppedOrdered, SteppedPaged
  <2>3. Settled'
      BY <1>2, <2>1, SteppedOpening, SteppedOnePage, SteppedSnapped, SteppedPaging DEF Settled
  <2>4. scan'.step \in {"listing", "done", "failed"}
      BY <1>2, FetchEffect, NextPartEffect, ListEffect, ConfirmEffect, BringEffect, TakeEffect, FlushEffect,
         YieldEffect, EndEffect DEF Stepped
  <2>5. scan'.step = "failed" => Flush
      BY <1>2, FetchEffect, NextPartEffect, ListEffect, ConfirmEffect, BringEffect, TakeEffect,
         YieldEffect, EndEffect DEF Stepped
  <2>6. scan'.step = "failed" => scan'.relisted
      BY <2>1, <2>5, FlushFails
  <2> QED BY <2>2, <2>3, <2>4, <2>6 DEF FlowInv
<1>3. CASE Resume
  <2>1. /\ scan' = Begun(scan.spec, scan.out[Len(scan.out)].key) /\ store' = store /\ ~ scan.spec.orderBy
        /\ scan.step = "done"
      BY <1>3 DEF Resume
  <2>2. Meant' /\ scan'.step = "listing"
      BY <2>1, BegunRows DEF Begun
  <2>3. Settled' /\ Ordered' /\ Paged'
      BY <1>3, <2>1, ResumeFlow DEF FlowInv, Active
  <2> QED BY <2>2, <2>3 DEF FlowInv
<1>4. CASE DeleteWhere
    BY <1>4, DeleteWhereTypes DEF FlowInv, Active
<1>5. ASSUME NEW p \in Parts, NEW k \in Key, NEW v \in Value \cup {None}, Write(p, k, v)
      PROVE  FlowInv'
  <2>1. Active /\ UNCHANGED scan
      BY <1>5 DEF Write, Active
  <2>2. Meant' /\ Settled' /\ Ordered' /\ Paged'
      BY <1>5, <2>1, WriteFlow DEF FlowInv
  <2> QED BY <2>1, <2>2 DEF FlowInv, Active
<1>6. CASE UNCHANGED scanVars
  <2>1. Same /\ UNCHANGED scan
      BY <1>6 DEF scanVars, Same
  <2>2. /\ Order' = Order /\ Steady' = Steady /\ ReadsValues' = ReadsValues /\ Batched' = Batched
        /\ \A k : Caller(k)' = Caller(k) /\ Pos(k)' = Pos(k)
      BY <2>1, SameOperators
  <2>3. Kept' = Kept
      BY <2>1 DEF Kept
  <2>4. CallersOf(scan.page)' = CallersOf(scan.page)
      BY <2>1, <2>2, Zenon DEF CallersOf
  <2>5. Flow' = Flow
      BY <2>3, <2>4, Zenon DEF Flow
  <2>6. Meant' = Meant
      BY <2>1, <2>2 DEF Meant, Same
  <2>7. Opening' = Opening /\ OnePage' = OnePage /\ Paging' = Paging
      BY <2>1, <2>2 DEF Opening, OnePage, Paging, Holding, Same
  <2>8. Snapped' = Snapped
      BY <2>1, <2>2 DEF Snapped, Same
  <2>9. Ordered' = Ordered
      BY <2>1, <2>2, <2>3, <2>5 DEF Ordered, Same
  <2>10. After' = After /\ CursorViews' = CursorViews
      BY <2>1, <2>2, <2>5 DEF After, CursorViews, Same
  <2>11. Paged' = Paged
      BY <2>1, <2>2, <2>10 DEF Paged, Same
  <2>12. Settled' = Settled
      BY <2>7, <2>8 DEF Settled
  <2>13. Active' = Active /\ listed' = listed /\ touched' = touched /\ resumes' = resumes
      BY <2>1 DEF Active, Same
  <2> QED BY <2>1, <2>6, <2>9, <2>11, <2>12, <2>13 DEF FlowInv
<1> QED BY <1>1, <1>2, <1>3, <1>4, <1>5, <1>6 DEF ScanNext, Stepped

LEMMA HeldListsOnce == ASSUME ScanTypes, FlowInv PROVE ListsOnce
<1>1. FailsOnlyOnRelisting
    BY DEF FlowInv, FailsOnlyOnRelisting
<1>2. ReturnsOnce
  <2> SUFFICES ASSUME scan.step = "done", CursorHolds, ~ scan.relisted
               PROVE  \A i, j \in DOMAIN AllListed : AllListed[i] = AllListed[j] => i = j
      BY DEF ReturnsOnce
  <2>0. Underway /\ Typed /\ Settled /\ Ordered /\ Paged /\ listed \in Seq(Key) /\ resumes \in Nat
      BY TypedFields, ScanAssumption DEF Underway, FlowInv, Active, ScanTypes
  <2>1. PICK o \in Seq(Key) : /\ o = KeysOf(scan.out) /\ DOMAIN o = DOMAIN scan.out
                              /\ \A i \in DOMAIN o : o[i] = scan.out[i].key
      BY <2>0, KeysOfRows DEF Typed
  <2>2. \A i \in DOMAIN o : i \in DOMAIN Kept /\ Kept[i] = o[i] /\ i \in DOMAIN Flow /\ Flow[i] = o[i]
      BY <2>0, <2>1, Embedded
  <2>3. \A i, j \in DOMAIN o : o[i] = o[j] => i = j
      BY <2>0, <2>2, HeldOnce
  <2>4. /\ \A i, j \in DOMAIN listed : listed[i] = listed[j] => i = j
        /\ \A i \in DOMAIN listed : \A j \in DOMAIN o : listed[i] # o[j]
    <3>1. CASE resumes = 0
      <4>1. listed = <<>>
          BY <2>0, <3>1 DEF Settled, Paging
      <4> QED BY <4>1
    <3>2. CASE resumes # 0
      <4>1. resumes > 0 /\ CursorViews /\ scan.cursor \in Key
          BY <2>0, <3>2 DEF CursorHolds, CursorViews, Settled, Paging
      <4>2. /\ \A i \in DOMAIN listed : Pos(listed[i]) <= Pos(scan.cursor)
            /\ \A i, j \in DOMAIN listed : listed[i] = listed[j] => i = j
            /\ scan.started => After
          BY <2>0, <4>1 DEF Paged
      <4>3. ASSUME NEW i \in DOMAIN listed, NEW j \in DOMAIN o, listed[i] = o[j] PROVE FALSE
        <5>1. scan.out # <<>>
            BY <2>1, <4>3
        <5>2. scan.started
            BY <2>0, <4>1, <5>1 DEF Settled, Opening, Holding, CursorViews
        <5>3. Pos(scan.cursor) < Pos(o[j])
            BY <2>2, <4>2, <4>3, <5>2 DEF After
        <5>4. Pos(o[j]) \in Nat /\ Pos(scan.cursor) \in Nat
            BY <2>0, <4>1, PosTypes, SMTT(30)
        <5>5. Pos(o[j]) <= Pos(scan.cursor)
            BY <4>2, <4>3
        <5> QED BY <5>3, <5>4, <5>5
      <4> QED BY <4>2, <4>3
    <3> QED BY <3>1, <3>2
  <2>5. \A i, j \in DOMAIN (listed \o o) : (listed \o o)[i] = (listed \o o)[j] => i = j
      BY <2>0, <2>3, <2>4, JoinedOnce
  <2>6. AllListed = listed \o o
      BY <2>1, Zenon DEF AllListed
  <2> QED BY <2>5, <2>6, Zenon
<1> QED BY <1>1, <1>2 DEF ListsOnce

\* A scan's rows are well typed, each returned once over all its pages and none
\* lost to an error, but where redis itself listed a key twice (apply_cascade).
THEOREM ScanListsOnce == ScanSpec => []ListsOnce
<1>1. ScanInit => FlowInv
    BY DEF ScanInit, Idle, FlowInv, Active
<1>2. ScanTypes /\ Grounded /\ FlowInv /\ [ScanNext]_scanVars => FlowInv'
    BY NextFlowInv
<1>3. ScanTypes /\ FlowInv => ListsOnce
    BY HeldListsOnce
<1> QED BY <1>1, <1>2, <1>3, ScanTyped, PTL DEF ScanSpec

-----------------------------------------------------------------------------
(***************************************************************************)
(* A limit that was pushed to the leaf or the view's source counts what    *)
(* reaches the caller, where nothing is filtered afterwards.               *)
(***************************************************************************)

\* A limit goes down only where nothing is left to filter, but for the keyset scan's.
LEMMA PlanLimits ==
    ASSUME ScanTypes, Underway
    PROVE  /\ store.view # "leaf" /\ scan.plan.innerLimit # NoLimit =>
                Unfiltered /\ scan.plan.innerLimit = scan.spec.limit
           /\ scan.plan.limit # NoLimit /\ ~ LimitUnderFilter =>
                /\ Unfiltered /\ scan.plan.inner = AlwaysTrue /\ store.leaf = "sql"
                /\ scan.plan.limit = scan.spec.limit
<1> DEFINE down == Down(scan.spec)
           peeled == PeelKeyPrefix(down.where)
<1>1. /\ scan.plan.inner = peeled.residual /\ scan.plan.innerLimit = down.limit
      /\ scan.plan.residual = (IF store.view = "leaf" THEN peeled.residual ELSE down.residual)
      /\ scan.plan.limit = (IF store.leaf # "sql" THEN NoLimit
                            ELSE IF scan.spec.orderBy THEN OrderedLimit(down) ELSE down.limit)
    BY PlanFields
<1>2. store.view \in Views
    BY StoreTypes
<1>3. /\ store.view = "leaf" => down.limit = scan.spec.limit /\ down.refine = scan.spec.refine
      /\ store.view = "rekeyed" =>
           /\ down.residual = scan.spec.where
           /\ down.limit = (IF scan.spec.where = AlwaysTrue /\ ~ scan.spec.refine
                            THEN scan.spec.limit ELSE NoLimit)
      /\ store.view = "mapped" =>
           down.limit = (IF down.residual = AlwaysTrue /\ ~ scan.spec.refine
                         THEN scan.spec.limit ELSE NoLimit)
      /\ store.view \in {"through", "commit", "union"} => down.limit = NoLimit
    BY DownFields
<1>4. OrderedLimit(down) = IF peeled.residual = AlwaysTrue /\ ~ down.refine THEN down.limit ELSE NoLimit
    BY DEF OrderedLimit
<1> HIDE DEF down, peeled
<1>5. ASSUME store.view # "leaf", down.limit # NoLimit
      PROVE  Unfiltered /\ down.limit = scan.spec.limit
    BY <1>1, <1>2, <1>3, <1>5 DEF Unfiltered, Views
<1>6. ASSUME scan.plan.limit # NoLimit, ~ LimitUnderFilter
      PROVE  /\ Unfiltered /\ scan.plan.inner = AlwaysTrue /\ store.leaf = "sql"
             /\ scan.plan.limit = scan.spec.limit
  <2>1. store.leaf = "sql" /\ scan.plan.limit = down.limit /\ down.limit # NoLimit
      BY <1>1, <1>4, <1>6
  <2>2. scan.plan.inner = AlwaysTrue
      BY <1>1, <1>4, <1>6, <2>1 DEF LimitUnderFilter
  <2>3. CASE store.view # "leaf"
      BY <1>5, <2>1, <2>2, <2>3
  <2>4. CASE store.view = "leaf"
    <3>1. scan.plan.residual = AlwaysTrue /\ down.limit = scan.spec.limit
        BY <1>1, <1>3, <2>2, <2>4
    <3>2. ~ scan.spec.refine
        BY <1>1, <1>3, <1>4, <1>6, <2>1, <2>4 DEF LimitUnderFilter
    <3> QED BY <2>1, <2>2, <2>4, <3>1, <3>2 DEF Unfiltered
  <2> QED BY <2>3, <2>4
<1> QED BY <1>1, <1>5, <1>6

\* Where nothing is filtered, nothing waits and every row goes through.
LEMMA GoesThrough ==
    ASSUME Filtering, ScanTypes, Underway, Meant, Unfiltered
    PROVE  /\ ~ ReadsValues /\ ~ Batched /\ scan.pending = <<>> /\ scan.batch = <<>>
           /\ \A row \in Row :
                /\ AllPass(PartitionByNeeds(scan.plan.residual).key, row)
                /\ AllPass(PartitionByNeeds(scan.plan.residual).stat, row)
                /\ Accepted(row)
<1>1. scan.plan.residual = AlwaysTrue /\ Recursions /\ ~ scan.spec.refine
    BY DEF Unfiltered, Filtering
<1>2. ~ ReadsValues
    BY <1>1, NeedsPlain, CascadeAsks
<1>3. ~ Batched
    BY DEF Unfiltered, Batched
<1>4. ASSUME NEW row \in Row
      PROVE  /\ AllPass(PartitionByNeeds(scan.plan.residual).key, row)
             /\ AllPass(PartitionByNeeds(scan.plan.residual).stat, row)
             /\ Accepted(row)
  <2>1. Evaluate(scan.plan.residual, row) = TRUE
      BY <1>1, EvaluatePlain
  <2>2. /\ AllPass(PartitionByNeeds(scan.plan.residual).key, row)
        /\ AllPass(PartitionByNeeds(scan.plan.residual).stat, row)
        /\ AllPass(PartitionByNeeds(scan.plan.residual).value, row)
      BY <2>1, CascadeAsks
  <2> QED BY <1>1, <2>2 DEF Accepted
<1> QED BY <1>2, <1>3, <1>4 DEF Meant

LEMMA UnfilteredSame == ASSUME Same PROVE Unfiltered' = Unfiltered /\ LimitUnderFilter' = LimitUnderFilter
BY DEF Same, Unfiltered, LimitUnderFilter

\* The cascade loses nothing where nothing is filtered.
LEMMA CascadeReaching ==
    ASSUME Filtering, ScanTypes, Grounded, Meant, Unfiltered, Cascaded PROVE Reaching' = Reaching
<1>0. Underway /\ Typed
    BY TypedFields DEF Cascaded, Confirm, Bring, Take, Flush, Yield, End, Underway
<1>1. scan.pending = <<>> /\ scan.batch = <<>> /\ ~ ReadsValues
    BY <1>0, GoesThrough
<1>2. Take \/ End
  <2>1. ~ scan.filled /\ ~ scan.confirmed
      BY <1>0, <1>1 DEF Grounded
  <2> QED BY <1>0, <1>1, <2>1, DueFacts DEF Cascaded, Confirm, Bring, Flush, Yield
<1>3. CASE End
    BY <1>3, EndEffect DEF Reaching, SameCascade
<1>4. CASE Take
  <2>1. scan.ready \in Seq(Row) /\ scan.ready # <<>> /\ Len(scan.ready) <= 1
      BY <1>0, <1>4, DueFacts DEF Take, Typed, Meant
  <2>2. PICK row \in Row : row = Head(scan.ready) /\ scan.ready = <<row>>
      BY <2>1, OneRow
  <2>3. Len(scan.ready) = 1
      BY <2>2
  <2>4. CASE scan'.ready = scan.ready /\ scan'.out = scan.out
      BY <2>4 DEF Reaching
  <2>5. CASE scan'.ready = <<>> /\ scan'.out = Append(scan.out, ProjectRow(row, scan.spec.project))
    <3>1. Len(scan'.out) = Len(scan.out) + 1 /\ Len(scan.out) \in Nat
      <4>1. PICK s \in Seq(Row) : s = scan.out
          BY <1>0 DEF Typed
      <4>2. PICK r : r = ProjectRow(row, scan.spec.project)
          OBVIOUS
      <4>3. r \in Row
          BY <1>0, <4>2, ProjectRowTypes DEF Typed
      <4> QED BY <2>5, <4>1, <4>2, <4>3, AppendProperties, LenProperties
    <3>2. Len(scan'.ready) = 0
        BY <2>5
    <3> QED BY <2>3, <3>1, <3>2 DEF Reaching
  <2>6. /\ AllPass(PartitionByNeeds(scan.plan.residual).key, row)
        /\ AllPass(PartitionByNeeds(scan.plan.residual).stat, row)
        /\ Accepted(row)
      BY <1>0, GoesThrough
  <2> QED BY <1>1, <1>4, <2>2, <2>4, <2>5, <2>6, TakeEffect
<1> QED BY <1>2, <1>3, <1>4

\* A row the leaf gives where nothing is filtered goes on to the caller.
LEMMA ListReaching ==
    ASSUME Filtering, ScanTypes, Grounded, Meant, Opening, Unfiltered, List
    PROVE  /\ ~ Passing => Reaching' = Reaching /\ scan'.passed = scan.passed
           /\ Passing => Reaching' = Reaching + 1 /\ scan'.given = scan.given + 1
           /\ Passing /\ store.view # "leaf" => scan'.passed = scan.passed + 1
           /\ ~ Passing /\ scan.started /\ scan.plan.inner = AlwaysTrue =>
                /\ scan'.given = scan.given /\ store.view # "leaf"
                /\ Reached(scan.passed, scan.plan.innerLimit)
           /\ Reaching \in Nat
<1>0. Underway /\ Typed /\ scan.ready = <<>> /\ scan.page # <<>>
    BY TypedFields, DueFacts DEF List, Underway
<1>1. PICK row \in Row : row = Head(scan.page)
    BY <1>0, TailElements DEF Typed
<1>2. ~ Batched
    BY <1>0, GoesThrough
<1>3. Len(scan.out) \in Nat /\ Len(scan.ready) = 0 /\ scan'.out = scan.out
    BY <1>0, ListEffect, LenProperties DEF Typed
<1>4. Reaching = Len(scan.out) /\ Reaching \in Nat
    BY <1>3 DEF Reaching
<1>5. CASE ~ Passing
  <2>1. scan'.ready = scan.ready /\ scan'.passed = scan.passed
      BY <1>5, ListEffect DEF Passing
  <2>2. ASSUME scan.started, scan.plan.inner = AlwaysTrue
        PROVE  /\ scan'.given = scan.given /\ store.view # "leaf"
               /\ Reached(scan.passed, scan.plan.innerLimit)
    <3>1. Evaluate(AlwaysTrue, row) = TRUE
        BY EvaluatePlain DEF Filtering
    <3>2. scan.seen = {}
        BY DEF Opening, Unfiltered
    <3>3. Evaluate(scan.plan.inner, Head(scan.page)) /\ Head(scan.page).key \notin scan.seen
        BY <1>1, <2>2, <3>1, <3>2
    <3> QED BY <1>5, <2>2, <3>3, ListEffect DEF Passing
  <2> QED BY <1>3, <1>4, <1>5, <2>1, <2>2 DEF Reaching
<1>6. CASE Passing
  <2>1. /\ scan'.ready = <<row>> \/ scan'.ready = <<ViewRow(row)>>
        /\ scan'.given = scan.given + 1
        /\ store.view # "leaf" => scan'.passed = scan.passed + 1
      BY <1>1, <1>2, <1>6, ListEffect DEF Passing, Rest
  <2>2. Len(scan'.ready) = 1
      BY <2>1
  <2>3. Reaching' = Len(scan.out) + 1
      BY <1>3, <2>2 DEF Reaching
  <2> QED BY <1>4, <1>6, <2>1, <2>3
<1> QED BY <1>5, <1>6

LEMMA SteppedCounted ==
    ASSUME Filtering, ScanTypes, Grounded, Meant, Opening, Counted, Stepped PROVE Counted'
<1>0. Underway /\ Typed
    BY TypedFields DEF Stepped, Fetch, NextPart, List, Confirm, Bring, Take, Flush, Yield, End, Underway
<1>1. Same
    BY SteppedSame
<1> SUFFICES ASSUME Unfiltered PROVE Counted'
    BY <1>1, UnfilteredSame DEF Counted
<1>2. ASSUME Reaching' = Reaching, scan'.passed = scan.passed, scan'.given = scan.given PROVE Counted'
    BY <1>1, <1>2 DEF Counted, Same
<1>3. CASE Fetch \/ NextPart
  <2>1. SameCascade /\ scan'.passed = scan.passed /\ scan'.given = scan.given
      BY <1>3, FetchEffect, NextPartEffect
  <2>2. Reaching' = Reaching
      BY <2>1 DEF Reaching, SameCascade
  <2> QED BY <1>2, <2>1, <2>2
<1>4. CASE Cascaded
  <2>1. scan'.passed = scan.passed /\ scan'.given = scan.given
      BY <1>4, CascadeMoves DEF SameSource
  <2> QED BY <1>2, <1>4, <2>1, CascadeReaching
<1>5. CASE List
  <2>1. store.leaf = "sql" => scan.started
      BY DEF Opening
  <2>2. store.view = "leaf" => scan.plan.inner = AlwaysTrue
      BY <1>0, PlanFields DEF Unfiltered
  <2>3. Unfiltered' = Unfiltered /\ store' = store /\ scan'.plan = scan.plan
      BY <1>1, UnfilteredSame DEF Same
  <2>4. store.view # "leaf" => Reaching' = scan'.passed
      BY <1>5, ListReaching DEF Counted
  <2>5. ASSUME store.leaf = "sql", store.view = "leaf" \/ scan.plan.inner = AlwaysTrue
        PROVE  Reaching' = scan'.given
    <3>1. scan.started /\ scan.plan.inner = AlwaysTrue /\ Reaching = scan.given
        BY <2>1, <2>2, <2>5 DEF Counted
    <3> QED BY <1>5, <3>1, ListReaching
  <2> QED BY <2>3, <2>4, <2>5 DEF Counted
<1> QED BY <1>3, <1>4, <1>5 DEF Stepped, Cascaded

LEMMA CuttingStops ==
    ASSUME Filtering, ScanTypes, Grounded, Meant, Opening, Counted, List, Cutting, ~ LimitUnderFilter
    PROVE  scan.started /\ Stopped'
<1>0. Underway /\ Typed
    BY TypedFields DEF List, Underway
<1>1. Same /\ scan'.page = <<>> /\ scan'.ended
    BY ListEffect DEF Cutting, Rest
<1>2. /\ scan.spec.limit \in Nat \/ scan.spec.limit = NoLimit
      /\ NoLimit \notin Nat /\ scan.given \in Nat /\ scan.passed \in Nat
    BY <1>0, SpecsAssumption, ScanAssumption DEF Typed
<1>3. ASSUME Unfiltered, Reached(Reaching', scan.spec.limit) PROVE Stopped'
  <2>1. Unfiltered' /\ scan'.spec = scan.spec
      BY <1>1, <1>3, UnfilteredSame DEF Same
  <2> QED BY <1>1, <1>3, <2>1 DEF Stopped, Reached
<1>4. CASE scan.started /\ store.view # "leaf" /\ Reached(scan.passed, scan.plan.innerLimit)
  <2>1. Unfiltered /\ scan.plan.innerLimit = scan.spec.limit
      BY <1>0, <1>4, PlanLimits DEF Reached
  <2>2. ~ Passing
      BY <1>4 DEF Passing
  <2>3. Reaching' = scan.passed
      BY <1>4, <2>1, <2>2, ListReaching DEF Counted
  <2>4. Reached(Reaching', scan.spec.limit)
      BY <1>4, <2>1, <2>3
  <2> QED BY <1>3, <1>4, <2>1, <2>4
<1>5. CASE /\ Reached(scan.given + 1, scan.plan.limit)
           /\ ~ (scan.started /\ store.view # "leaf" /\ Reached(scan.passed, scan.plan.innerLimit))
  <2>1. /\ Unfiltered /\ scan.plan.inner = AlwaysTrue /\ store.leaf = "sql"
        /\ scan.plan.limit = scan.spec.limit
      BY <1>0, <1>5, PlanLimits DEF Reached
  <2>2. scan.started
      BY <2>1 DEF Opening
  <2>3. Passing
      BY <1>5, <2>1, <2>2, ListReaching
  <2>4. Reaching' = scan.given + 1
      BY <2>1, <2>3, ListReaching DEF Counted
  <2>5. Reached(Reaching', scan.spec.limit)
      BY <1>5, <2>1, <2>4
  <2> QED BY <1>3, <2>1, <2>2, <2>5
<1> QED BY <1>4, <1>5 DEF Cutting

-----------------------------------------------------------------------------
(***************************************************************************)
(* Where a match that nobody wrote is: on an earlier page; among the keys  *)
(* the scan holds, after nothing that comes later; or still to be listed,  *)
(* or past a limit that what was listed reaches, after all the scan holds. *)
(***************************************************************************)

\* What is known of a record that matches.
LEMMA MatchFacts ==
    ASSUME Filtering, ScanTypes, Underway, NEW k \in Key, Matches(k)
    PROVE  /\ PartOf(k) \in {1, 2} /\ (store.view # "union" => PartOf(k) = 1)
           /\ data[PartOf(k)][StoredKey(k)] # None
           /\ scan.plan.prefix => StoredKey(k) \in Under
           /\ store.view # "leaf" => Evaluate(scan.plan.inner, Bare(StoredKey(k)))
           /\ Present(k) /\ StoredKey(k) \in Key
<1>1. store.view \in Views /\ StoredKey(k) \in Key
    BY StoreTypes, CallerTypes
<1>2. store.view # "union" => data[1][StoredKey(k)] # None
  <2>1. CASE store.view = "leaf"
      BY <2>1 DEF Matches, Holds, BatchGet, StoredKey
  <2>2. CASE store.view = "mapped"
      BY <2>2 DEF Matches, Holds, BatchGet, StoredKey
  <2>3. CASE store.view = "rekeyed"
      BY <2>3 DEF Matches, Holds, BatchGet, StoredKey
  <2>4. CASE store.view \in {"through", "commit"}
      BY <2>4 DEF Matches, Holds, BatchGet, StoredKey
  <2> QED BY <1>1, <2>1, <2>2, <2>3, <2>4 DEF Views
<1>3. store.view = "union" => StoredKey(k) = k /\ (data[1][k] # None \/ data[2][k] # None)
    BY DEF Matches, Holds, BatchGet, StoredKey
<1>4. /\ PartOf(k) \in {1, 2} /\ (store.view # "union" => PartOf(k) = 1)
      /\ data[PartOf(k)][StoredKey(k)] # None
    BY <1>2, <1>3 DEF PartOf
<1>5. Present(k)
    BY <1>2, <1>3 DEF Present
<1>6. /\ scan.plan.prefix => StoredKey(k) \in Under
      /\ store.view # "leaf" => Evaluate(scan.plan.inner, Bare(StoredKey(k)))
  <2> DEFINE full == [key |-> k, value |-> BatchGet(data, k), stat |-> StatOf(k)]
  <2>1. BatchGet(data, k) \in Value \cup {None} /\ StatOf(k) \in Stat
      BY BatchGetTypes DEF StatOf, Stat
  <2>2. full \in Row /\ full.key = k
      BY <2>1, RowFields
  <2>3. Evaluate(scan.spec.where, full)
      BY DEF Matches, StatOf
  <2> HIDE DEF full
  <2> QED BY <2>2, <2>3, Sifts
<1> QED BY <1>1, <1>4, <1>5, <1>6

\* Keys left out do not move another out of its place.
LEMMA ThinLeads ==
    ASSUME NEW k, NEW t, NEW s, NEW D, Thin(t, s, D),
           \A m \in DOMAIN s : m \in D /\ s[m] = k => \E j \in DOMAIN s : j < m /\ ~ Ahead(s[j], k)
    PROVE  (Leading(s, k) => Leading(t, k)) /\ (AllAhead(s, k) => AllAhead(t, k))
<1>1. PICK e \in [DOMAIN t -> DOMAIN s] :
        /\ \A i, j \in DOMAIN t : i < j => e[i] < e[j]
        /\ \A i \in DOMAIN t : t[i] = s[e[i]]
        /\ \A m \in DOMAIN s : m \in D \/ \E i \in DOMAIN t : e[i] = m
    BY DEF Thin
<1>2. ASSUME Leading(s, k) PROVE Leading(t, k)
  <2>1. PICK m \in DOMAIN s : s[m] = k /\ \A j \in DOMAIN s : j < m => Ahead(s[j], k)
      BY <1>2 DEF Leading
  <2>2. PICK i \in DOMAIN t : e[i] = m
      BY <1>1, <2>1
  <2>3. t[i] = k /\ \A j \in DOMAIN t : j < i => Ahead(t[j], k)
      BY <1>1, <2>1, <2>2
  <2> QED BY <2>3 DEF Leading
<1>3. ASSUME AllAhead(s, k) PROVE AllAhead(t, k)
    BY <1>1, <1>3 DEF AllAhead
<1> QED BY <1>2, <1>3

LEMMA NotAhead ==
    ASSUME ScanTypes, Underway, NEW k \in Steady PROVE ~ Ahead(k, k)
<1>1. Pos(k) \in Nat /\ PartOf(k) \in {1, 2}
    BY PosTypes DEF Steady, PartOf
<1>2. ~ Before(k, k)
  <2>1. Rank(k)[1] = PartOf(k) /\ Rank(k)[2] = Pos(k)
      BY DEF Rank, PartOf, Pos
  <2> QED BY <1>1, <2>1 DEF Before
<1> QED BY <1>1, <1>2 DEF Ahead

LEMMA BeforeRank ==
    ASSUME NEW j, NEW k
    PROVE  Before(j, k) = (PartOf(j) < PartOf(k) \/ (PartOf(j) = PartOf(k) /\ Pos(j) < Pos(k)))
BY DEF Before, Rank, PartOf, Pos

\* A step of the scan leaves the places as they are.
LEMMA SamePlaces ==
    ASSUME Same
    PROVE  /\ \A y, k : Ahead(y, k)' = Ahead(y, k)
           /\ \A k : Listed(k)' = Listed(k)
<1>1. ASSUME NEW y, NEW k PROVE Ahead(y, k)' = Ahead(y, k)
  <2>1. /\ Pos(y)' = Pos(y) /\ Pos(k)' = Pos(k) /\ PartOf(y)' = PartOf(y) /\ PartOf(k)' = PartOf(k)
        /\ Steady' = Steady
      BY SameOperators
  <2>2. Before(y, k)' = (PartOf(y)' < PartOf(k)' \/ (PartOf(y)' = PartOf(k)' /\ Pos(y)' < Pos(k)'))
      BY DEF Before, Rank, PartOf, Pos
  <2>3. Before(y, k)' = Before(y, k)
      BY <2>1, <2>2, BeforeRank
  <2>4. store' = store
      BY DEF Same
  <2> QED BY <2>1, <2>3, <2>4 DEF Ahead
<1>2. \A k : Listed(k)' = Listed(k)
    BY DEF Listed, Same
<1> QED BY <1>1, <1>2

LEMMA SameLeads ==
    ASSUME Same, NEW k
    PROVE  /\ Leading(Flow', k) => Leading(Flow, k)'
           /\ AllAhead(Flow', k) => AllAhead(Flow, k)'
           /\ Listed(k) => Listed(k)'
<1>1. PICK t : t = Flow'
    OBVIOUS
<1>2. \A y : Ahead(y, k)' = Ahead(y, k)
    BY SamePlaces
<1>3. ASSUME Leading(t, k) PROVE Leading(Flow, k)'
  <2>1. PICK i \in DOMAIN t : t[i] = k /\ \A j \in DOMAIN t : j < i => Ahead(t[j], k)
      BY <1>3 DEF Leading
  <2>2. \A j \in DOMAIN t : j < i => Ahead(Flow[j], k)'
      BY <1>1, <1>2, <2>1
  <2> QED BY <1>1, <2>1, <2>2 DEF Leading
<1>4. ASSUME AllAhead(t, k) PROVE AllAhead(Flow, k)'
  <2>1. \A j \in DOMAIN t : Ahead(Flow[j], k)'
      BY <1>1, <1>2, <1>4 DEF AllAhead
  <2> QED BY <1>1, <2>1 DEF AllAhead
<1> QED BY <1>1, <1>3, <1>4, SamePlaces

\* The cascade drops nothing that matches.
LEMMA CascadeAccounted ==
    ASSUME Filtering, ScanTypes, Grounded, Meant, RowsTrue, Cascaded, AllAccounted PROVE AllAccounted'
<1>0. Underway /\ Typed
    BY TypedFields DEF Cascaded, Confirm, Bring, Take, Flush, Yield, End, Underway
<1>1. /\ Same /\ SamePlace /\ SameSource /\ CallersOf(scan.page)' = CallersOf(scan.page)
      /\ Kept' = Kept \/ Drops
    BY CascadeMoves
<1>2. /\ Steady' = Steady /\ (\A k : Matches(k)' = Matches(k) /\ Pos(k)' = Pos(k) /\ PartOf(k)' = PartOf(k))
      /\ Unfiltered' = Unfiltered /\ LimitUnderFilter' = LimitUnderFilter
      /\ CursorOk' = CursorOk
  <2>1. /\ Steady' = Steady /\ (\A k : Matches(k)' = Matches(k) /\ Pos(k)' = Pos(k) /\ PartOf(k)' = PartOf(k))
        /\ Unfiltered' = Unfiltered /\ LimitUnderFilter' = LimitUnderFilter
      BY <1>1, SameOperators, UnfilteredSame
  <2> QED BY <1>1, <2>1 DEF CursorOk, CursorViews, Same, SameSource
<1> SUFFICES ASSUME CursorOk, ~ LimitUnderFilter, NEW k \in Steady, Matches(k)
             PROVE  Accounted(k)' /\ (k \in scan'.seen => \E i \in DOMAIN Kept' : Kept'[i] = k)
    BY <1>2 DEF AllAccounted
<1>3. Accounted(k) /\ (k \in scan.seen => \E i \in DOMAIN Kept : Kept[i] = k)
    BY DEF AllAccounted
<1>4. (Unreached(k) => Unreached(k)') /\ (Stopped => Stopped')
  <2>1. Unreached(k) => Unreached(k)'
      BY <1>1, <1>2 DEF Unreached, SamePlace, SameSource
  <2>2. Unfiltered => Reaching' = Reaching
      BY CascadeReaching
  <2>3. ASSUME Stopped PROVE Stopped'
    <3>1. Unfiltered /\ scan.ended /\ scan.page = <<>> /\ Reached(Reaching, scan.spec.limit)
        BY <2>3 DEF Stopped
    <3>2. scan'.ended /\ scan'.page = <<>> /\ scan'.spec = scan.spec
        BY <1>1, <3>1 DEF SameSource, Same
    <3>3. Reached(Reaching', scan'.spec.limit)
        BY <2>2, <3>1, <3>2
    <3> QED BY <1>2, <3>1, <3>2, <3>3 DEF Stopped, Reached
  <2> QED BY <2>1, <2>3
<1>5. PICK p \in Seq(Key) : p = CallersOf(scan.page) /\ Flow = Kept \o p /\ Flow' = Kept' \o p
  <2>1. PICK p \in Seq(Key) : p = CallersOf(scan.page)
      BY <1>0, FlowTypes
  <2> QED BY <1>1, <2>1, Zenon DEF Flow
<1>6. /\ \E D : Thin(Flow', Flow, D) /\ \A m \in DOMAIN Flow : m \in D => Flow[m] # k
      /\ (\E i \in DOMAIN Kept : Kept[i] = k) => (\E i \in DOMAIN Kept' : Kept'[i] = k)
  <2>1. CASE Kept' = Kept
    <3>1. Flow' = Flow
        BY <1>5, <2>1
    <3> QED BY <2>1, <3>1, ThinSame
  <2>2. CASE Drops
    <3>1. PICK a \in Seq(Key), b \in Seq(Key), x \in Key :
             Kept = a \o (<<x>> \o b) /\ Kept' = a \o b /\ (x \in Steady => ~ Matches(x))
        BY <2>2 DEF Drops
    <3>2. x # k
        BY <3>1
    <3>3. PICK q \in Seq(Key) : q = b \o p
        BY KeySeqs, Zenon
    <3>4. (a \o (<<x>> \o b)) \o p = a \o (<<x>> \o (b \o p))
      <4>1. PICK o \in Seq(Key) : o = <<x>>
          BY Singleton
      <4>2. Cat(Cat(a, Cat(o, b)), p) = Cat(a, Cat(o, Cat(b, p)))
          BY CatLaws
      <4> QED BY <4>1, <4>2, Zenon DEF Cat
    <3>5. (a \o b) \o p = a \o (b \o p)
        BY Associates
    <3>6. Flow = a \o (<<x>> \o q) /\ Flow' = a \o q
        BY <1>5, <3>1, <3>3, <3>4, <3>5, Zenon
    <3>7. Thin(a \o q, a \o (<<x>> \o q), {Len(a) + 1}) /\ (a \o (<<x>> \o q))[Len(a) + 1] = x
        BY ThinDrop
    <3>8. Thin(Flow', Flow, {Len(a) + 1}) /\ Flow[Len(a) + 1] = x
        BY <3>6, <3>7, Zenon
    <3>9. Thin(a \o b, a \o (<<x>> \o b), {Len(a) + 1}) /\ (a \o (<<x>> \o b))[Len(a) + 1] = x
        BY ThinDrop
    <3>10. Thin(Kept', Kept, {Len(a) + 1}) /\ Kept[Len(a) + 1] = x
        BY <3>1, <3>9, Zenon
    <3>11. ASSUME NEW i \in DOMAIN Kept, Kept[i] = k PROVE \E j \in DOMAIN Kept' : Kept'[j] = k
      <4>1. i \notin {Len(a) + 1}
          BY <3>2, <3>10, <3>11
      <4>2. PICK t : t = Kept'
          OBVIOUS
      <4>3. Thin(t, Kept, {Len(a) + 1})
          BY <3>10, <4>2
      <4>4. PICK j \in DOMAIN t : t[j] = Kept[i]
          BY <3>11, <4>1, <4>3, ZenonT(60) DEF Thin
      <4> QED BY <3>11, <4>2, <4>4
    <3>12. \A m \in DOMAIN Flow : m \in {Len(a) + 1} => Flow[m] # k
        BY <3>2, <3>8
    <3> QED BY <3>8, <3>11, <3>12
  <2> QED BY <1>1, <2>1, <2>2
<1>7. (Leading(Flow, k) => Leading(Flow', k)) /\ (AllAhead(Flow, k) => AllAhead(Flow', k))
  <2>1. PICK t : t = Flow'
      OBVIOUS
  <2>2. PICK D : Thin(t, Flow, D) /\ \A m \in DOMAIN Flow : m \in D => Flow[m] # k
      BY <1>6, <2>1
  <2>3. (Leading(Flow, k) => Leading(t, k)) /\ (AllAhead(Flow, k) => AllAhead(t, k))
      BY <2>2, ThinLeads
  <2> QED BY <2>1, <2>3
<1>8. Accounted(k)'
    BY <1>1, <1>3, <1>4, <1>7, SameLeads DEF Accounted
<1>9. scan'.seen = scan.seen
    BY <1>1 DEF SameSource
<1> QED BY <1>3, <1>6, <1>8, <1>9

LEMMA NextPartAccounted ==
    ASSUME Filtering, ScanTypes, Grounded, Settled, NextPart, AllAccounted PROVE AllAccounted'
<1>0. Underway /\ Typed
    BY TypedFields DEF NextPart, Underway
<1>1. /\ Same /\ SameCascade /\ scan'.page = scan.page /\ scan'.seen = scan.seen
      /\ scan'.part = scan.part + 1 /\ scan'.ended = FALSE
      /\ scan'.at = Begun(scan.spec, scan.cursor).at
    BY NextPartEffect
<1>2. scan.ended /\ scan.part # Len(Scanned)
    BY <1>0, DueFacts DEF NextPart
<1>3. store.view = "union" /\ scan.part = 1
  <2>1. scan.part \in {1, 2} /\ scan.part <= Len(Scanned) /\ Len(Scanned) = IF store.view = "union" THEN 2 ELSE 1
      BY <1>0, ScannedTypes DEF Typed
  <2> QED BY <1>2, <2>1
<1>4. /\ Steady' = Steady /\ (\A k : Matches(k)' = Matches(k) /\ Pos(k)' = Pos(k) /\ PartOf(k)' = PartOf(k))
      /\ LimitUnderFilter' = LimitUnderFilter
    BY <1>1, SameOperators, UnfilteredSame
<1>5. Kept' = Kept
    BY <1>1 DEF Kept, SameCascade
<1>6. Flow' = Flow
  <2>1. \A k : Caller(k)' = Caller(k)
      BY <1>1, SameOperators
  <2>2. CallersOf(scan.page)' = CallersOf(scan.page)
      BY <1>1, <2>1, Zenon DEF CallersOf
  <2> QED BY <1>5, <2>2 DEF Flow
<1> SUFFICES ASSUME CursorOk', ~ LimitUnderFilter, NEW k \in Steady, Matches(k)
             PROVE  Accounted(k)' /\ (k \in scan'.seen => \E i \in DOMAIN Kept' : Kept'[i] = k)
    BY <1>4 DEF AllAccounted
<1>7. resumes = 0 /\ CursorOk
  <2>1. resumes' = resumes /\ ~ CursorViews'
      BY <1>1, <1>3 DEF Same, CursorViews
  <2>2. resumes \in Nat
      BY ScanAssumption DEF ScanTypes
  <2>3. ~ (resumes > 0)
      BY <2>1 DEF CursorOk
  <2>4. resumes = 0
      BY <2>2, <2>3
  <2> QED BY <2>3, <2>4 DEF CursorOk
<1>8. scan'.at = 0
  <2>1. scan.cursor = None
      BY <1>7 DEF Settled, Paging
  <2>2. PICK c : c = scan.cursor
      OBVIOUS
  <2>3. Begun(scan.spec, c).at = (IF store.leaf = "sql" /\ c # None THEN Position(Listing, c) ELSE 0)
      BY DEF Begun
  <2> QED BY <1>1, <2>1, <2>2, <2>3
<1>9. Accounted(k) /\ (k \in scan.seen => \E i \in DOMAIN Kept : Kept[i] = k)
    BY <1>7 DEF AllAccounted
<1>10. PartOf(k) \in {1, 2} /\ Pos(k) \in Nat /\ Pos(k) \in 1 .. Len(Order) /\ Len(Order) \in Nat
    BY <1>0, MatchFacts, PosTypes DEF Steady
<1>11. ~ Stopped
    BY <1>3 DEF Stopped, Unfiltered
<1>12. ASSUME Unreached(k) PROVE Unreached(k)'
  <2>1. PartOf(k) = 2
      BY <1>2, <1>3, <1>10, <1>12 DEF Unreached
  <2>2. scan'.part = PartOf(k)' /\ ~ scan'.ended /\ scan'.at < Pos(k)'
      BY <1>1, <1>3, <1>4, <1>8, <1>10, <2>1
  <2> QED BY <2>2 DEF Unreached
<1>13. Accounted(k)'
    BY <1>1, <1>6, <1>9, <1>11, <1>12, SameLeads DEF Accounted
<1> QED BY <1>1, <1>5, <1>9, <1>13

\* A key's place in a sequence and in a longer one.
LEMMA PrefixLeads ==
    ASSUME NEW k, NEW s \in Seq(Key), NEW b \in Seq(Key)
    PROVE  /\ Leading(s \o b, k) => Leading(s, k) \/ AllAhead(s, k)
           /\ AllAhead(s \o b, k) => AllAhead(s, k)
           /\ Leading(s, k) => Leading(s \o b, k)
<1>1. PICK f \in Seq(Key) : f = s \o b
    BY KeySeqs, Zenon
<1>2. /\ DOMAIN f = 1 .. Len(s) + Len(b) /\ Len(s) \in Nat /\ Len(b) \in Nat
      /\ DOMAIN s = 1 .. Len(s) /\ \A i \in 1 .. Len(s) : f[i] = s[i]
    BY <1>1, ConcatElements
<1>3. \A i \in DOMAIN s : i \in DOMAIN f /\ f[i] = s[i]
    BY <1>2
<1>4. ASSUME Leading(f, k) PROVE Leading(s, k) \/ AllAhead(s, k)
  <2>1. PICK i \in DOMAIN f : f[i] = k /\ \A j \in DOMAIN f : j < i => Ahead(f[j], k)
      BY <1>4 DEF Leading
  <2>2. CASE i \in DOMAIN s
    <3>1. s[i] = k /\ \A j \in DOMAIN s : j < i => Ahead(s[j], k)
        BY <1>3, <2>1, <2>2
    <3> QED BY <2>2, <3>1 DEF Leading
  <2>3. CASE i \notin DOMAIN s
    <3>1. \A j \in DOMAIN s : j < i
        BY <1>2, <2>3
    <3>2. \A j \in DOMAIN s : Ahead(s[j], k)
        BY <1>3, <2>1, <3>1
    <3> QED BY <3>2 DEF AllAhead
  <2> QED BY <2>2, <2>3
<1>5. ASSUME AllAhead(f, k) PROVE AllAhead(s, k)
    BY <1>3, <1>5 DEF AllAhead
<1>6. ASSUME Leading(s, k) PROVE Leading(f, k)
  <2>1. PICK i \in DOMAIN s : s[i] = k /\ \A j \in DOMAIN s : j < i => Ahead(s[j], k)
      BY <1>6 DEF Leading
  <2>2. \A j \in DOMAIN f : j < i => j \in DOMAIN s
      BY <1>2
  <2>3. i \in DOMAIN f /\ f[i] = k /\ \A j \in DOMAIN f : j < i => Ahead(f[j], k)
      BY <1>3, <2>1, <2>2
  <2> QED BY <2>3 DEF Leading
<1> QED BY <1>1, <1>4, <1>5, <1>6

\* A row that the view's source filters out, or that was listed before, is of no
\* match that is not had already.
LEMMA NotPassing ==
    ASSUME Filtering, ScanTypes, Meant, Opening, List, scan.started, ~ Passing, ~ Cutting,
           NEW k \in Steady, Matches(k), Caller(Head(scan.page).key) = k,
           k \in scan.seen => \E i \in DOMAIN Kept : Kept[i] = k
    PROVE  \E i \in DOMAIN Kept : Kept[i] = k
<1>0. Underway /\ Typed /\ scan.page # <<>> /\ k \in Key
    BY TypedFields, DueFacts DEF List, Underway, Steady
<1>1. PICK row \in Row : row = Head(scan.page) /\ row.key \in Key
    BY <1>0, TailElements, RowFields DEF Typed
<1>2. StoredKey(k) = row.key
    BY <1>1, CallerTypes
<1>3. store.view # "leaf" /\ (~ Evaluate(scan.plan.inner, row) \/ row.key \in scan.seen)
    BY <1>1 DEF Passing, Cutting
<1>4. Evaluate(scan.plan.inner, row)
  <2>1. scan.plan.inner \in Predicate /\ Needs(scan.plan.inner) \subseteq {"key"} /\ Recursions
      BY <1>0, <1>3, Sifts DEF Filtering
  <2>2. Bare(row.key) \in Row /\ SameTo(scan.plan.inner, row, Bare(row.key))
      BY <1>1, <2>1, RowFields DEF Bare, SameTo, Row, Stat
  <2>3. Evaluate(scan.plan.inner, row) = Evaluate(scan.plan.inner, Bare(row.key))
      BY <2>1, <2>2, EveryPredicateLooks DEF LooksOnlyAt
  <2>4. Evaluate(scan.plan.inner, Bare(StoredKey(k)))
      BY <1>0, <1>3, MatchFacts
  <2> QED BY <1>2, <2>3, <2>4
<1>5. row.key \in scan.seen /\ row.key = k
    BY <1>2, <1>3, <1>4 DEF Opening, StoredKey
<1> QED BY <1>5

LEMMA ListAccounted ==
    ASSUME Filtering, ScanTypes, Grounded, Meant, Settled, Counted, List, scan.started, AllAccounted
    PROVE  AllAccounted'
<1>0. Underway /\ Typed /\ scan.page # <<>>
    BY TypedFields, DueFacts DEF List, Underway
<1>1. Same /\ SamePlace /\ scan'.started /\ Opening
    BY ListEffect DEF Settled
<1>2. /\ Steady' = Steady /\ (\A k : Matches(k)' = Matches(k) /\ Pos(k)' = Pos(k) /\ PartOf(k)' = PartOf(k))
      /\ LimitUnderFilter' = LimitUnderFilter
    BY <1>1, SameOperators, UnfilteredSame
<1>3. CursorOk' => CursorOk
    BY <1>1 DEF CursorOk, CursorViews, Same
<1> SUFFICES ASSUME CursorOk, ~ LimitUnderFilter, NEW k \in Steady, Matches(k)
             PROVE  Accounted(k)' /\ (k \in scan'.seen => \E i \in DOMAIN Kept' : Kept'[i] = k)
    BY <1>2, <1>3 DEF AllAccounted
<1>4. Accounted(k) /\ (k \in scan.seen => \E i \in DOMAIN Kept : Kept[i] = k)
    BY DEF AllAccounted
<1>5. PICK c \in Key, rest \in Seq(Key), had \in Seq(Key) :
          /\ had = Kept /\ Flow = had \o (<<c>> \o rest) /\ c = Caller(Head(scan.page).key)
          /\ Kept' = IF Passing THEN had \o <<c>> ELSE had
          /\ Flow' = Kept' \o (IF Cutting THEN <<>> ELSE rest)
    BY ListMoves
<1>6. PICK a \in Seq(Key) : a = had \o <<c>>
  <2>1. <<c>> \in Seq(Key)
      BY Singleton
  <2> QED BY <2>1, KeySeqs, Zenon
<1>7. (had \o <<c>>) \o rest = had \o (<<c>> \o rest)
    BY NextListed
<1>8. ASSUME Leading(Flow, k) => Leading(Flow', k), AllAhead(Flow, k) => AllAhead(Flow', k), ~ Cutting
      PROVE  Accounted(k)'
  <2>1. scan'.ended = scan.ended
    <3>1. scan.ended \in BOOLEAN
        BY <1>0 DEF Typed
    <3>2. scan'.ended = (scan.ended \/ FALSE)
        BY <1>8, ListEffect DEF Cutting, Rest
    <3> QED BY <3>1, <3>2
  <2>2. Unreached(k) => Unreached(k)'
      BY <1>1, <1>2, <2>1 DEF Unreached, SamePlace
  <2>3. ~ Stopped
      BY <1>0 DEF Stopped
  <2> QED BY <1>1, <1>4, <1>8, <2>2, <2>3, SameLeads DEF Accounted
<1>9. ASSUME NEW b \in Seq(Key), Flow = Flow' \o b, Flow' \in Seq(Key), Cutting PROVE Accounted(k)'
  <2>1. PICK t \in Seq(Key) : t = Flow' /\ Flow = t \o b
      BY <1>9
  <2>2. (Leading(Flow, k) => Leading(t, k) \/ AllAhead(t, k)) /\ (AllAhead(Flow, k) => AllAhead(t, k))
      BY <2>1, PrefixLeads
  <2>3. Stopped'
      BY <1>1, <1>9, CuttingStops
  <2> QED BY <1>1, <1>4, <2>1, <2>2, <2>3, SameLeads DEF Accounted
<1>10. CASE Passing
  <2>1. Kept' = a
      BY <1>5, <1>6, <1>10, Zenon
  <2>2. k \in scan'.seen => \E i \in DOMAIN Kept' : Kept'[i] = k
    <3>1. \/ scan'.seen = scan.seen
          \/ scan'.seen = scan.seen \cup {Head(scan.page).key} /\ store.view \in {"commit", "union"}
        BY <1>10, ListEffect DEF Passing
    <3>2. k \in scan'.seen => k \in scan.seen \/ k = c
        BY <1>5, <3>1 DEF Caller
    <3>3. PICK o \in Seq(Key) : o = <<c>> /\ Len(o) = 1 /\ o[1] = c
        BY Singleton
    <3>4. a = had \o o
        BY <1>6, <3>3
    <3>5. /\ Len(had) \in Nat /\ DOMAIN had = 1 .. Len(had) /\ DOMAIN a = 1 .. Len(had) + Len(o)
          /\ \A i \in 1 .. Len(had) : a[i] = had[i]
          /\ \A i \in 1 .. Len(o) : a[Len(had) + i] = o[i]
        BY <3>4, ConcatElements
    <3>6. Len(had) + 1 \in DOMAIN a /\ a[Len(had) + 1] = c
        BY <3>3, <3>5
    <3>7. \A i \in DOMAIN had : i \in DOMAIN a /\ a[i] = had[i]
        BY <3>3, <3>5
    <3> QED BY <1>4, <1>5, <2>1, <3>2, <3>6, <3>7
  <2>3. CASE ~ Cutting
    <3>1. Flow' = Flow
        BY <1>5, <1>7, <1>10, <2>3, Zenon
    <3> QED BY <1>8, <2>2, <2>3, <3>1
  <2>4. CASE Cutting
    <3>1. a \o <<>> = a
        BY KeySeqs, Zenon
    <3>2. Flow' = a
        BY <1>5, <2>1, <2>4, <3>1, Zenon
    <3>3. Flow = a \o rest
        BY <1>5, <1>6, <1>7, Zenon
    <3>4. Flow = Flow' \o rest
        BY <3>2, <3>3, Zenon
    <3>5. Flow' \in Seq(Key)
        BY <3>2
    <3> QED BY <1>9, <2>2, <2>4, <3>4, <3>5
  <2> QED BY <2>3, <2>4
<1>11. CASE ~ Passing
  <2>1. Kept' = Kept /\ scan'.seen = scan.seen
    <3>1. scan'.seen = scan.seen
        BY <1>11, ListEffect DEF Passing
    <3> QED BY <1>5, <1>11, <3>1
  <2>2. CASE ~ Cutting
    <3>1. Flow' = had \o rest
        BY <1>5, <1>11, <2>2
    <3>2. PICK s \in Seq(Key) : s = had \o (<<c>> \o rest)
      <4>1. Flow \in Seq(Key)
          BY <1>0, FlowTypes
      <4> QED BY <1>5, <4>1, Zenon
    <3>3. PICK t \in Seq(Key) : t = had \o rest
        BY KeySeqs, Zenon
    <3>4. Thin(had \o rest, had \o (<<c>> \o rest), {Len(had) + 1})
          /\ (had \o (<<c>> \o rest))[Len(had) + 1] = c
        BY ThinDrop
    <3>5. Thin(t, s, {Len(had) + 1}) /\ s[Len(had) + 1] = c
        BY <3>2, <3>3, <3>4, Zenon
    <3>6. ASSUME NEW m \in DOMAIN s, m \in {Len(had) + 1}, s[m] = k
          PROVE  \E j \in DOMAIN s : j < m /\ ~ Ahead(s[j], k)
      <4>1. c = k
          BY <3>5, <3>6
      <4>2. PICK i \in DOMAIN had : had[i] = k
          BY <1>1, <1>4, <1>5, <1>11, <2>2, <4>1, NotPassing
      <4>3. i < m
        <5>1. Len(had) \in Nat /\ DOMAIN had = 1 .. Len(had)
            BY LenProperties
        <5> QED BY <3>6, <4>2, <5>1
      <4>4. i \in DOMAIN s /\ s[i] = k
        <5>1. i \in DOMAIN Flow /\ Flow[i] = Kept[i]
            BY <1>0, <1>5, <4>2, Embedded
        <5> QED BY <1>5, <3>2, <4>2, <5>1
      <4>5. ~ Ahead(k, k)
          BY <1>0, NotAhead
      <4> QED BY <4>3, <4>4, <4>5
    <3>7. (Leading(s, k) => Leading(t, k)) /\ (AllAhead(s, k) => AllAhead(t, k))
      <4>1. PICK D : D = {Len(had) + 1}
          OBVIOUS
      <4>2. Thin(t, s, D)
          BY <3>5, <4>1
      <4>3. \A m \in DOMAIN s : m \in D /\ s[m] = k => \E j \in DOMAIN s : j < m /\ ~ Ahead(s[j], k)
          BY <3>6, <4>1
      <4> QED BY <4>2, <4>3, ThinLeads, Zenon
    <3>8. s = Flow /\ t = Flow'
        BY <1>5, <3>1, <3>2, <3>3, Zenon
    <3>9. Accounted(k)'
        BY <1>8, <2>2, <3>7, <3>8
    <3> QED BY <1>4, <2>1, <3>9
  <2>3. CASE Cutting
    <3>1. had \o <<>> = had
        BY KeySeqs, Zenon
    <3>2. Flow' = had
        BY <1>5, <1>11, <2>3, <3>1, Zenon
    <3>3. PICK q \in Seq(Key) : q = <<c>> \o rest
      <4>1. <<c>> \in Seq(Key)
          BY Singleton
      <4> QED BY <4>1, KeySeqs, Zenon
    <3>4. Flow = Flow' \o q
        BY <1>5, <3>2, <3>3, Zenon
    <3>5. Flow' \in Seq(Key)
        BY <3>2
    <3>6. Accounted(k)'
        BY <1>9, <2>3, <3>4, <3>5
    <3> QED BY <1>4, <2>1, <3>6
  <2> QED BY <2>2, <2>3
<1> QED BY <1>10, <1>11

-----------------------------------------------------------------------------
(***************************************************************************)
(* The next page of a leaf, a resumed scan, and the end of a scan.         *)
(***************************************************************************)
\* The keys of a new page are of the part that is read.
LEMMA FetchedParts ==
    ASSUME ScanTypes, Grounded, RowsTrue, Fetch, NEW g \in Seq(Key), g = CallersOf(scan'.page)
    PROVE  \A i \in DOMAIN g : g[i] \in Steady => PartOf(g[i]) <= scan.part
<1>0. Underway /\ Typed
    BY TypedFields DEF Fetch, Underway
<1>1. Same /\ scan'.part = scan.part
    BY FetchEffect
<1>2. PICK s \in Seq(Row) : s = scan'.page
  <2>1. ScanTypes' /\ Underway'
      BY <1>0, FetchTypes, Fetched DEF Underway
  <2>2. (ScanTypes /\ Underway => Typed)'
      BY TypedFields, PTL
  <2> QED BY <2>1, <2>2 DEF Typed
<1>3. \A i \in DOMAIN s : PageRow(s[i])
  <2>1. RowsTrue'
      BY FetchRows
  <2>2. \A i \in DOMAIN s : PageRow(s[i])'
      BY <1>2, <2>1 DEF RowsTrue
  <2>3. \A row : PageRow(row)' = PageRow(row)
      BY <1>1, SameRows
  <2> QED BY <2>2, <2>3
<1>4. DOMAIN g = DOMAIN s /\ \A i \in DOMAIN s : g[i] = Caller(s[i].key)
    BY <1>2, CallersOfRows
<1> SUFFICES ASSUME NEW i \in DOMAIN g, g[i] \in Steady PROVE PartOf(g[i]) <= scan.part
    OBVIOUS
<1>5. s[i] \in Row /\ s[i].key \in Key
    BY <1>4, RowFields
<1>6. StoredKey(g[i]) = s[i].key
    BY <1>4, <1>5, CallerTypes
<1>7. data[scan.part][StoredKey(g[i])] # None
    BY <1>3, <1>4, <1>6 DEF PageRow
<1>8. scan.part \in {1, 2}
    BY <1>0 DEF Typed
<1> QED BY <1>7, <1>8 DEF PartOf

\* What the leaf of the part a match is in has still to list.
LEMMA MatchListable ==
    ASSUME Filtering, ScanTypes, Underway, Snapped, NEW k \in Steady, Matches(k), scan.part = PartOf(k)
    PROVE  /\ Listable(scan.part, StoredKey(k)) /\ StoredKey(k) \in Key
           /\ Position(Order, StoredKey(k)) = Pos(k) /\ Caller(StoredKey(k)) = k
<1>1. k \in Key
    BY DEF Steady
<1>2. /\ data[scan.part][StoredKey(k)] # None /\ StoredKey(k) \in Key
      /\ scan.plan.prefix => StoredKey(k) \in Under
    BY <1>1, MatchFacts
<1>3. Caller(StoredKey(k)) = k
    BY <1>1, CallerTypes
<1>4. StoredKey(k) \in scan.snapshot
    BY <1>2, <1>3 DEF Snapped
<1>5. scan.plan.prefix => StoredKey(k) \in (IF store.leaf = "sql" THEN Alike ELSE Under)
    BY <1>2, ScanAssumption
<1> QED BY <1>2, <1>3, <1>4, <1>5 DEF Listable, Pos

\* What goes before a key among those of a page.
LEMMA PageAhead ==
    ASSUME ScanTypes, Underway, NEW k \in Key, NEW y \in Key, y \in Steady => PartOf(y) <= scan.part,
           scan.part \in {1, 2}, scan.part <= PartOf(k),
           \/ store.view = "union" /\ scan.part < PartOf(k)
           \/ Pos(y) < Pos(k)
    PROVE  Ahead(y, k)
<1>1. PartOf(k) \in {1, 2} /\ PartOf(y) \in {1, 2}
    BY DEF PartOf
<1>2. CASE store.view = "union"
  <2>1. ASSUME y \in Steady PROVE PartOf(y) < PartOf(k) \/ (PartOf(y) = PartOf(k) /\ Pos(y) < Pos(k))
      BY <1>1, <2>1
  <2>2. y \in Steady => Before(y, k)
      BY <2>1, BeforeRank
  <2> QED BY <1>2, <2>2 DEF Ahead
<1>3. CASE store.view # "union"
    BY <1>3 DEF Ahead
<1> QED BY <1>2, <1>3

\* Keys added after those held.
LEMMA AddedLeads ==
    ASSUME NEW k, NEW s \in Seq(Key), NEW g \in Seq(Key), AllAhead(s, k)
    PROVE  (Leading(g, k) => Leading(s \o g, k)) /\ (AllAhead(g, k) => AllAhead(s \o g, k))
<1>1. PICK f \in Seq(Key) : f = s \o g
    BY KeySeqs, Zenon
<1>2. /\ DOMAIN f = 1 .. Len(s) + Len(g) /\ Len(s) \in Nat /\ Len(g) \in Nat
      /\ DOMAIN s = 1 .. Len(s) /\ DOMAIN g = 1 .. Len(g)
      /\ \A i \in 1 .. Len(s) : f[i] = s[i]
      /\ \A i \in 1 .. Len(g) : f[Len(s) + i] = g[i]
      /\ \A i \in DOMAIN f : i \in 1 .. Len(s) \/ i - Len(s) \in 1 .. Len(g)
    BY <1>1, ConcatElements
<1>3. \A i \in DOMAIN f : \/ i \in DOMAIN s /\ f[i] = s[i]
                          \/ i - Len(s) \in DOMAIN g /\ f[i] = g[i - Len(s)]
  <2>1. \A i \in DOMAIN f : Len(s) + (i - Len(s)) = i
      BY <1>2
  <2> QED BY <1>2, <2>1
<1>4. ASSUME Leading(g, k) PROVE Leading(f, k)
  <2>1. PICK i \in DOMAIN g : g[i] = k /\ \A j \in DOMAIN g : j < i => Ahead(g[j], k)
      BY <1>4 DEF Leading
  <2>2. PICK m : m = Len(s) + i
      OBVIOUS
  <2>3. m \in DOMAIN f /\ f[m] = k
      BY <1>2, <2>1, <2>2
  <2>4. ASSUME NEW j \in DOMAIN f, j < m PROVE Ahead(f[j], k)
    <3>1. CASE j \in DOMAIN s /\ f[j] = s[j]
        BY <3>1 DEF AllAhead
    <3>2. CASE j - Len(s) \in DOMAIN g /\ f[j] = g[j - Len(s)]
      <4>1. j - Len(s) < i
          BY <1>2, <2>1, <2>2, <2>4
      <4> QED BY <2>1, <3>2, <4>1
    <3> QED BY <1>3, <3>1, <3>2
  <2> QED BY <2>3, <2>4 DEF Leading
<1>5. ASSUME AllAhead(g, k) PROVE AllAhead(f, k)
    BY <1>3, <1>5 DEF AllAhead
<1> QED BY <1>1, <1>4, <1>5

\* A page takes up what comes next, and leaves the rest to the pages after it.
LEMMA FetchAccounted ==
    ASSUME Filtering, ScanTypes, Grounded, Settled, RowsTrue, Fetch, AllAccounted PROVE AllAccounted'
<1>0. Underway /\ Typed /\ scan.page = <<>> /\ ~ scan.ended
    BY TypedFields, DueFacts DEF Fetch, Underway
<1>1. /\ Same /\ SameCascade /\ scan'.part = scan.part /\ scan'.seen = scan.seen
      /\ scan'.started = scan.started
    BY Fetched
<1>2. /\ Steady' = Steady /\ (\A k : Matches(k)' = Matches(k) /\ Pos(k)' = Pos(k) /\ PartOf(k)' = PartOf(k))
      /\ LimitUnderFilter' = LimitUnderFilter
    BY <1>1, SameOperators, UnfilteredSame
<1>3. CursorOk' = CursorOk
    BY <1>1, <1>2 DEF CursorOk, CursorViews, Same
<1> SUFFICES ASSUME CursorOk, ~ LimitUnderFilter, NEW k \in Steady, Matches(k)
             PROVE  Accounted(k)' /\ (k \in scan'.seen => \E i \in DOMAIN Kept' : Kept'[i] = k)
    BY <1>2, <1>3 DEF AllAccounted
<1>4. Accounted(k) /\ (k \in scan.seen => \E i \in DOMAIN Kept : Kept[i] = k)
    BY DEF AllAccounted
<1>5. PICK s \in Seq(Key) : s = Kept /\ Flow = s /\ Kept' = s
    BY FetchMoves
<1>6. PICK g \in Seq(Key) :
        /\ Flow' = Kept \o g /\ g = CallersOf(scan'.page)
        /\ \A i \in DOMAIN g : Pos(g[i]) > scan.at /\ Pos(g[i]) <= scan'.at
        /\ \A j \in Key :
             Listable(scan.part, j) /\ Position(Order, j) > scan.at =>
               \/ \E i \in DOMAIN g :
                    g[i] = Caller(j) /\ \A m \in DOMAIN g : m < i => Pos(g[m]) < Pos(Caller(j))
               \/ ~ scan'.ended /\ scan'.at < Position(Order, j)
    BY FetchMoves
<1>7. PICK t \in Seq(Key) : t = s \o g /\ Flow' = t
  <2>1. s \o g \in Seq(Key)
      BY KeySeqs, Zenon
  <2> QED BY <1>5, <1>6, <2>1, Zenon
<1>8. k \in Key /\ PartOf(k) \in {1, 2} /\ Pos(k) \in Nat /\ scan.part \in {1, 2} /\ scan.at \in Nat
      /\ (store.view # "union" => PartOf(k) = 1)
    BY <1>0, MatchFacts, PosTypes DEF Steady, Typed
<1>9. \A i \in DOMAIN g : /\ g[i] \in Key /\ Pos(g[i]) \in Nat
                          /\ g[i] \in Steady => PartOf(g[i]) <= scan.part
  <2>1. \A i \in DOMAIN g : g[i] \in Key
      OBVIOUS
  <2>2. \A i \in DOMAIN g : Pos(g[i]) \in Nat
      BY <1>0, <2>1, PosTypes
  <2>3. \A i \in DOMAIN g : g[i] \in Steady => PartOf(g[i]) <= scan.part
      BY <1>6, FetchedParts
  <2> QED BY <2>1, <2>2, <2>3
<1>10. ~ Stopped
    BY <1>0 DEF Stopped
<1>11. ASSUME Leading(s, k) PROVE Leading(t, k)
    BY <1>7, <1>11, PrefixLeads
<1>12. ASSUME Unreached(k), AllAhead(s, k) PROVE Leading(t, k) \/ (Unreached(k)' /\ AllAhead(t, k))
  <2>1. CASE scan.part < PartOf(k)
    <3>1. Unreached(k)'
        BY <1>1, <1>2, <2>1 DEF Unreached
    <3>2. store.view = "union" /\ scan.part <= PartOf(k)
        BY <1>8, <2>1
    <3>3. ASSUME NEW i \in DOMAIN g PROVE Ahead(g[i], k)
        BY <1>0, <1>8, <1>9, <2>1, <3>2, PageAhead
    <3>4. AllAhead(g, k)
        BY <3>3 DEF AllAhead
    <3> QED BY <1>7, <1>12, <3>1, <3>4, AddedLeads
  <2>2. CASE scan.part = PartOf(k) /\ scan.at < Pos(k)
    <3>1. /\ Listable(scan.part, StoredKey(k)) /\ StoredKey(k) \in Key
          /\ Position(Order, StoredKey(k)) = Pos(k) /\ Caller(StoredKey(k)) = k
        BY <1>0, <2>2, MatchListable DEF Settled
    <3>2. \/ \E i \in DOMAIN g : g[i] = k /\ \A m \in DOMAIN g : m < i => Pos(g[m]) < Pos(k)
          \/ ~ scan'.ended /\ scan'.at < Pos(k)
      <4>1. Position(Order, StoredKey(k)) > scan.at
          BY <1>8, <2>2, <3>1
      <4>2. \/ \E i \in DOMAIN g :
                 g[i] = Caller(StoredKey(k)) /\ \A m \in DOMAIN g : m < i => Pos(g[m]) < Pos(Caller(StoredKey(k)))
            \/ ~ scan'.ended /\ scan'.at < Position(Order, StoredKey(k))
          BY <1>6, <3>1, <4>1, Zenon
      <4> QED BY <3>1, <4>2
    <3>3. ASSUME NEW i \in DOMAIN g, Pos(g[i]) < Pos(k) PROVE Ahead(g[i], k)
      <4>1. scan.part <= PartOf(k)
          BY <1>8, <2>2
      <4> QED BY <1>0, <1>8, <1>9, <3>3, <4>1, PageAhead
    <3>4. CASE \E i \in DOMAIN g : g[i] = k /\ \A m \in DOMAIN g : m < i => Pos(g[m]) < Pos(k)
      <4>1. Leading(g, k)
          BY <3>3, <3>4 DEF Leading
      <4> QED BY <1>7, <1>12, <4>1, AddedLeads
    <3>5. CASE ~ scan'.ended /\ scan'.at < Pos(k)
      <4>1. Unreached(k)'
          BY <1>1, <1>2, <2>2, <3>5 DEF Unreached
      <4>2. \A i \in DOMAIN g : Pos(g[i]) < Pos(k)
        <5>1. scan'.at \in Nat
          <6>1. ScanTypes' /\ Underway'
              BY <1>0, FetchTypes, Fetched DEF Underway
          <6>2. (ScanTypes /\ Underway => Typed)'
              BY TypedFields, PTL
          <6> QED BY <6>1, <6>2 DEF Typed
        <5> QED BY <1>6, <1>8, <1>9, <3>5, <5>1
      <4>3. AllAhead(g, k)
          BY <3>3, <4>2 DEF AllAhead
      <4> QED BY <1>7, <1>12, <4>1, <4>3, AddedLeads
    <3> QED BY <3>2, <3>4, <3>5
  <2> QED BY <1>12, <2>1, <2>2 DEF Unreached
<1>13. Listed(k) \/ Leading(t, k) \/ (Unreached(k)' /\ AllAhead(t, k))
    BY <1>4, <1>5, <1>10, <1>11, <1>12 DEF Accounted
<1>14. Accounted(k)'
    BY <1>1, <1>7, <1>13, SameLeads DEF Accounted
<1> QED BY <1>1, <1>4, <1>5, <1>14

\* Nothing was passed over when a listing begins, or has come no further than its cursor.
LEMMA OpenAccounted ==
    ASSUME Filtering, ScanTypes, Underway, Paging, Ordered, Cursored,
           scan.part = 1, ~ scan.ended, scan.seen = {},
           resumes = 0 => Flow = <<>> /\ scan.at = 0,
           resumes > 0 /\ CursorOk => scan.at <= Pos(scan.cursor)
    PROVE  AllAccounted
<1> SUFFICES ASSUME CursorOk, ~ LimitUnderFilter, NEW k \in Steady, Matches(k)
             PROVE  Accounted(k)
    BY DEF AllAccounted
<1>1. /\ k \in Key /\ PartOf(k) \in {1, 2} /\ Pos(k) \in Nat /\ Pos(k) \in 1 .. Len(Order)
      /\ Len(Order) \in Nat /\ (store.view # "union" => PartOf(k) = 1)
    BY MatchFacts, PosTypes DEF Steady
<1>2. resumes \in Nat
    BY ScanAssumption DEF ScanTypes
<1>3. CASE resumes = 0
  <2>1. Flow = <<>> /\ scan.at = 0
      BY <1>3
  <2>2. AllAhead(Flow, k)
      BY <2>1 DEF AllAhead
  <2>3. Unreached(k)
      BY <1>1, <2>1 DEF Unreached
  <2> QED BY <2>2, <2>3 DEF Accounted
<1>4. CASE resumes > 0
  <2>1. CursorViews /\ scan.cursor \in Key /\ scan.at <= Pos(scan.cursor) /\ store.view # "union"
      BY <1>4 DEF CursorOk, Paging, CursorViews
  <2>2. Pos(scan.cursor) \in Nat /\ scan.at \in Nat
      BY <2>1, PosTypes, TypedFields DEF Typed
  <2>3. CASE Pos(k) <= Pos(scan.cursor)
    <3>1. Listed(k)
        BY <1>4, <2>1, <2>3 DEF Cursored
    <3> QED BY <3>1 DEF Accounted
  <2>4. CASE Pos(scan.cursor) < Pos(k)
    <3>1. Unreached(k)
        BY <1>1, <2>1, <2>2, <2>4 DEF Unreached
    <3>2. ASSUME NEW i \in DOMAIN Flow PROVE Ahead(Flow[i], k)
      <4>1. Flow[i] \in Key /\ Pos(Flow[i]) <= scan.at
          BY <2>1, FlowTypes DEF Ordered
      <4>2. Pos(Flow[i]) \in Nat
          BY <4>1, PosTypes
      <4>3. Pos(Flow[i]) < Pos(k)
          BY <1>1, <2>1, <2>2, <2>4, <4>1, <4>2
      <4> QED BY <2>1, <4>3 DEF Ahead
    <3> QED BY <3>1, <3>2 DEF Accounted, AllAhead
  <2> QED BY <1>1, <2>2, <2>3, <2>4
<1> QED BY <1>2, <1>3, <1>4

\* A scan that has not come to its cursor passed nothing over.
LEMMA UnstartedAccounted ==
    ASSUME Filtering, ScanTypes, Underway, Grounded, Settled, Ordered, Cursored,
           ~ scan.started, store.view # "union"
    PROVE  AllAccounted
<1>0. Typed /\ Paging /\ Opening /\ resumes \in Nat
    BY TypedFields, ScanAssumption DEF Settled, ScanTypes
<1>1. scan.part = 1 /\ scan.seen = {} /\ resumes # 0
    BY <1>0 DEF Grounded, Typed, Opening, Paging
<1>2. resumes > 0
    BY <1>0, <1>1
<1>3. CASE CursorOk
  <2>1. CursorViews /\ scan.cursor \in Steady
      BY <1>0, <1>2, <1>3 DEF CursorOk, Opening
  <2>2. ~ scan.ended /\ scan.at <= Pos(scan.cursor)
      BY <1>2, <2>1 DEF Cursored
  <2> QED BY <1>0, <1>1, <2>2, OpenAccounted
<1>4. CASE ~ CursorOk
    BY <1>4 DEF AllAccounted
<1> QED BY <1>3, <1>4

LEMMA SteppedCursored ==
    ASSUME Filtering, ScanTypes, Grounded, Meant, Settled, Ordered, Stepped, Cursored PROVE Cursored'
<1>0. Underway /\ Typed
    BY TypedFields DEF Stepped, Fetch, NextPart, List, Confirm, Bring, Take, Flush, Yield, End, Underway
<1>1. Same /\ CursorViews' = CursorViews /\ resumes' = resumes /\ scan'.cursor = scan.cursor
    BY SteppedSame DEF CursorViews, Same
<1>2. /\ Steady' = Steady /\ LimitUnderFilter' = LimitUnderFilter
      /\ \A k : /\ Matches(k)' = Matches(k) /\ Pos(k)' = Pos(k) /\ Listed(k)' = Listed(k)
                /\ Present(k)' = Present(k) /\ UnderPrefix(k)' = UnderPrefix(k)
    BY <1>1, SameOperators, UnfilteredSame, SamePlaces
<1> SUFFICES ASSUME resumes > 0, CursorViews PROVE Cursored'
    BY <1>1 DEF Cursored
<1>3. PICK c \in Key : c = scan.cursor
    BY DEF Settled, Paging
<1>4. /\ ~ LimitUnderFilter => \A k \in Steady : Matches(k) /\ Pos(k) <= Pos(c) => Listed(k)
      /\ c \in Steady => Present(c) /\ UnderPrefix(c)
      /\ ~ scan.started /\ c \in Steady =>
           ~ scan.ended /\ scan.at <= Pos(c) /\ (scan.page = <<>> => scan.at < Pos(c))
    BY <1>3 DEF Cursored
<1>5. store.view # "union" /\ store.view # "rekeyed" /\ Pos(c) \in Nat /\ scan.at \in Nat /\ scan.part = 1
    BY <1>0, PosTypes DEF CursorViews, Typed, Grounded
<1>6. ASSUME ~ scan'.started, c \in Steady
      PROVE  ~ scan'.ended /\ scan'.at <= Pos(c) /\ (scan'.page = <<>> => scan'.at < Pos(c))
  <2>1. CASE Cascaded
      BY <1>4, <1>6, <2>1, CascadeMoves DEF SamePlace, SameSource
  <2>2. CASE NextPart
    <3>1. scan.part # Len(Scanned)
        BY <1>0, <2>2, DueFacts DEF NextPart
    <3>2. Len(Scanned) = 1 /\ scan.part <= Len(Scanned) /\ scan.part \in {1, 2}
        BY <1>0, <1>5, ScannedTypes DEF Typed
    <3> QED BY <3>1, <3>2
  <2>3. CASE List
    <3>1. ~ scan.started
        BY <1>6, <2>3, ListEffect
    <3>2. store.leaf = "memory"
        BY <3>1 DEF Settled, Opening, CursorViews
    <3>3. scan.page # <<>> /\ scan.page \in Seq(Row)
        BY <1>0, <2>3, DueFacts DEF List, Typed
    <3>4. Len(scan.page) = 1 /\ ~ scan.ended /\ scan.at = Position(Order, scan.page[1].key)
        BY <3>2, <3>3 DEF Settled, OnePage
    <3>5. PICK row \in Row : row = Head(scan.page) /\ row = scan.page[1] /\ row.key \in Key
        BY <3>3, TailElements, RowFields
    <3>6. row.key # c /\ Rest /\ scan'.at = scan.at
      <4>1. scan'.started = (row.key = c)
          BY <1>3, <2>3, <3>1, <3>5, ListEffect
      <4> QED BY <1>6, <2>3, <3>1, <4>1, ListEffect DEF SamePlace
    <3>7. scan.at = Pos(row.key) /\ Pos(row.key) # Pos(c)
      <4>1. StoredKey(row.key) = row.key
          BY <1>5 DEF StoredKey
      <4>2. Pos(row.key) # Pos(c)
          BY <1>0, <3>5, <3>6, PosTypes
      <4> QED BY <3>4, <3>5, <4>1, <4>2 DEF Pos
    <3>8. scan.at < Pos(c)
      <4>1. scan.at <= Pos(c)
          BY <1>4, <1>6, <3>1
      <4> QED BY <1>5, <3>7, <4>1
    <3>9. ~ scan'.ended
      <4>1. scan.plan.limit = NoLimit
          BY <1>0, <3>2 DEF Typed, PlanOf, CompileScan
      <4>2. scan'.ended = (scan.ended \/ FALSE)
          BY <3>6, <4>1 DEF Rest, Reached
      <4> QED BY <3>4, <4>2
    <3> QED BY <1>5, <3>6, <3>8, <3>9
  <2>4. CASE Fetch
    <3>1. ~ scan.started /\ scan.page = <<>>
        BY <1>0, <1>6, <2>4, Fetched, DueFacts DEF Fetch
    <3>2. scan.at < Pos(c)
        BY <1>4, <1>6, <3>1
    <3>3. Caller(c) = c /\ StoredKey(c) = c
        BY <1>5 DEF Caller, StoredKey
    <3>4. Listable(scan.part, c)
      <4>1. data[1][c] # None /\ UnderPrefix(c)
          BY <1>4, <1>5, <1>6, <3>3 DEF Present
      <4>2. c \in scan.snapshot
          BY <1>5, <1>6, <3>3, <4>1 DEF Settled, Snapped
      <4> QED BY <1>5, <4>1, <4>2 DEF Listable, UnderPrefix
    <3>5. PICK g \in Seq(Key) :
            /\ g = CallersOf(scan'.page)
            /\ \A j \in Key :
                 Listable(scan.part, j) /\ Position(Order, j) > scan.at =>
                   \/ \E i \in DOMAIN g :
                        g[i] = Caller(j) /\ \A m \in DOMAIN g : m < i => Pos(g[m]) < Pos(Caller(j))
                   \/ ~ scan'.ended /\ scan'.at < Position(Order, j)
        BY <2>4, FetchMoves
    <3>6. (\E i \in DOMAIN g : g[i] = c) \/ (~ scan'.ended /\ scan'.at < Pos(c))
      <4>1. Position(Order, c) = Pos(c) /\ Position(Order, c) > scan.at
          BY <1>5, <3>2, <3>3 DEF Pos
      <4> QED BY <3>3, <3>4, <3>5, <4>1
    <3>7. ScanTypes' /\ Underway' /\ OnePage'
        BY <1>0, <2>4, FetchTypes, Fetched, SteppedOnePage DEF Underway, Settled
    <3>8. PICK s \in Seq(Row) : s = scan'.page
      <4>1. (ScanTypes /\ Underway => Typed)'
          BY TypedFields, PTL
      <4> QED BY <3>7, <4>1 DEF Typed
    <3>9. scan'.at \in Nat
      <4>1. (ScanTypes /\ Underway => Typed)'
          BY TypedFields, PTL
      <4> QED BY <3>7, <4>1 DEF Typed
    <3>10. CASE \E i \in DOMAIN g : g[i] = c
      <4>1. PICK i \in DOMAIN g : g[i] = c
          BY <3>10
      <4>2. DOMAIN g = DOMAIN s /\ g[i] = Caller(s[i].key) /\ s # <<>> /\ DOMAIN s = 1 .. Len(s)
          BY <3>5, <3>8, <4>1, CallersOfRows, LenProperties
      <4>3. store.leaf = "memory"
          BY <3>1 DEF Settled, Opening, CursorViews
      <4>4. store' = store /\ Order' = Order
          BY <1>1, SameOperators DEF Same
      <4>5. Len(s) = 1 /\ ~ scan'.ended /\ scan'.at = Position(Order, s[1].key)
          BY <3>7, <3>8, <4>2, <4>3, <4>4 DEF OnePage
      <4>6. i = 1
          BY <4>1, <4>2, <4>5
      <4>7. s[1].key = c
          BY <1>5, <4>1, <4>2, <4>6 DEF Caller
      <4>8. scan'.at = Pos(c)
          BY <3>3, <4>5, <4>7 DEF Pos
      <4> QED BY <1>5, <3>8, <4>2, <4>5, <4>8
    <3>11. CASE ~ scan'.ended /\ scan'.at < Pos(c)
        BY <1>5, <3>9, <3>11
    <3> QED BY <3>6, <3>10, <3>11
  <2> QED BY <2>1, <2>2, <2>3, <2>4 DEF Stepped, Cascaded
<1> QED BY <1>1, <1>2, <1>3, <1>4, <1>6 DEF Cursored

\* The same of the next state.
OpenFacts ==
    /\ ScanTypes /\ Underway /\ Paging /\ Ordered /\ Cursored
    /\ scan.part = 1 /\ ~ scan.ended /\ scan.seen = {}
    /\ resumes = 0 => Flow = <<>> /\ scan.at = 0
    /\ resumes > 0 /\ CursorOk => scan.at <= Pos(scan.cursor)
UnstartedFacts ==
    /\ ScanTypes /\ Underway /\ Grounded /\ Settled /\ Ordered /\ Cursored
    /\ ~ scan.started /\ store.view # "union"

LEMMA FactsAccounted == Filtering => (OpenFacts \/ UnstartedFacts => AllAccounted)
<1>1. ASSUME Filtering, OpenFacts PROVE AllAccounted
    BY <1>1, OpenAccounted DEF OpenFacts
<1>2. ASSUME Filtering, UnstartedFacts PROVE AllAccounted
    BY <1>2, UnstartedAccounted DEF UnstartedFacts
<1> QED BY <1>1, <1>2

LEMMA NextAccounted == ASSUME Filtering, OpenFacts' \/ UnstartedFacts' PROVE AllAccounted'
<1>1. (Filtering => (OpenFacts \/ UnstartedFacts => AllAccounted))'
    BY FactsAccounted, PTL
<1>2. Filtering => (OpenFacts \/ UnstartedFacts => AllAccounted)'
    BY <1>1 DEF Filtering
<1> QED BY <1>2

\* Every step of a scan leaves the matches accounted for.
LEMMA SteppedAccounted ==
    ASSUME Filtering, ScanTypes, Grounded, Meant, Settled, Ordered, RowsTrue, Counted, Cursored,
           Stepped, AllAccounted
    PROVE  AllAccounted'
<1>0. Underway /\ Typed
    BY TypedFields DEF Stepped, Fetch, NextPart, List, Confirm, Bring, Take, Flush, Yield, End, Underway
<1>1. CASE Cascaded
    BY <1>1, CascadeAccounted
<1>2. CASE NextPart
    BY <1>2, NextPartAccounted
<1>3. CASE Fetch
    BY <1>3, FetchAccounted
<1>4. CASE List /\ scan.started
    BY <1>4, ListAccounted
<1>5. CASE List /\ ~ scan.started
  <2>1. /\ Same /\ CursorViews' = CursorViews /\ resumes' = resumes /\ scan'.cursor = scan.cursor
        /\ store' = store
      BY SteppedSame DEF CursorViews, Same
  <2>2. resumes \in Nat /\ resumes # 0
      BY <1>5, ScanAssumption DEF Settled, Paging, ScanTypes
  <2>3. resumes > 0
      BY <2>2
  <2>4. CASE ~ CursorViews
      BY <2>1, <2>3, <2>4 DEF AllAccounted, CursorOk
  <2>5. CASE CursorViews
    <3>1. ScanTypes' /\ Grounded' /\ Ordered' /\ Cursored'
        BY SteppedTypes, SteppedOrdered, SteppedCursored
    <3>2. Settled'
        BY SteppedOpening, SteppedOnePage, SteppedSnapped, SteppedPaging DEF Settled
    <3>3. Underway' /\ SamePlace /\ scan'.seen = scan.seen /\ Rest
          /\ scan'.started = (Head(scan.page).key = scan.cursor)
        BY <1>5, ListEffect DEF Underway
    <3>4. store.view # "union" /\ store.view # "rekeyed"
        BY <2>5 DEF CursorViews
    <3>5. CASE ~ scan'.started
      <4>1. UnstartedFacts'
          BY <2>1, <3>1, <3>2, <3>3, <3>4, <3>5 DEF UnstartedFacts
      <4> QED BY <4>1, NextAccounted
    <3>6. CASE scan'.started
      <4>1. store.leaf = "memory" /\ scan.seen = {} /\ scan.part = 1
          BY <1>0, <1>5, <2>5, <3>4 DEF Settled, Opening, CursorViews, Grounded, Typed
      <4>2. scan.page # <<>> /\ scan.page \in Seq(Row)
          BY <1>0, <1>5, DueFacts DEF List, Typed
      <4>3. ~ scan.ended /\ scan.at = Position(Order, scan.page[1].key)
          BY <4>1, <4>2 DEF Settled, OnePage
      <4>4. Head(scan.page) = scan.page[1]
          BY <4>2, TailElements
      <4>5. scan'.at = Pos(scan.cursor)
        <5>1. scan.page[1].key = scan.cursor /\ scan'.at = scan.at
            BY <3>3, <3>6, <4>4 DEF SamePlace
        <5>2. StoredKey(scan.cursor) = scan.cursor
            BY <3>4 DEF StoredKey
        <5> QED BY <4>3, <5>1, <5>2 DEF Pos
      <4>6. Pos(scan.cursor)' = Pos(scan.cursor) /\ Pos(scan.cursor) \in Nat
        <5>1. PICK c \in Key : c = scan.cursor
            BY <2>3 DEF Settled, Paging
        <5>2. Pos(c)' = Pos(c) /\ Pos(c) \in Nat
            BY <1>0, <2>1, SameOperators, PosTypes
        <5> QED BY <2>1, <5>1, <5>2
      <4>7. ~ scan'.ended
        <5>1. scan.plan.limit = NoLimit
            BY <1>0, <4>1 DEF Typed, PlanOf, CompileScan
        <5>2. scan'.ended = (scan.ended \/ FALSE)
            BY <3>3, <5>1 DEF Rest, Reached
        <5> QED BY <4>3, <5>2
      <4>8. scan'.part = 1 /\ scan'.seen = {} /\ Paging' /\ resumes' # 0
          BY <2>1, <2>2, <3>2, <3>3, <4>1 DEF SamePlace, Settled
      <4>9. scan'.at <= Pos(scan.cursor)'
          BY <4>5, <4>6
      <4>10. OpenFacts'
          BY <3>1, <3>3, <4>7, <4>8, <4>9 DEF OpenFacts
      <4> QED BY <4>10, NextAccounted
    <3> QED BY <3>5, <3>6
  <2> QED BY <2>4, <2>5
<1> QED BY <1>1, <1>2, <1>3, <1>4, <1>5 DEF Stepped, Cascaded

\* What the last page leaves to the next.
LEMMA ResumeSame ==
    ASSUME ScanTypes, Resume
    PROVE  /\ Steady' = Steady /\ LimitUnderFilter' = LimitUnderFilter /\ CursorViews' = CursorViews
           /\ scan'.plan = scan.plan /\ scan'.spec = scan.spec
           /\ \A k : /\ Matches(k)' = Matches(k) /\ Pos(k)' = Pos(k) /\ Present(k)' = Present(k)
                     /\ UnderPrefix(k)' = UnderPrefix(k)
<1>0. Underway /\ Typed
    BY TypedFields DEF Resume, Underway
<1>1. PICK c : scan' = Begun(scan.spec, c) /\ UNCHANGED <<data, old, store, touched, writes>>
    BY DEF Resume
<1>2. scan'.spec = scan.spec /\ scan'.plan = scan.plan
  <2>1. scan'.spec = scan.spec /\ scan'.plan = CompileScan(scan.spec, Down(scan.spec))
      BY <1>1 DEF Begun
  <2> QED BY <1>0, <2>1 DEF Typed, PlanOf
<1>3. Steady' = Steady /\ CursorViews' = CursorViews
    BY <1>1 DEF Steady, CursorViews
<1>4. LimitUnderFilter' = LimitUnderFilter
    BY <1>1, <1>2 DEF LimitUnderFilter
<1>5. ASSUME NEW k
      PROVE  /\ Pos(k)' = Pos(k) /\ Present(k)' = Present(k) /\ UnderPrefix(k)' = UnderPrefix(k)
             /\ StoredKey(k)' = StoredKey(k) /\ BatchGet(data, k)' = BatchGet(data, k)
  <2>1. StoredKey(k)' = StoredKey(k) /\ Order' = Order
      BY <1>1, <1>2 DEF StoredKey, Order
  <2>2. Pos(k)' = Pos(k) /\ Present(k)' = Present(k)
      BY <1>1, <2>1 DEF Pos, Present
  <2>3. UnderPrefix(k)' = UnderPrefix(k)
      BY <1>1, <1>2 DEF UnderPrefix
  <2>4. BatchGet(data, k)' = BatchGet(data, k)
      BY <1>1, Zenon DEF BatchGet
  <2> QED BY <2>1, <2>2, <2>3, <2>4
<1>6. ASSUME NEW k PROVE Matches(k)' = Matches(k)
  <2>1. StatReaches' = StatReaches
      BY <1>1, <1>2 DEF StatReaches
  <2>2. Holds(k)' = Holds(k)
      BY <1>1, <1>2, <1>5, Zenon DEF Holds, NeedsValues
  <2>3. StatOf(k)' = StatOf(k)
      BY <1>1, <1>5, <2>1 DEF StatOf
  <2>4. Matches(k) = (/\ Holds(k)
                      /\ Evaluate(scan.spec.where, [key |-> k, value |-> BatchGet(data, k), stat |-> StatOf(k)])
                      /\ scan.spec.refine => k \in Refined)
      BY Zenon DEF Matches, StatOf
  <2>5. Matches(k)' = (/\ Holds(k)'
                       /\ Evaluate(scan.spec.where, [key |-> k, value |-> BatchGet(data, k), stat |-> StatOf(k)])'
                       /\ scan'.spec.refine => k \in Refined)
      BY Zenon DEF Matches, StatOf
  <2>6. Evaluate(scan.spec.where, [key |-> k, value |-> BatchGet(data, k), stat |-> StatOf(k)])'
        = Evaluate(scan.spec.where, [key |-> k, value |-> BatchGet(data, k), stat |-> StatOf(k)])
      BY <1>2, <1>5, <2>3
  <2> QED BY <1>2, <2>2, <2>4, <2>5, <2>6
<1> QED BY <1>2, <1>3, <1>4, <1>5, <1>6

\* The next page starts where all that matched before was returned.
LEMMA ResumeAccounted ==
    ASSUME Filtering, ScanTypes, Grounded, Resume, Meant, RowsTrue, Settled, Ordered, Paged, AllAccounted
    PROVE  Cursored' /\ AllAccounted'
<1>0. Underway /\ Typed
    BY TypedFields DEF Resume, Underway
<1>1. PICK c \in Key : c = scan.out[Len(scan.out)].key
    BY ResumeTypes
<1>2. /\ scan' = Begun(scan.spec, c) /\ listed' = listed \o KeysOf(scan.out) /\ resumes' = resumes + 1
      /\ UNCHANGED <<data, old, store, touched, writes>>
      /\ ~ scan.spec.orderBy /\ scan.out # <<>>
    BY <1>1 DEF Resume
<1>3. /\ Flow' = <<>> /\ scan'.cursor = c /\ scan'.part = 1
      /\ scan'.at = (IF store.leaf = "sql" /\ c # None THEN Position(Listing, c) ELSE 0)
      /\ scan'.started = (c = None \/ store.leaf \notin {"memory", "redis"})
    BY <1>2, BegunFlow
<1>4. scan'.ended = FALSE /\ scan'.page = <<>> /\ scan'.seen = {}
    BY <1>2 DEF Begun
<1>5. /\ Steady' = Steady /\ LimitUnderFilter' = LimitUnderFilter /\ CursorViews' = CursorViews
      /\ \A k : /\ Matches(k)' = Matches(k) /\ Pos(k)' = Pos(k) /\ Present(k)' = Present(k)
                /\ UnderPrefix(k)' = UnderPrefix(k)
    BY ResumeSame
<1>6. resumes \in Nat /\ resumes' > 0 /\ resumes' # 0
    BY <1>2, ScanAssumption DEF ScanTypes
<1>7. CASE ~ CursorViews
    BY <1>5, <1>6, <1>7 DEF Cursored, AllAccounted, CursorOk
<1>8. CASE CursorViews
  <2>1. store.view # "union" /\ store.view # "rekeyed" /\ store.leaf \in {"sql", "memory"} /\ ~ scan.relisted
      BY <1>8 DEF CursorViews, Settled, Opening
  <2>2. c # None /\ Pos(c) \in Nat /\ Pos(c) \in 1 .. Len(Order) /\ Len(Order) \in Nat /\ Pos(c) = Position(Listing, c)
    <3>1. c # None
        BY PredicatesAssumption
    <3>2. Pos(c) \in Nat /\ Pos(c) \in 1 .. Len(Order) /\ Len(Order) \in Nat
        BY <1>0, PosTypes
    <3>3. Pos(c) = Position(Listing, c)
        BY <1>2, <2>1 DEF Pos, StoredKey, Order
    <3> QED BY <3>1, <3>2, <3>3
  <2>3. PICK o \in Seq(Key) : /\ o = KeysOf(scan.out) /\ Len(o) = Len(scan.out) /\ DOMAIN o = DOMAIN scan.out
                              /\ \A i \in DOMAIN o : o[i] = scan.out[i].key
      BY <1>0, KeysOfRows DEF Typed
  <2>4. /\ \A i \in DOMAIN o : i \in DOMAIN Flow /\ Flow[i] = o[i]
        /\ Len(o) \in Nat /\ DOMAIN o = 1 .. Len(o)
      BY <1>0, <2>3, Embedded
  <2>5. Len(o) \in DOMAIN o /\ o[Len(o)] = c
    <3>1. Len(o) # 0
        BY <1>0, <1>2, <2>3, EmptySeq DEF Typed
    <3> QED BY <1>1, <2>3, <2>4, <3>1
  <2>6. CursorOk
    <3>1. scan.started
        BY <1>2, <2>1 DEF Settled, Opening, Holding
    <3> QED BY <1>8, <3>1 DEF CursorOk
  <2>7. PICK t \in Seq(Key) : t = listed \o o /\ listed \in Seq(Key) /\ listed' = t
    <3>1. listed \in Seq(Key)
        BY DEF ScanTypes
    <3>2. listed \o o \in Seq(Key)
        BY <3>1, KeySeqs, Zenon
    <3> QED BY <1>2, <2>3, <3>1, <3>2, Zenon
  <2>8. /\ \A i \in DOMAIN listed : i \in DOMAIN t /\ t[i] = listed[i]
        /\ \A i \in DOMAIN o : \E j \in DOMAIN t : t[j] = o[i]
    <3>1. /\ Len(listed) \in Nat /\ DOMAIN listed = 1 .. Len(listed)
          /\ DOMAIN t = 1 .. Len(listed) + Len(o)
          /\ \A i \in 1 .. Len(listed) : t[i] = listed[i]
          /\ \A i \in 1 .. Len(o) : t[Len(listed) + i] = o[i]
        BY <2>7, ConcatElements
    <3>2. \A i \in DOMAIN listed : i \in DOMAIN t /\ t[i] = listed[i]
        BY <2>4, <3>1
    <3>3. \A i \in DOMAIN o : Len(listed) + i \in DOMAIN t
        BY <2>4, <3>1
    <3> QED BY <2>4, <3>1, <3>2, <3>3
  <2>9. ASSUME ~ LimitUnderFilter, NEW k \in Steady, Matches(k), Pos(k) <= Pos(c) PROVE Listed(k)'
    <3>1. k \in Key /\ Pos(k) \in Nat
        BY <1>0, PosTypes DEF Steady
    <3>2. Accounted(k)
        BY <2>6, <2>9 DEF AllAccounted
    <3>3. CASE Listed(k)
        BY <2>7, <2>8, <3>3 DEF Listed
    <3>4. CASE Leading(Flow, k)
      <4>1. PICK i \in DOMAIN Flow : Flow[i] = k
          BY <3>4 DEF Leading
      <4>2. Flow \in Seq(Key) /\ DOMAIN Flow = 1 .. Len(Flow) /\ Len(Flow) \in Nat
          BY <1>0, FlowTypes, LenProperties
      <4>3. ~ (Len(o) < i)
        <5>1. ASSUME Len(o) < i PROVE FALSE
          <6>1. Pos(Flow[Len(o)]) < Pos(Flow[i])
              BY <2>1, <2>4, <2>5, <5>1 DEF Ordered
          <6>2. Flow[Len(o)] = c
              BY <2>4, <2>5
          <6>3. Pos(c) < Pos(k)
              BY <4>1, <6>1, <6>2
          <6> QED BY <2>2, <2>9, <3>1, <6>3
        <5> QED BY <5>1
      <4>4. i \in DOMAIN o
          BY <2>4, <4>1, <4>2, <4>3
      <4>5. o[i] = k
          BY <2>4, <4>1, <4>4
      <4> QED BY <2>7, <2>8, <4>4, <4>5 DEF Listed
    <3>5. CASE AllAhead(Flow, k)
      <4>1. Ahead(c, k)
          BY <2>4, <2>5, <3>5 DEF AllAhead
      <4>2. Pos(c) < Pos(k)
          BY <2>1, <4>1 DEF Ahead
      <4> QED BY <2>2, <2>9, <3>1, <4>2
    <3> QED BY <3>2, <3>3, <3>4, <3>5 DEF Accounted
  <2>10. ASSUME c \in Steady PROVE Present(c) /\ UnderPrefix(c)
    <3>1. OutRow(scan.out[Len(o)]) /\ scan.out[Len(o)].key = c
        BY <2>3, <2>5 DEF RowsTrue
    <3>2. Present(c) /\ Sought(StoredKey(c))
        BY <2>10, <3>1 DEF OutRow
    <3> QED BY <2>1, <3>2 DEF Sought, StoredKey
  <2>11. ~ scan'.started => scan'.at < Pos(c) /\ scan'.at <= Pos(c)
    <3>1. ~ scan'.started => scan'.at = 0
        BY <1>3
    <3> QED BY <2>2, <3>1
  <2>12. Cursored'
      BY <1>3, <1>4, <1>5, <2>9, <2>10, <2>11 DEF Cursored
  <2>13. ScanTypes' /\ Underway'
      BY ResumeTypes
  <2>14. Settled' /\ Ordered'
      BY ResumeFlow
  <2>15. scan'.at <= Pos(c)
    <3>1. scan'.at = Pos(c) \/ scan'.at = 0
        BY <1>3, <2>2
    <3> QED BY <2>2, <3>1
  <2>16. Pos(scan.cursor)' = Pos(c)
    <3>1. Pos(c)' = Pos(c)
        BY <1>5
    <3> QED BY <1>3, <3>1
  <2>17. scan'.at <= Pos(scan.cursor)'
      BY <2>15, <2>16
  <2>18. OpenFacts'
      BY <1>3, <1>4, <1>6, <2>12, <2>13, <2>14, <2>17 DEF OpenFacts, Settled
  <2> QED BY <2>12, <2>18, NextAccounted
<1> QED BY <1>7, <1>8

LEMMA SteppedFinished == ASSUME ScanTypes, Grounded, Stepped PROVE Finished'
<1>0. Underway /\ Typed
    BY TypedFields DEF Stepped, Fetch, NextPart, List, Confirm, Bring, Take, Flush, Yield, End, Underway
<1>1. CASE Fetch \/ NextPart \/ List \/ Confirm \/ Bring \/ Flush
  <2>1. scan'.step # "done"
      BY <1>1, FetchEffect, NextPartEffect, ListEffect, ConfirmEffect, BringEffect, FlushEffect
  <2> QED BY <2>1 DEF Finished
<1>2. CASE Take
  <2>1. Same /\ (scan'.step = "done" => LimitReached /\ scan'.out = scan.out)
      BY <1>2, TakeEffect
  <2>2. scan'.step = "done" => LimitReached'
      BY <2>1 DEF LimitReached, Same
  <2> QED BY <2>2 DEF Finished
<1>3. CASE Yield
  <2>1. PICK r \in Row : r = Head(scan.pending)
    <3>1. scan.pending # <<>> /\ scan.pending \in Seq(Row)
        BY <1>0, <1>3, DueFacts DEF Yield, Typed, Grounded
    <3> QED BY <3>1, TailElements
  <2>2. PICK w \in Row : w = ProjectRow(r, scan.spec.project)
      BY ProjectRowTypes
  <2>3. /\ scan'.spec = scan.spec
        /\ scan'.step = "done" =>
             Reached(Len(scan.out) + 1, scan.spec.limit) /\ scan'.out = Append(scan.out, w)
      BY <1>3, <2>1, <2>2, YieldEffect DEF Same
  <2>4. Len(Append(scan.out, w)) = Len(scan.out) + 1
      BY <1>0, AppendProperties DEF Typed
  <2>5. scan'.step = "done" => LimitReached'
      BY <2>3, <2>4 DEF LimitReached
  <2> QED BY <2>5 DEF Finished
<1>4. CASE End
  <2>1. Same /\ SamePlace /\ SameSource /\ SameCascade
      BY <1>4, EndEffect
  <2>2. /\ scan.ready = <<>> /\ scan.batch = <<>> /\ scan.page = <<>> /\ scan.ended
        /\ scan.part = Len(Scanned) /\ (scan.pending = <<>> \/ LimitReached)
      BY <1>0, <1>4, DueFacts DEF End
  <2>3. LimitReached' = LimitReached /\ Scanned' = Scanned
      BY <2>1, SameOperators DEF LimitReached, Same, SameCascade
  <2> QED BY <2>1, <2>2, <2>3 DEF Finished, SamePlace, SameSource, SameCascade
<1> QED BY <1>1, <1>2, <1>3, <1>4 DEF Stepped

\* A scan that begins.
LEMMA BegunAccounted ==
    ASSUME NEW spec, NEW cursor, scan' = Begun(spec, cursor)
    PROVE  Counted' /\ Finished'
<1>1. /\ scan'.step = "listing" /\ scan'.out = <<>> /\ scan'.ready = <<>> /\ scan'.passed = 0
      /\ scan'.given = 0
    BY DEF Begun
<1>2. Reaching' = 0
    BY <1>1 DEF Reaching
<1> QED BY <1>1, <1>2 DEF Counted, Finished

LEMMA ScanRowsOfAccounted ==
    ASSUME Filtering, ScanTypes, NEW spec \in Specs, ScanRowsOf(spec), touched = {}, resumes = 0,
           listed = <<>>, ~ Refuses(spec)
    PROVE  Cursored' /\ AllAccounted'
<1>1. scan' = Begun(spec, None) /\ UNCHANGED <<data, old, store, listed, touched, writes, resumes>>
    BY DEF ScanRowsOf
<1>2. resumes' = 0 /\ ~ (resumes' > 0)
    BY <1>1
<1>3. Cursored'
    BY <1>2 DEF Cursored
<1>4. scan'.part = 1 /\ scan'.ended = FALSE /\ scan'.seen = {} /\ scan'.at = 0
  <2>1. scan'.part = 1 /\ scan'.ended = FALSE /\ scan'.seen = {}
      BY <1>1 DEF Begun
  <2>2. scan'.at = (IF store.leaf = "sql" /\ None # None THEN Position(Listing, None) ELSE 0)
      BY <1>1, BegunFlow
  <2> QED BY <2>1, <2>2
<1>5. Flow' = <<>>
    BY <1>1, BegunFlow
<1>6. Paging' /\ Ordered'
    BY ScanRowsOfFlow DEF Settled
<1>7. ScanTypes' /\ Underway'
    BY ScanRowsOfTypes
<1>8. OpenFacts'
    BY <1>2, <1>3, <1>4, <1>5, <1>6, <1>7 DEF OpenFacts
<1> QED BY <1>3, <1>8, NextAccounted

\* What another client writes is no longer among the records nobody wrote.
LEMMA WriteAccounted ==
    ASSUME ScanTypes, NEW p \in Parts, NEW j \in Key, NEW v \in Value \cup {None}, Write(p, j, v),
           Counted, Cursored, AllAccounted, Finished
    PROVE  Counted' /\ Cursored' /\ AllAccounted' /\ Finished'
<1>0. Underway /\ Typed
    BY TypedFields DEF Write, Underway
<1>1. UNCHANGED <<store, scan, listed, resumes>>
    BY DEF Write
<1>2. /\ Order' = Order /\ Scanned' = Scanned
      /\ \A k : Caller(k)' = Caller(k) /\ Pos(k)' = Pos(k) /\ UnderPrefix(k)' = UnderPrefix(k)
      /\ \A k \in Steady' : k \in Steady /\ k \in Key
      /\ \A k \in Steady' : Present(k)' = Present(k)
      /\ \A k \in Steady' : PartOf(k)' = PartOf(k)
      /\ \A k \in Steady' : Matches(k)' = Matches(k)
    BY WriteSame
<1>3. /\ LimitReached' = LimitReached /\ Unfiltered' = Unfiltered /\ Reaching' = Reaching
      /\ LimitUnderFilter' = LimitUnderFilter /\ CursorViews' = CursorViews
      /\ (\A k : Listed(k)' = Listed(k))
    BY <1>1 DEF LimitReached, Unfiltered, Reaching, LimitUnderFilter, CursorViews, Listed
<1>4. Counted' /\ Finished'
    BY <1>1, <1>2, <1>3 DEF Counted, Finished
<1>5. Cursored'
  <2>1. PICK c : c = scan.cursor
      OBVIOUS
  <2>2. c \in Steady' => c \in Steady /\ Present(c)' = Present(c)
      BY <1>2
  <2>3. Pos(c)' = Pos(c) /\ UnderPrefix(c)' = UnderPrefix(c) /\ scan'.cursor = c
      BY <1>1, <1>2, <2>1
  <2> SUFFICES ASSUME resumes > 0, CursorViews
               PROVE  /\ ~ LimitUnderFilter =>
                           \A k \in Steady' : Matches(k)' /\ Pos(k)' <= Pos(c)' => Listed(k)'
                      /\ c \in Steady' => Present(c)' /\ UnderPrefix(c)'
                      /\ ~ scan.started /\ c \in Steady' =>
                           /\ ~ scan.ended /\ scan.at <= Pos(c)'
                           /\ scan.page = <<>> => scan.at < Pos(c)'
      BY <1>1, <1>3, <2>1, <2>3 DEF Cursored
  <2>4. /\ ~ LimitUnderFilter => \A k \in Steady : Matches(k) /\ Pos(k) <= Pos(c) => Listed(k)
        /\ c \in Steady => Present(c) /\ UnderPrefix(c)
        /\ ~ scan.started /\ c \in Steady =>
             ~ scan.ended /\ scan.at <= Pos(c) /\ (scan.page = <<>> => scan.at < Pos(c))
      BY <2>1 DEF Cursored
  <2>5. ~ LimitUnderFilter => \A k \in Steady' : Matches(k)' /\ Pos(k)' <= Pos(c)' => Listed(k)'
      BY <1>2, <1>3, <2>4
  <2> QED BY <2>2, <2>3, <2>4, <2>5
<1>6. Kept' = Kept
    BY <1>1 DEF Kept
<1>7. Flow' = Flow
  <2>1. CallersOf(scan.page)' = CallersOf(scan.page)
      BY <1>1, <1>2, Zenon DEF CallersOf
  <2> QED BY <1>6, <2>1, Zenon DEF Flow
<1>8. ASSUME NEW y, NEW k \in Steady', Ahead(y, k) PROVE Ahead(y, k)'
  <2>1. CASE store.view = "union"
    <3>1. ASSUME y \in Steady' PROVE Before(y, k)'
      <4>1. Before(y, k)
          BY <1>2, <1>8, <2>1, <3>1 DEF Ahead
      <4>2. Before(y, k)' = (PartOf(y)' < PartOf(k)' \/ (PartOf(y)' = PartOf(k)' /\ Pos(y)' < Pos(k)'))
          BY DEF Before, Rank, PartOf, Pos
      <4>3. PartOf(y)' = PartOf(y) /\ PartOf(k)' = PartOf(k) /\ Pos(y)' = Pos(y) /\ Pos(k)' = Pos(k)
          BY <1>2, <3>1
      <4> QED BY <4>1, <4>2, <4>3, BeforeRank
    <3> QED BY <1>1, <2>1, <3>1 DEF Ahead
  <2>2. CASE store.view # "union"
      BY <1>1, <1>2, <1>8, <2>2 DEF Ahead
  <2> QED BY <2>1, <2>2
<1>9. CursorOk' => CursorOk
    BY <1>1, <1>2, <1>3 DEF CursorOk
<1>10. ASSUME CursorOk', ~ LimitUnderFilter, NEW k \in Steady', Matches(k)'
       PROVE  Accounted(k)' /\ (k \in scan'.seen => \E i \in DOMAIN Kept' : Kept'[i] = k)
  <2>1. k \in Steady /\ Matches(k) /\ PartOf(k)' = PartOf(k) /\ Pos(k)' = Pos(k)
      BY <1>2, <1>10
  <2>2. Accounted(k) /\ (k \in scan.seen => \E i \in DOMAIN Kept : Kept[i] = k)
      BY <1>9, <1>10, <2>1 DEF AllAccounted
  <2>3. Leading(Flow, k) => Leading(Flow, k)'
    <3>1. ASSUME NEW i \in DOMAIN Flow, Flow[i] = k, \A m \in DOMAIN Flow : m < i => Ahead(Flow[m], k)
          PROVE  Leading(Flow, k)'
      <4>1. PICK t : t = Flow
          OBVIOUS
      <4>2. \A m \in DOMAIN t : m < i => Ahead(t[m], k)'
          BY <1>8, <3>1, <4>1
      <4>3. \A m \in DOMAIN t : m < i => Ahead(Flow[m], k)'
          BY <1>7, <4>1, <4>2
      <4> QED BY <1>7, <3>1, <4>1, <4>3 DEF Leading
    <3> QED BY <3>1 DEF Leading
  <2>4. AllAhead(Flow, k) => AllAhead(Flow, k)'
    <3>1. ASSUME AllAhead(Flow, k) PROVE AllAhead(Flow, k)'
      <4>1. PICK t : t = Flow
          OBVIOUS
      <4>2. \A m \in DOMAIN t : Ahead(t[m], k)'
          BY <1>8, <3>1, <4>1 DEF AllAhead
      <4>3. \A m \in DOMAIN t : Ahead(Flow[m], k)'
          BY <1>7, <4>1, <4>2
      <4> QED BY <1>7, <4>1, <4>3 DEF AllAhead
    <3> QED BY <3>1
  <2>5. (Unreached(k) => Unreached(k)') /\ (Stopped => Stopped')
      BY <1>1, <1>3, <2>1 DEF Unreached, Stopped
  <2> QED BY <1>1, <1>3, <1>6, <2>2, <2>3, <2>4, <2>5 DEF Accounted
<1>11. AllAccounted'
    BY <1>3, <1>10 DEF AllAccounted
<1> QED BY <1>4, <1>5, <1>11

LEMMA SameAccounted ==
    ASSUME Same, UNCHANGED scan, Counted, Cursored, AllAccounted, Finished
    PROVE  Counted' /\ Cursored' /\ AllAccounted' /\ Finished'
<1>1. /\ Order' = Order /\ Scanned' = Scanned /\ Steady' = Steady
      /\ LimitUnderFilter' = LimitUnderFilter /\ Unfiltered' = Unfiltered
      /\ \A k : /\ Caller(k)' = Caller(k) /\ Pos(k)' = Pos(k) /\ UnderPrefix(k)' = UnderPrefix(k)
                /\ Present(k)' = Present(k) /\ PartOf(k)' = PartOf(k) /\ Matches(k)' = Matches(k)
                /\ Listed(k)' = Listed(k)
    BY SameOperators, SamePlaces, UnfilteredSame
<1>2. /\ LimitReached' = LimitReached /\ Reaching' = Reaching /\ CursorViews' = CursorViews
      /\ store' = store /\ resumes' = resumes
    BY DEF LimitReached, Reaching, CursorViews, Same
<1>3. Counted' /\ Finished'
    BY <1>1, <1>2 DEF Counted, Finished
<1>4. Cursored'
  <2>1. PICK c : c = scan.cursor
      OBVIOUS
  <2>2. Pos(c)' = Pos(c) /\ UnderPrefix(c)' = UnderPrefix(c) /\ Present(c)' = Present(c)
      BY <1>1
  <2> QED BY <1>1, <1>2, <2>1, <2>2 DEF Cursored
<1>5. Kept' = Kept
    BY DEF Kept
<1>6. Flow' = Flow
  <2>1. CallersOf(scan.page)' = CallersOf(scan.page)
      BY <1>1, Zenon DEF CallersOf
  <2> QED BY <1>5, <2>1, Zenon DEF Flow
<1>7. CursorOk' = CursorOk
    BY <1>1, <1>2 DEF CursorOk
<1>8. ASSUME NEW k, Accounted(k) PROVE Accounted(k)'
  <2>1. (Unreached(k) => Unreached(k)') /\ (Stopped => Stopped')
      BY <1>1, <1>2 DEF Unreached, Stopped
  <2>2. /\ Leading(Flow, k) => Leading(Flow, k)'
        /\ AllAhead(Flow, k) => AllAhead(Flow, k)'
        /\ Listed(k) => Listed(k)'
      BY <1>6, SameLeads
  <2> QED BY <1>8, <2>1, <2>2 DEF Accounted
<1>9. AllAccounted'
    BY <1>1, <1>5, <1>7, <1>8 DEF AllAccounted
<1> QED BY <1>3, <1>4, <1>9

LEMMA NextAcctInv ==
    ASSUME Filtering, ScanTypes, Grounded, RowInv, FlowInv, AcctInv, [ScanNext]_scanVars PROVE AcctInv'
<1>1. ASSUME NEW spec \in Specs, ScanRowsOf(spec) PROVE AcctInv'
  <2>1. CASE Refuses(spec)
    <3>1. scan' = [Begun(spec, None) EXCEPT !.step = "refused"]
        BY <1>1, <2>1 DEF ScanRowsOf
    <3>2. scan'.step = "refused"
        BY <3>1 DEF Begun
    <3> QED BY <3>2 DEF AcctInv, Active
  <2>2. CASE ~ Refuses(spec)
    <3>1. scan' = Begun(spec, None) /\ scan.step = "idle"
        BY <1>1, <2>2 DEF ScanRowsOf
    <3>2. Cursored' /\ AllAccounted'
        BY <1>1, <2>2, <3>1, ScanRowsOfAccounted DEF FlowInv
    <3> QED BY <3>1, <3>2, BegunAccounted DEF AcctInv
  <2> QED BY <2>1, <2>2
<1>2. CASE Stepped
  <2>1. Active
      BY <1>2 DEF Stepped, Fetch, NextPart, List, Confirm, Bring, Take, Flush, Yield, End, Active
  <2>2. /\ Meant /\ Settled /\ Ordered /\ Paged /\ RowsTrue /\ Counted /\ Cursored /\ AllAccounted
        /\ Opening
      BY <2>1 DEF RowInv, FlowInv, AcctInv, Settled
  <2>3. Counted' /\ Finished'
      BY <1>2, <2>2, SteppedCounted, SteppedFinished
  <2>4. Cursored' /\ AllAccounted'
      BY <1>2, <2>2, SteppedCursored, SteppedAccounted
  <2> QED BY <2>3, <2>4 DEF AcctInv
<1>3. CASE Resume
  <2>1. scan' = Begun(scan.spec, scan.out[Len(scan.out)].key) /\ Active
      BY <1>3 DEF Resume, Active
  <2>2. Counted' /\ Finished'
      BY <2>1, BegunAccounted
  <2>3. Meant /\ Settled /\ Ordered /\ Paged /\ RowsTrue /\ AllAccounted
      BY <2>1 DEF RowInv, FlowInv, AcctInv
  <2>4. Cursored' /\ AllAccounted'
      BY <1>3, <2>3, ResumeAccounted
  <2> QED BY <2>2, <2>4 DEF AcctInv
<1>4. CASE DeleteWhere
    BY <1>4, DeleteWhereTypes DEF AcctInv, Active
<1>5. ASSUME NEW p \in Parts, NEW k \in Key, NEW v \in Value \cup {None}, Write(p, k, v)
      PROVE  AcctInv'
  <2>1. Active
      BY <1>5 DEF Write, Active
  <2>2. Counted' /\ Cursored' /\ AllAccounted' /\ Finished'
      BY <1>5, <2>1, WriteAccounted DEF AcctInv
  <2> QED BY <2>2 DEF AcctInv
<1>6. CASE UNCHANGED scanVars
  <2>1. Same /\ UNCHANGED scan
      BY <1>6 DEF scanVars, Same
  <2>2. Active' => Active
      BY <2>1 DEF Active
  <2> QED BY <2>1, <2>2, SameAccounted DEF AcctInv
<1> QED BY <1>1, <1>2, <1>3, <1>4, <1>5, <1>6 DEF ScanNext, Stepped

LEMMA AccountedPasses ==
    ASSUME Filtering, ScanTypes, Grounded, RowInv, FlowInv, AcctInv PROVE PassesOverNothing
<1> SUFFICES ASSUME scan.step = "done", CursorHolds, ~ LimitUnderFilter, NEW k \in Steady, Matches(k),
                    \A i \in DOMAIN AllListed : AllListed[i] # k
             PROVE  LimitReached /\ \A j \in OutKeys \cap Steady : Before(j, k)
    BY DEF PassesOverNothing
<1>0. Underway /\ Typed /\ Active /\ listed \in Seq(Key)
    BY TypedFields DEF Underway, Active, ScanTypes
<1>1. AllAccounted /\ Finished /\ RowsTrue /\ CursorOk
  <2>1. CursorOk
      BY DEF CursorHolds, CursorOk, CursorViews
  <2> QED BY <1>0, <2>1 DEF AcctInv, RowInv
<1>2. Accounted(k)
    BY <1>1 DEF AllAccounted
<1>3. PICK o \in Seq(Key) : /\ o = KeysOf(scan.out) /\ Len(o) = Len(scan.out) /\ DOMAIN o = DOMAIN scan.out
                            /\ \A i \in DOMAIN o : o[i] = scan.out[i].key
    BY <1>0, KeysOfRows DEF Typed
<1>4. /\ \A i \in DOMAIN o : i \in DOMAIN Flow /\ Flow[i] = o[i]
      /\ Len(o) \in Nat /\ DOMAIN o = 1 .. Len(o)
    BY <1>0, <1>3, Embedded
<1>5. (\A i \in DOMAIN listed : listed[i] # k) /\ (\A i \in DOMAIN o : o[i] # k)
  <2>1. PICK t \in Seq(Key) : t = listed \o o /\ AllListed = t
    <3>1. listed \o o \in Seq(Key)
        BY <1>0, KeySeqs, Zenon
    <3> QED BY <1>3, <3>1, Zenon DEF AllListed
  <2>2. /\ Len(listed) \in Nat /\ DOMAIN listed = 1 .. Len(listed)
        /\ DOMAIN t = 1 .. Len(listed) + Len(o)
        /\ \A i \in 1 .. Len(listed) : t[i] = listed[i]
        /\ \A i \in 1 .. Len(o) : t[Len(listed) + i] = o[i]
      BY <1>0, <2>1, ConcatElements
  <2>3. \A i \in DOMAIN listed : i \in DOMAIN t /\ t[i] = listed[i]
      BY <1>4, <2>2
  <2>4. \A i \in DOMAIN o : Len(listed) + i \in DOMAIN t /\ t[Len(listed) + i] = o[i]
      BY <1>4, <2>2
  <2>5. \A i \in DOMAIN t : t[i] # k
      BY <2>1
  <2> QED BY <2>3, <2>4, <2>5
<1>6. ~ Listed(k)
    BY <1>5 DEF Listed
<1>7. /\ k \in Key /\ PartOf(k) \in {1, 2} /\ (store.view # "union" => PartOf(k) = 1)
    BY <1>0, MatchFacts DEF Steady
<1>8. ASSUME NEW i \in DOMAIN o, Ahead(o[i], k), o[i] \in Steady PROVE Before(o[i], k)
  <2>1. CASE store.view = "union"
      BY <1>8, <2>1 DEF Ahead
  <2>2. CASE store.view # "union"
    <3>1. OutRow(scan.out[i]) /\ scan.out[i].key = o[i]
        BY <1>1, <1>3, <1>8 DEF RowsTrue
    <3>2. PartOf(o[i]) = 1
        BY <1>8, <2>2, <3>1 DEF OutRow, Present, PartOf
    <3>3. Pos(o[i]) < Pos(k) /\ PartOf(k) = 1
        BY <1>7, <1>8, <2>2 DEF Ahead
    <3> QED BY <3>2, <3>3, BeforeRank
  <2> QED BY <2>1, <2>2
<1>9. ASSUME \A i \in DOMAIN o : Ahead(o[i], k) PROVE \A j \in OutKeys \cap Steady : Before(j, k)
    BY <1>3, <1>8, <1>9 DEF OutKeys
<1>10. ASSUME AllAhead(Flow, k) PROVE \A i \in DOMAIN o : Ahead(o[i], k)
    BY <1>4, <1>10 DEF AllAhead
<1>11. ASSUME Leading(Flow, k) PROVE (\A i \in DOMAIN o : Ahead(o[i], k)) /\ Flow # o
  <2>1. PICK i \in DOMAIN Flow : Flow[i] = k /\ \A m \in DOMAIN Flow : m < i => Ahead(Flow[m], k)
      BY <1>11 DEF Leading
  <2>2. Flow # o /\ i \notin DOMAIN o
      BY <1>4, <1>5, <2>1
  <2>3. DOMAIN Flow = 1 .. Len(Flow) /\ Len(Flow) \in Nat
      BY <1>0, FlowTypes, LenProperties
  <2>4. \A m \in DOMAIN o : m < i
      BY <1>4, <2>1, <2>2, <2>3
  <2> QED BY <1>4, <2>1, <2>2, <2>4
<1>12. CASE LimitReached
    BY <1>2, <1>6, <1>9, <1>10, <1>11, <1>12 DEF Accounted
<1>13. CASE /\ scan.pending = <<>> /\ scan.ready = <<>> /\ scan.batch = <<>> /\ scan.page = <<>>
            /\ scan.ended /\ scan.part = Len(Scanned)
  <2>1. Flow = o
    <3>1. KeysOf(scan.pending) = <<>> /\ KeysOf(scan.ready) = <<>> /\ KeysOf(scan.batch) = <<>>
        BY <1>13, NoKeys
    <3>2. CallersOf(scan.page) = <<>>
        BY <1>0, <1>13, CallersOfRows DEF Typed
    <3>3. o \o <<>> = o
        BY KeySeqs, Zenon
    <3> QED BY <1>3, <3>1, <3>2, <3>3, Zenon DEF Flow, Kept
  <2>2. ~ Leading(Flow, k)
      BY <1>11, <2>1
  <2>3. ~ Unreached(k)
    <3>1. Len(Scanned) = IF store.view = "union" THEN 2 ELSE 1
        BY <1>0, ScannedTypes
    <3> QED BY <1>7, <1>13, <3>1 DEF Unreached
  <2>4. Stopped /\ AllAhead(Flow, k)
      BY <1>2, <1>6, <2>2, <2>3 DEF Accounted
  <2>5. LimitReached
    <3>1. Reaching = Len(scan.out)
      <4>1. Len(scan.ready) = 0 /\ Len(scan.out) \in Nat
          BY <1>3, <1>4, <1>13
      <4> QED BY <4>1 DEF Reaching
    <3> QED BY <2>4, <3>1 DEF Stopped, LimitReached
  <2> QED BY <1>9, <1>10, <2>4, <2>5
<1> QED BY <1>1, <1>12, <1>13 DEF Finished

\* Whenever a scan ends, every record that matches and that nobody wrote meanwhile
\* was returned, on this page or an earlier one, unless the limit was reached by
\* matches that come before it: for any leaf, view, filter, page size and limit and
\* any writes to the other records (apply_cascade, compile_scan, iter_present).
THEOREM FilteringPassesOverNothing == ASSUME Filtering PROVE ScanSpec => []PassesOverNothing
<1>1. ScanInit => RowInv /\ FlowInv /\ AcctInv
    BY DEF ScanInit, Idle, RowInv, FlowInv, AcctInv, Active
<1>2. ScanTypes /\ Grounded /\ RowInv /\ FlowInv /\ AcctInv /\ [ScanNext]_scanVars
        => RowInv' /\ FlowInv' /\ AcctInv'
    BY NextRowInv, NextFlowInv, NextAcctInv
<1>3. ScanTypes /\ Grounded /\ RowInv /\ FlowInv /\ AcctInv => PassesOverNothing
    BY AccountedPasses
<1> QED BY <1>1, <1>2, <1>3, ScanTyped, PTL DEF ScanSpec

\* What delete_where takes away: the keys it listed, and nothing else.
LEMMA DeleteTakes ==
    ASSUME ScanTypes, DeleteWhere, NEW k \in Key
    PROVE  /\ k \notin OutKeys => BatchGet(data', k) = BatchGet(data, k)
           /\ k \in OutKeys => BatchGet(data', k) = None
<1>0. Underway /\ Typed /\ store.view \in Views /\ store.view # "through"
    BY TypedFields, StoreTypes DEF DeleteWhere, Underway
<1>1. PICK j \in Key : /\ j = StoredKey(k)
                       /\ store.view # "rekeyed" => j = k
                       /\ store.view = "rekeyed" => j = ToStore(k)
    BY CallerTypes DEF StoredKey
<1> DEFINE gone == IF store.view = "rekeyed" THEN {ToStore(m) : m \in OutKeys} ELSE OutKeys
           parts == IF store.view \in {"commit", "union"} THEN Parts ELSE {1}
<1>2. data' = [p \in Parts |-> [m \in Key |-> IF p \in parts /\ m \in gone THEN None ELSE data[p][m]]]
    BY Zenon DEF DeleteWhere, OutKeys
<1>3. \A p \in {1, 2} : data'[p][j] = IF p \in parts /\ j \in gone THEN None ELSE data[p][j]
  <2> HIDE DEF gone, parts
  <2> QED BY <1>2 DEF Parts
<1>4. j \in gone <=> k \in OutKeys
  <2>1. CASE store.view = "rekeyed"
    <3>1. OutKeys \subseteq Key
        BY <1>0, Embedded DEF OutKeys
    <3>2. \A m \in OutKeys : ToStore(m) = j => m = k
        BY <1>1, <2>1, <3>1, ToStoreTypes
    <3> QED BY <1>1, <2>1, <3>2
  <2>2. CASE store.view # "rekeyed"
      BY <1>1, <2>2
  <2> QED BY <2>1, <2>2
<1>5. 1 \in parts /\ (store.view \in {"commit", "union"} => 2 \in parts)
    BY DEF Parts
<1> HIDE DEF gone, parts
<1>6. ASSUME k \notin OutKeys PROVE BatchGet(data', k) = BatchGet(data, k)
  <2>1. data'[1][j] = data[1][j] /\ data'[2][j] = data[2][j]
      BY <1>3, <1>4, <1>6
  <2>2. CASE store.view = "rekeyed"
      BY <1>1, <2>1, <2>2 DEF BatchGet
  <2>3. CASE store.view # "rekeyed"
    <3>1. data'[1][k] = data[1][k] /\ data'[2][k] = data[2][k]
        BY <1>1, <2>1, <2>3
    <3>2. store.view \in {"leaf", "mapped", "commit", "union"}
        BY <1>0, <2>3 DEF Views
    <3> QED BY <3>1, <3>2 DEF BatchGet
  <2> QED BY <2>2, <2>3
<1>7. ASSUME k \in OutKeys PROVE BatchGet(data', k) = None
  <2>1. data'[1][j] = None /\ (store.view \in {"commit", "union"} => data'[2][j] = None)
      BY <1>3, <1>4, <1>5, <1>7
  <2>2. CASE store.view = "rekeyed"
      BY <1>1, <2>1, <2>2 DEF BatchGet
  <2>3. CASE store.view # "rekeyed"
    <3>1. data'[1][k] = None /\ (store.view \in {"commit", "union"} => data'[2][k] = None)
        BY <1>1, <2>1, <2>3
    <3>2. store.view \in {"leaf", "mapped", "commit", "union"}
        BY <1>0, <2>3 DEF Views
    <3> QED BY <3>1, <3>2 DEF BatchGet
  <2> QED BY <2>2, <2>3
<1> QED BY <1>6, <1>7

LEMMA DeletesListed ==
    ASSUME ScanTypes, RowInv, FlowInv, PassesOverNothing, DeleteWhere, NEW k \in Steady
    PROVE  LET gone == BatchGet(data, k) # None /\ BatchGet(data', k) = None
           IN /\ gone => Matches(k) \/ TakenForUnder(k)
              /\ ~ gone => ~ Matches(k) \/ LimitReached \/ LimitUnderFilter
<1>0. Underway /\ Typed /\ Active /\ k \in Key /\ scan.step = "done" /\ scan.spec.delete /\ store.view # "through"
    BY TypedFields DEF DeleteWhere, Underway, Active, Steady
<1>1. /\ k \notin OutKeys => BatchGet(data', k) = BatchGet(data, k)
      /\ k \in OutKeys => BatchGet(data', k) = None
    BY <1>0, DeleteTakes
<1>2. scan.spec.project = "keys"
    BY <1>0, SpecsAssumption DEF Typed
<1>3. ASSUME k \in OutKeys PROVE Matches(k) \/ TakenForUnder(k)
  <2>1. PICK i \in DOMAIN scan.out : scan.out[i].key = k
      BY <1>3 DEF OutKeys
  <2>2. Deserved(scan.out[i])
      BY <1>0, <2>1 DEF RowInv, RowsTrue, OutRow
  <2> QED BY <1>2, <2>1, <2>2 DEF Deserved
<1>4. ASSUME k \notin OutKeys, Matches(k), ~ LimitUnderFilter PROVE LimitReached
  <2>1. resumes \in Nat /\ ~ (resumes > 0)
      BY <1>0, ScanAssumption DEF FlowInv, Settled, Paging, ScanTypes
  <2>2. CursorHolds
      BY <2>1 DEF CursorHolds
  <2>3. listed = <<>>
      BY <1>0, <2>1 DEF FlowInv, Settled, Paging
  <2>4. PICK o \in Seq(Key) : /\ o = KeysOf(scan.out) /\ DOMAIN o = DOMAIN scan.out
                              /\ \A i \in DOMAIN o : o[i] = scan.out[i].key
      BY <1>0, KeysOfRows DEF Typed
  <2>5. AllListed = o
    <3>1. <<>> \o o = o
        BY KeySeqs, Zenon
    <3> QED BY <2>3, <2>4, <3>1, Zenon DEF AllListed
  <2>6. \A i \in DOMAIN AllListed : AllListed[i] # k
      BY <1>4, <2>4, <2>5 DEF OutKeys
  <2> QED BY <1>0, <1>4, <2>2, <2>6 DEF PassesOverNothing
<1>5. Matches(k) => BatchGet(data, k) # None
    BY <1>0 DEF Matches, Holds
<1> QED BY <1>1, <1>3, <1>4, <1>5

\* delete_where deletes the records that match and no others, among those nobody
\* wrote meanwhile, for any leaf, view and filter; the keys SQLite takes for the
\* prefix and what a limit leaves are set aside.
THEOREM FilteringDeletesTheMatches == ASSUME Filtering PROVE ScanSpec => DeletesTheMatches
<1>1. ScanInit => RowInv /\ FlowInv /\ AcctInv
    BY DEF ScanInit, Idle, RowInv, FlowInv, AcctInv, Active
<1>2. ScanTypes /\ Grounded /\ RowInv /\ FlowInv /\ AcctInv /\ [ScanNext]_scanVars
        => RowInv' /\ FlowInv' /\ AcctInv'
    BY NextRowInv, NextFlowInv, NextAcctInv
<1>3. ScanTypes /\ Grounded /\ RowInv /\ FlowInv /\ AcctInv /\ [ScanNext]_scanVars
        => [scan'.step = "deleted" =>
             \A k \in Steady :
                LET gone == BatchGet(data, k) # None /\ BatchGet(data', k) = None
                IN /\ gone => Matches(k) \/ TakenForUnder(k)
                   /\ ~ gone => ~ Matches(k) \/ LimitReached \/ LimitUnderFilter]_scanVars
  <2> SUFFICES ASSUME ScanTypes, Grounded, RowInv, FlowInv, AcctInv, ScanNext, scan'.step = "deleted",
                      NEW k \in Steady
               PROVE  LET gone == BatchGet(data, k) # None /\ BatchGet(data', k) = None
                      IN /\ gone => Matches(k) \/ TakenForUnder(k)
                         /\ ~ gone => ~ Matches(k) \/ LimitReached \/ LimitUnderFilter
      OBVIOUS
  <2>1. ASSUME NEW spec \in Specs, ScanRowsOf(spec) PROVE FALSE
      BY <2>1 DEF ScanRowsOf, Begun
  <2>2. ~ Stepped
      BY FetchEffect, NextPartEffect, ListEffect, ConfirmEffect, BringEffect, TakeEffect, FlushEffect,
         YieldEffect, EndEffect DEF Stepped
  <2>3. ~ Resume
      BY DEF Resume, Begun
  <2>4. ASSUME NEW p \in Parts, NEW j \in Key, NEW v \in Value \cup {None}, Write(p, j, v) PROVE FALSE
      BY <2>4 DEF Write
  <2>5. DeleteWhere
      BY <2>1, <2>2, <2>3, <2>4 DEF ScanNext, Stepped
  <2>6. PassesOverNothing
      BY AccountedPasses
  <2> QED BY <2>5, <2>6, DeletesListed
<1> QED BY <1>1, <1>2, <1>3, ScanTyped, PTL DEF ScanSpec, DeletesTheMatches
=============================================================================
