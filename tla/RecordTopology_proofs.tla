------------------------ MODULE RecordTopology_proofs ------------------------
(***************************************************************************)
(* Theorems about RecordTopology, for every declaration, every set of      *)
(* callers and keys, and every bound.                                      *)
(***************************************************************************)
EXTENDS RecordTopology, TLAPS

\* The targets visited next are among those left to visit.
LEMMA FirstIsIn == ASSUME NEW S, NEW rank PROVE First(S, rank) \subseteq S
BY DEF First

\* The derived sets of targets are sets of targets.
LEMMA RolesPartition ==
    /\ Authority \subseteq Target /\ Components \subseteq Target
    /\ Dependents \subseteq Target /\ Fallbacks \subseteq Target
    /\ Committing \subseteq Target /\ Written \subseteq Target
    /\ RemovedNow \subseteq Committing
    /\ RemovedAfterCommit \subseteq Written
    /\ Consulted \subseteq Target
    /\ Written \cap Fallbacks = {}
BY DEF Authority, Components, Dependents, Fallbacks, ByRole, Committing, Written,
       RemovedNow, RemovedAfterCommit, Consulted

-----------------------------------------------------------------------------
\* A write to a target keeps the type of the media.
LEMMA StoreTypeOK ==
    ASSUME TypeOK, NEW t \in Target, NEW K, NEW v \in Val, Store(t, K, v)
    PROVE  held' \in [Target -> [Key -> Val]]
BY DEF TypeOK, Store

\* The history of a commit is well typed.
LEMMA RecordTypeOK ==
    ASSUME TypeOK, NEW t, NEW K, NEW v \in Val, Record(t, K, v)
    PROVE  /\ last' \in [Key -> Val]
           /\ past' \in [Key -> SUBSET Val]
           /\ owner' \in [Key -> Client]
BY DEF TypeOK, Record

\* What Finish and Continue leave in the variables they set.
CallTypeOK ==
    /\ op' \in [Client -> Busy \cup {"idle"}]
    /\ todo' \in [Client -> SUBSET Target]
    /\ puts' \in [Client -> SUBSET Key]
    /\ seen' \in [Client -> [Key -> Val]]
    /\ out' \in [Client -> Outcomes]

\* Nothing stored, and what was stored before, are values.
LEMMA AbsentIsVal == Absent \in Val /\ Old \in Val
BY BoundsAssumption DEF Absent, Old, Val

\* A call that returns leaves the call variables well typed.
LEMMA FinishTypeOK ==
    ASSUME TypeOK, NEW c \in Client, NEW outcome \in Outcomes, Finish(c, outcome)
    PROVE  CallTypeOK
BY AbsentIsVal DEF TypeOK, Finish, CallTypeOK

\* A call that goes on leaves the call variables well typed.
LEMMA ContinueTypeOK ==
    ASSUME TypeOK, NEW c \in Client, NEW what \in Busy,
           NEW rest \in SUBSET Target, Continue(c, what, rest)
    PROVE  CallTypeOK
<1>1. CASE rest = {}
  <2>1. Finish(c, "ok")
    BY <1>1 DEF Continue
  <2>2. "ok" \in Outcomes
    BY DEF Outcomes
  <2> QED
    BY <2>1, <2>2, FinishTypeOK
<1>2. CASE rest # {}
  <2>1. /\ op' = [op EXCEPT ![c] = what]
        /\ todo' = [todo EXCEPT ![c] = rest]
        /\ puts' = puts /\ seen' = seen /\ out' = out
    BY <1>2 DEF Continue
  <2> QED
    BY <2>1 DEF TypeOK, CallTypeOK
<1> QED
  BY <1>1, <1>2

\* A sync that failed and was settled leaves the call variables well typed.
LEMMA SettleTypeOK ==
    ASSUME TypeOK, NEW c \in Client, op[c] \in Busy, NEW t,
           NEW rest \in SUBSET Target, Settle(c, t, rest)
    PROVE  CallTypeOK
<1>1. CASE t \in Dependents \ Required
  BY <1>1, ContinueTypeOK DEF Settle
<1>2. CASE ~ (t \in Dependents \ Required)
  <2>1. Finish(c, "partial") /\ "partial" \in Outcomes
    BY <1>2 DEF Settle, Outcomes
  <2> QED
    BY <2>1, FinishTypeOK
<1> QED
  BY <1>1, <1>2

\* A call that raises leaves the call variables well typed.
LEMMA RaiseTypeOK ==
    ASSUME TypeOK, NEW t \in Target, NEW K \in SUBSET Key, NEW v \in Val, Raise(t, K, v)
    PROVE  /\ held' \in [Target -> [Key -> Val]]
           /\ fails' \in Nat
           /\ last' \in [Key -> Val]
           /\ past' \in [Key -> SUBSET Val]
           /\ owner' \in [Key -> Client]
<1>1. PICK S : Store(t, S, v) /\ Record(t, S, v)
  BY DEF Raise
<1>2. fails' \in Nat
  BY DEF Raise, TypeOK
<1> QED
  BY <1>1, <1>2, StoreTypeOK, RecordTypeOK

\* What a target receives of a record is a value.
LEMMA SlotValueTypeOK ==
    ASSUME TypeOK, NEW c \in Client, NEW t
    PROVE  SlotValue(c, t) \in Val
BY AbsentIsVal DEF TypeOK, SlotValue

\* What a call writes is a value.
LEMMA NewValueTypeOK ==
    ASSUME TypeOK, NEW c \in Client, NewValue(c)
    PROVE  /\ nextId' \in Nat
           /\ id' \in [Client -> Val]
           /\ slot' \in [Client -> [Target -> {"put", "none", "same"}]]
<1>1. PICK none \in SUBSET Optional :
        slot' = [slot EXCEPT ![c] =
                   [t \in Target |-> IF t \in none THEN "none" ELSE "put"]]
  BY DEF NewValue
<1>2. slot' \in [Client -> [Target -> {"put", "none", "same"}]]
  BY <1>1 DEF TypeOK
<1>3. nextId' \in Nat /\ id' \in [Client -> Val]
  BY BoundsAssumption DEF NewValue, TypeOK, Val
<1> QED
  BY <1>2, <1>3

\* A conditional write of the authority keeps media and history well typed.
LEMMA ApplyTypeOK ==
    ASSUME TypeOK, NEW c \in Client, NEW t \in Target, NEW W, Apply(c, t, W)
    PROVE  /\ held' \in [Target -> [Key -> Val]]
           /\ last' \in [Key -> Val]
           /\ past' \in [Key -> SUBSET Val]
           /\ owner' \in [Key -> Client]
<1> DEFINE new == [k \in Key |-> IF k \notin W THEN held[t][k]
                                 ELSE IF k \in puts[c] THEN id[c] ELSE Absent]
<1>1. new \in [Key -> Val]
  BY AbsentIsVal DEF TypeOK
<1>2. /\ held' = [held EXCEPT ![t] = new]
      /\ last' = [k \in Key |-> IF k \in W THEN new[k] ELSE last[k]]
      /\ past' = [k \in Key |-> IF k \in W THEN past[k] \cup {new[k]} ELSE past[k]]
      /\ owner' = owner
  BY DEF Apply
<1> HIDE DEF new
<1> QED
  BY <1>1, <1>2 DEF TypeOK

\* What follows a conditional commit starts well typed.
LEMMA AfterCommitTypeOK ==
    ASSUME TypeOK, NEW c \in Client, NEW W, AfterCommit(c, W)
    PROVE  CallTypeOK
<1>1. RemovedAfterCommit \subseteq Target /\ Dependents \subseteq Target
  BY RolesPartition
<1>2. "condDelete" \in Busy /\ "condSet" \in Busy
  BY DEF Busy
<1> QED
  BY <1>1, <1>2, ContinueTypeOK DEF AfterCommit

-----------------------------------------------------------------------------
(***************************************************************************)
(* Every step keeps the types.                                             *)
(***************************************************************************)
LEMMA StartTypeOK == ASSUME TypeOK, NEW c \in Client, Start(c) PROVE TypeOK'
<1> USE AbsentIsVal
<1>1. ASSUME NEW K \in SUBSET Key, StartWrite(c, K) PROVE TypeOK'
  <2>1. Written \subseteq Target
    BY RolesPartition
  <2>2. /\ nextId' \in Nat /\ id' \in [Client -> Val]
        /\ slot' \in [Client -> [Target -> {"put", "none", "same"}]]
    BY <1>1, NewValueTypeOK DEF StartWrite
  <2> QED
    BY <1>1, <2>1, <2>2 DEF TypeOK, StartWrite, Begin, Own, Busy, OpNames, Outcomes
<1>2. ASSUME NEW K \in SUBSET Key, StartDelete(c, K) PROVE TypeOK'
  <2>1. RemovedNow \cup RemovedAfterCommit \subseteq Target
    BY RolesPartition
  <2> QED
    BY <1>2, <2>1 DEF TypeOK, StartDelete, Begin, Own, Busy, OpNames, Outcomes
<1>3. ASSUME NEW K \in SUBSET Key, StartInsert(c, K) PROVE TypeOK'
  <2>1. Committing \subseteq Target
    BY RolesPartition
  <2>2. /\ nextId' \in Nat /\ id' \in [Client -> Val]
        /\ slot' \in [Client -> [Target -> {"put", "none", "same"}]]
    BY <1>3, NewValueTypeOK DEF StartInsert
  <2> QED
    BY <1>3, <2>1, <2>2 DEF TypeOK, StartInsert, Begin, Own, Busy, OpNames, Outcomes
<1>4. ASSUME NEW K \in SUBSET Key, StartUpdate(c, K) PROVE TypeOK'
  <2>1. PICK t \in Authority : seen' = [seen EXCEPT ![c] = held[t]]
    BY <1>4 DEF StartUpdate
  <2>2. held[t] \in [Key -> Val]
    BY <2>1, RolesPartition DEF TypeOK
  <2> QED
    BY <1>4, <2>1, <2>2 DEF TypeOK, StartUpdate, Begin, Own, Busy, OpNames, Outcomes
<1>5. ASSUME NEW k \in Key, StartGet(c, k) PROVE TypeOK'
  <2>1. Parts \cup Authority \subseteq Target /\ Consulted \subseteq Target
    BY RolesPartition, DeclarationAssumption DEF WellFormed
  <2> DEFINE what == IF Assembled THEN "assemble" ELSE "get"
             targets == IF Assembled THEN Parts \cup Authority ELSE Consulted
  <2>2. what \in Busy /\ targets \subseteq Target
    BY <2>1 DEF Busy
  <2>3. Begin(c, "get", what, {k}, targets)
    BY <1>5 DEF StartGet
  <2> HIDE DEF what, targets
  <2> QED
    BY <1>5, <2>2, <2>3 DEF TypeOK, StartGet, Begin, OpNames, Outcomes, history
<1> QED
  BY <1>1, <1>2, <1>3, <1>4, <1>5 DEF Start

\* Every step of a call under way keeps the types.
LEMMA StepTypeOK == ASSUME TypeOK, NEW c \in Client, Step(c) PROVE TypeOK'
<1> USE AbsentIsVal
<1>a. \A rank : First(todo[c], rank) \subseteq Target
  BY FirstIsIn DEF TypeOK
<1>b. \A t : todo[c] \ {t} \in SUBSET Target
  BY DEF TypeOK
<1>o. {"ok", "uncommitted", "partial", "error", "crashed"} \subseteq Outcomes
  BY DEF Outcomes
<1>u. /\ "write" \in Busy /\ "delete" \in Busy /\ "decide" \in Busy
      /\ "cond" \in Busy /\ "condDelete" \in Busy /\ "condSet" \in Busy
      /\ "get" \in Busy /\ "fill" \in Busy /\ "assemble" \in Busy
  BY DEF Busy
<1>1. ASSUME WriteTarget(c) PROVE TypeOK'
  <2>1. PICK t \in First(todo[c], CommitRank) :
          /\ Store(t, keys[c], SlotValue(c, t))
          /\ IF Authority = {} /\ t \in Components
             THEN RecordParts(todo[c] \ {t}, keys[c], id[c])
             ELSE Record(t, keys[c], id[c])
          /\ Continue(c, "write", todo[c] \ {t})
    BY <1>1 DEF WriteTarget
  <2>2. t \in Target /\ id[c] \in Val
    BY <1>a DEF TypeOK
  <2>3. held' \in [Target -> [Key -> Val]]
    BY <2>1, <2>2, SlotValueTypeOK, StoreTypeOK
  <2>4. CallTypeOK
    BY <2>1, <1>b, <1>u, ContinueTypeOK
  <2>5. /\ last' \in [Key -> Val] /\ past' \in [Key -> SUBSET Val]
        /\ owner' \in [Key -> Client]
    <3>1. CASE RecordParts(todo[c] \ {t}, keys[c], id[c])
      BY <2>2, <3>1 DEF RecordParts, TypeOK
    <3> QED
      BY <2>1, <2>2, <3>1, RecordTypeOK
  <2> QED
    BY <1>1, <2>3, <2>4, <2>5 DEF TypeOK, CallTypeOK, WriteTarget, call
<1>2. ASSUME WriteFails(c) PROVE TypeOK'
  <2>1. PICK t \in First(todo[c], CommitRank) :
          /\ Raise(t, keys[c], SlotValue(c, t))
          /\ IF t \in Committing THEN Finish(c, "uncommitted")
             ELSE Settle(c, t, todo[c] \ {t})
    BY <1>2 DEF WriteFails
  <2>2. t \in Target /\ keys[c] \in SUBSET Key /\ op[c] \in Busy
    BY <1>2, <1>a, <1>u DEF TypeOK, WriteFails
  <2>3. CallTypeOK
    BY <2>1, <2>2, <1>b, <1>o, FinishTypeOK, SettleTypeOK
  <2> QED
    BY <1>2, <2>1, <2>2, <2>3, SlotValueTypeOK, RaiseTypeOK
       DEF TypeOK, CallTypeOK, WriteFails, call
<1>3. ASSUME DeleteTarget(c) PROVE TypeOK'
  <2>1. PICK t \in First(todo[c], RemovalRank) :
          /\ Store(t, keys[c], Absent) /\ Record(t, keys[c], Absent)
          /\ Continue(c, "delete", todo[c] \ {t})
    BY <1>3 DEF DeleteTarget
  <2>2. CallTypeOK
    BY <2>1, <1>b, <1>u, ContinueTypeOK
  <2> QED
    BY <1>3, <1>a, <2>1, <2>2, StoreTypeOK, RecordTypeOK
       DEF TypeOK, CallTypeOK, DeleteTarget, call
<1>4. ASSUME DeleteFails(c) PROVE TypeOK'
  <2>1. PICK t \in First(todo[c], RemovalRank) :
          /\ Raise(t, keys[c], Absent)
          /\ IF t \in RemovedNow THEN Finish(c, "error")
             ELSE Settle(c, t, todo[c] \ {t})
    BY <1>4 DEF DeleteFails
  <2>2. t \in Target /\ keys[c] \in SUBSET Key /\ op[c] \in Busy
    BY <1>4, <1>a, <1>u DEF TypeOK, DeleteFails
  <2>3. CallTypeOK
    BY <2>1, <2>2, <1>b, <1>o, FinishTypeOK, SettleTypeOK
  <2> QED
    BY <1>4, <2>1, <2>2, <2>3, RaiseTypeOK DEF TypeOK, CallTypeOK, DeleteFails, call
<1>5. ASSUME DecideNothing(c) PROVE TypeOK'
  <2>1. CallTypeOK
    BY <1>5, <1>o, FinishTypeOK DEF DecideNothing
  <2> QED
    BY <1>5, <2>1 DEF TypeOK, CallTypeOK, DecideNothing, call, history
<1>6. ASSUME NEW P \in SUBSET keys[c], NEW R \in SUBSET keys[c], Decide(c, P, R)
      PROVE TypeOK'
  <2>1. PICK same \in SUBSET (Dependents \cap Parts) :
          slot' = [slot EXCEPT ![c] = [t \in Target |->
                     IF t \in same \cup Components THEN "same" ELSE "put"]]
    BY <1>6 DEF Decide
  <2>2. slot' \in [Client -> [Target -> {"put", "none", "same"}]]
    BY <2>1 DEF TypeOK
  <2>3. /\ nextId' \in Nat /\ id' \in [Client -> Val]
        /\ keys' \in [Client -> SUBSET Key] /\ puts' \in [Client -> SUBSET Key]
    BY <1>6, BoundsAssumption DEF Decide, TypeOK, Val
  <2>4. /\ todo' \in [Client -> SUBSET Target]
        /\ op' \in [Client -> Busy \cup {"idle"}]
    BY <1>6, <1>u, RolesPartition DEF Decide, TypeOK
  <2> QED
    BY <1>6, <2>2, <2>3, <2>4 DEF TypeOK, Decide, history
<1>7. ASSUME CondComponent(c) PROVE TypeOK'
  <2>1. PICK t \in First(todo[c], CommitRank) \cap Components :
          /\ Store(t, Changed(c, t, puts[c]), SlotValue(c, t))
          /\ Continue(c, "cond", todo[c] \ {t})
    BY <1>7 DEF CondComponent
  <2>2. CallTypeOK
    BY <2>1, <1>b, <1>u, ContinueTypeOK
  <2> QED
    BY <1>7, <1>a, <2>1, <2>2, StoreTypeOK, SlotValueTypeOK
       DEF TypeOK, CallTypeOK, CondComponent, call, history
<1>8. ASSUME CondAuthority(c) PROVE TypeOK'
  <2>1. PICK t \in First(todo[c], CommitRank) \cap Authority :
          /\ Apply(c, t, StillSeen(c, t))
          /\ won' = [won EXCEPT ![c] = StillSeen(c, t)]
          /\ AfterCommit(c, StillSeen(c, t))
    BY <1>8 DEF CondAuthority
  <2>2. StillSeen(c, t) \in SUBSET Key
    BY DEF TypeOK, StillSeen
  <2>3. CallTypeOK
    BY <2>1, AfterCommitTypeOK
  <2>4. /\ held' \in [Target -> [Key -> Val]] /\ last' \in [Key -> Val]
        /\ past' \in [Key -> SUBSET Val] /\ owner' \in [Key -> Client]
    BY <1>a, <2>1, ApplyTypeOK
  <2> QED
    BY <1>8, <2>1, <2>2, <2>3, <2>4 DEF TypeOK, CallTypeOK, CondAuthority
<1>9. ASSUME CondFails(c) PROVE TypeOK'
  <2>1. CallTypeOK
    BY <1>9, <1>o, FinishTypeOK DEF CondFails
  <2>2. PICK t \in First(todo[c], CommitRank) :
          \/ Raise(t, Changed(c, t, puts[c]), SlotValue(c, t))
          \/ /\ fails' = fails + 1
             /\ \E W : Apply(c, t, W)
    BY <1>9 DEF CondFails
  <2>3. t \in Target /\ Changed(c, t, puts[c]) \in SUBSET Key
    BY <1>a DEF TypeOK, Changed
  <2>4. /\ held' \in [Target -> [Key -> Val]] /\ last' \in [Key -> Val]
        /\ past' \in [Key -> SUBSET Val] /\ owner' \in [Key -> Client]
        /\ fails' \in Nat
    <3>1. CASE Raise(t, Changed(c, t, puts[c]), SlotValue(c, t))
      BY <2>3, <3>1, SlotValueTypeOK, RaiseTypeOK
    <3>2. CASE fails' = fails + 1 /\ \E W : Apply(c, t, W)
      <4>1. fails' \in Nat
        BY <3>2 DEF TypeOK
      <4> QED
        BY <2>3, <3>2, <4>1, ApplyTypeOK
    <3> QED
      BY <2>2, <3>1, <3>2
  <2> QED
    BY <1>9, <2>1, <2>4 DEF TypeOK, CallTypeOK, CondFails, call
<1>10. ASSUME CondDelete(c) PROVE TypeOK'
  <2>1. PICK t \in First(todo[c], RemovalRank) :
          /\ Store(t, won[c] \ puts[c], Absent)
          /\ IF todo[c] = {t} THEN AfterCommit(c, won[c] \cap puts[c])
             ELSE Continue(c, "condDelete", todo[c] \ {t})
    BY <1>10 DEF CondDelete
  <2>2. CallTypeOK
    BY <2>1, <1>b, <1>u, ContinueTypeOK, AfterCommitTypeOK
  <2> QED
    BY <1>10, <1>a, <2>1, <2>2, StoreTypeOK
       DEF TypeOK, CallTypeOK, CondDelete, call, history
<1>11. ASSUME CondSet(c) PROVE TypeOK'
  <2>1. PICK t \in First(todo[c], CommitRank) :
          /\ Store(t, Changed(c, t, won[c] \cap puts[c]), SlotValue(c, t))
          /\ Continue(c, "condSet", todo[c] \ {t})
    BY <1>11 DEF CondSet
  <2>2. CallTypeOK
    BY <2>1, <1>b, <1>u, ContinueTypeOK
  <2> QED
    BY <1>11, <1>a, <2>1, <2>2, StoreTypeOK, SlotValueTypeOK
       DEF TypeOK, CallTypeOK, CondSet, call, history
<1>12. ASSUME CondSyncFails(c) PROVE TypeOK'
  <2>1. PICK t \in Target, K \in SUBSET Key, v \in Val : Raise(t, K, v)
    <3>1. ASSUME NEW t \in First(todo[c], RemovalRank), Raise(t, won[c] \ puts[c], Absent)
          PROVE  \E t1 \in Target, K \in SUBSET Key, v \in Val : Raise(t1, K, v)
      BY <3>1, <1>a DEF TypeOK
    <3>2. ASSUME NEW t \in First(todo[c], CommitRank),
                 Raise(t, Changed(c, t, won[c] \cap puts[c]), SlotValue(c, t))
          PROVE  \E t1 \in Target, K \in SUBSET Key, v \in Val : Raise(t1, K, v)
      <4>1. Changed(c, t, won[c] \cap puts[c]) \in SUBSET Key /\ t \in Target
        BY <1>a DEF TypeOK, Changed
      <4> QED
        BY <3>2, <4>1, SlotValueTypeOK
    <3> QED
      BY <1>12, <3>1, <3>2 DEF CondSyncFails
  <2>2. op[c] \in Busy
    BY <1>12, <1>u DEF CondSyncFails
  <2>3. CallTypeOK
    BY <1>12, <2>2, <1>b, AfterCommitTypeOK, SettleTypeOK DEF CondSyncFails
  <2> QED
    BY <1>12, <2>1, <2>3, RaiseTypeOK DEF TypeOK, CallTypeOK, CondSyncFails, call
<1>13. ASSUME ReadTarget(c) PROVE TypeOK'
  <2>1. PICK t \in First(todo[c], LookupRank), k \in keys[c] :
          IF held[t][k] = Absent
          THEN id' = id /\ Continue(c, "get", todo[c] \ {t})
          ELSE /\ id' = [id EXCEPT ![c] = held[t][k]]
               /\ Continue(c, "fill", Fillable(t, Consulted \ todo[c]))
    BY <1>13 DEF ReadTarget
  <2>2. t \in Target /\ held[t][k] \in Val
    BY <1>a DEF TypeOK
  <2>3. Fillable(t, Consulted \ todo[c]) \in SUBSET Target
    BY RolesPartition DEF Fillable
  <2>4. CallTypeOK
    BY <2>1, <2>3, <1>b, <1>u, ContinueTypeOK
  <2>5. id' \in [Client -> Val]
    BY <2>1, <2>2 DEF TypeOK
  <2> QED
    BY <1>13, <2>4, <2>5 DEF TypeOK, CallTypeOK, ReadTarget, history
<1>14. ASSUME FillTarget(c) PROVE TypeOK'
  <2>1. PICK t \in First(todo[c], LookupRank) :
          /\ Store(t, Missing(c, t), id[c])
          /\ Continue(c, "fill", todo[c] \ {t})
    BY <1>14 DEF FillTarget
  <2>2. CallTypeOK
    BY <2>1, <1>b, <1>u, ContinueTypeOK
  <2>3. id[c] \in Val /\ t \in Target
    BY <1>a DEF TypeOK
  <2> QED
    BY <1>14, <2>1, <2>2, <2>3, StoreTypeOK
       DEF TypeOK, CallTypeOK, FillTarget, call, history
<1>15. ASSUME ReadFails(c) PROVE TypeOK'
  <2>1. CallTypeOK
    BY <1>15, <1>o, FinishTypeOK DEF ReadFails
  <2> QED
    BY <1>15, <2>1 DEF TypeOK, CallTypeOK, ReadFails, call, history
<1>16. ASSUME FillFails(c) PROVE TypeOK'
  <2>1. CallTypeOK
    BY <1>16, <1>b, <1>u, ContinueTypeOK DEF FillFails
  <2> QED
    BY <1>16, <2>1 DEF TypeOK, CallTypeOK, FillFails, call, history
<1>17. ASSUME AssemblePart(c) PROVE TypeOK'
  <2>1. PICK t \in First(todo[c], AssemblyRank), k \in keys[c] :
          /\ got' = [got EXCEPT ![c][t] = held[t][k]]
          /\ IF t \in Authority /\ held[t][k] = Absent THEN Finish(c, "ok")
             ELSE Continue(c, "assemble", todo[c] \ {t})
    BY <1>17 DEF AssemblePart
  <2>2. CallTypeOK
    BY <2>1, <1>b, <1>o, <1>u, FinishTypeOK, ContinueTypeOK
  <2>3. got' \in [Client -> [Target -> Val]]
    BY <1>a, <2>1 DEF TypeOK
  <2> QED
    BY <1>17, <2>2, <2>3 DEF TypeOK, CallTypeOK, AssemblePart, call, history
<1> QED
  BY <1>1, <1>2, <1>3, <1>4, <1>5, <1>6, <1>7, <1>8, <1>9, <1>10, <1>11, <1>12,
     <1>13, <1>14, <1>15, <1>16, <1>17
  DEF Step, CondTarget, LookUp

\* Every step keeps the types.
LEMMA NextTypeOK == TypeOK /\ [Next]_vars => TypeOK'
<1> SUFFICES ASSUME TypeOK, [Next]_vars PROVE TypeOK'
  OBVIOUS
<1>1. ASSUME NEW c \in Client, Crash(c) PROVE TypeOK'
  <2>1. "crashed" \in Outcomes
    BY DEF Outcomes
  <2>2. CallTypeOK
    BY <1>1, <2>1, FinishTypeOK DEF Crash
  <2> QED
    BY <1>1, <2>2 DEF TypeOK, CallTypeOK, Crash, call, history
<1>2. CASE UNCHANGED vars
  BY <1>2 DEF TypeOK, vars, call, history
<1> QED
  BY <1>1, <1>2, StartTypeOK, StepTypeOK DEF Next

\* Every variable keeps its type, for every declaration the code accepts.
THEOREM TypeCorrect == Spec => []TypeOK
<1>1. Init => TypeOK
  <2> SUFFICES ASSUME Init PROVE TypeOK
    OBVIOUS
  <2>1. held \in [Target -> [Key -> Val]]
    <3>1. held \in [Target -> [Key -> {Absent, Old}]]
      BY DEF Init
    <3>2. {Absent, Old} \subseteq Val
      BY AbsentIsVal
    <3> HIDE DEF Absent, Old
    <3> QED
      BY <3>1, <3>2
  <2>2. past \in [Key -> SUBSET Val]
    BY AbsentIsVal DEF Init
  <2> QED
    BY <2>1, <2>2, AbsentIsVal DEF Init, TypeOK, Busy, OpNames, Outcomes, Old
<1> QED
  BY <1>1, NextTypeOK, PTL DEF Spec

-----------------------------------------------------------------------------
(***************************************************************************)
(* Commit before derive, and the authority as the last commit.             *)
(***************************************************************************)

\* No target has two roles, and the ones removed after the commit or filled
\* from elsewhere are never the authority or a component.
LEMMA Disjoint ==
    /\ Authority \cap Components = {} /\ Authority \cap Dependents = {}
    /\ Components \cap Dependents = {} /\ Fallbacks \cap Authority = {}
    /\ Fallbacks \cap Components = {} /\ Fallbacks \cap Dependents = {}
    /\ RemovedAfterCommit \cap Authority = {}
    /\ Fill \cap Fallbacks = {} /\ Fill \cap Components = {}
BY PlacementAssumption
   DEF WellPlaced, Authority, Components, Dependents, Fallbacks, ByRole,
       RemovedAfterCommit

\* The commit traversal reaches a dependent after every committing target, and
\* the authority after every component.
LEMMA CommitOrder ==
    ASSUME NEW S \in SUBSET Target, NEW t \in First(S, CommitRank)
    PROVE  /\ t \in Dependents => S \cap Committing = {}
           /\ t \in Authority => S \cap Components = {}
<1>0. /\ \A u \in Components : CommitRank[u] = 0
      /\ \A u \in Authority : CommitRank[u] = 1
      /\ \A u \in Dependents : CommitRank[u] = 2
  BY DEF CommitRank, Dependents, Authority, Components, ByRole
<1>1. \A u \in S : \/ CommitRank[t] < CommitRank[u]
                   \/ CommitRank[t] = CommitRank[u]
  BY DEF First
<1>2. ASSUME t \in Dependents PROVE S \cap Committing = {}
  <2>1. ASSUME NEW u \in S \cap Committing PROVE FALSE
    <3>1. CommitRank[t] = 2 /\ (CommitRank[u] = 0 \/ CommitRank[u] = 1)
      BY <1>0, <1>2, <2>1 DEF Committing
    <3> QED
      BY <1>1, <2>1, <3>1
  <2> QED
    BY <2>1
<1>3. ASSUME t \in Authority PROVE S \cap Components = {}
  <2>1. ASSUME NEW u \in S \cap Components PROVE FALSE
    <3>1. CommitRank[t] = 1 /\ CommitRank[u] = 0
      BY <1>0, <1>3, <2>1
    <3> QED
      BY <1>1, <2>1, <3>1
  <2> QED
    BY <2>1
<1> QED
  BY <1>2, <1>3

\* No operation changes what a fallback holds.
LEMMA FallbacksKept ==
    ASSUME TypeOK, NEW t \in Target \ Fallbacks, NEW K, NEW v, Store(t, K, v)
    PROVE  \A k \in Key : FromFallback(k)' = FromFallback(k)
<1>1. \A f \in Fallbacks : held'[f] = held[f]
  BY RolesPartition DEF TypeOK, Store
<1> QED
  BY <1>1 DEF FromFallback

\* A caller that does not move stays on course while commits accumulate.
LEMMA CallerKept ==
    ASSUME NEW d \in Client, TypeOK, CallerOnCourse(d),
           op'[d] = op[d], todo'[d] = todo[d], keys'[d] = keys[d], id'[d] = id[d],
           slot'[d] = slot[d], won'[d] = won[d], puts'[d] = puts[d],
           \A k \in Key : past[k] \subseteq past'[k],
           \A k \in Key : FromFallback(k)' = FromFallback(k)
    PROVE  CallerOnCourse(d)'
<1>1. keys[d] \in SUBSET Key /\ won[d] \in SUBSET Key
  BY DEF TypeOK
<1> QED
  BY <1>1 DEF CallerOnCourse

\* An idle caller is on course if its record has the authority's part.
LEMMA IdleOnCourse ==
    ASSUME NEW c \in Client, op'[c] = "idle", todo'[c] = {},
           \A a \in Authority : slot'[c][a] # "none"
    PROVE  CallerOnCourse(c)'
BY DEF CallerOnCourse

\* A call to a target that is not the authority.
LEMMA SyncKeepsMedia ==
    ASSUME TypeOK, MediaOnCourse, NEW t \in Target \ (Authority \cup Fallbacks),
           NEW K, NEW v, Store(t, K, v),
           t \in Dependents => \A k \in Key \cap K : v \in past[k] \cup FromFallback(k),
           last' = last,
           \A k \in Key : past[k] \subseteq past'[k]
    PROVE  MediaOnCourse'
<1>1. \A k \in Key : FromFallback(k)' = FromFallback(k)
  BY FallbacksKept
<1>2. \A u \in Target \ {t} : held'[u] = held[u]
  BY DEF TypeOK, Store
<1>3. \A k \in Key : held'[t][k] = IF k \in K THEN v ELSE held[t][k]
  BY DEF TypeOK, Store
<1>4. CommitBeforeDerive'
  BY <1>1, <1>2, <1>3, RolesPartition DEF MediaOnCourse, CommitBeforeDerive
<1>5. AuthorityIsLastCommit'
  BY <1>1, <1>2, RolesPartition DEF MediaOnCourse, AuthorityIsLastCommit
<1> QED
  BY <1>4, <1>5 DEF MediaOnCourse

\* A call to the authority that commits or removes.
LEMMA CommitKeepsMedia ==
    ASSUME TypeOK, MediaOnCourse, NEW t \in Authority, NEW K, NEW v,
           Store(t, K, v), Record(t, K, v)
    PROVE  MediaOnCourse'
<1>0. t \in Target \ Fallbacks
  BY RolesPartition, Disjoint
<1>1. \A k \in Key : FromFallback(k)' = FromFallback(k)
  BY <1>0, FallbacksKept
<1>2. \A u \in Target \ {t} : held'[u] = held[u]
  BY <1>0 DEF TypeOK, Store
<1>3. \A k \in Key : held'[t][k] = IF k \in K THEN v ELSE held[t][k]
  BY <1>0 DEF TypeOK, Store
<1>4. \A k \in Key : /\ last'[k] = IF k \in K THEN v ELSE last[k]
                     /\ past'[k] = IF k \in K THEN past[k] \cup {v} ELSE past[k]
  BY DEF Record
<1>5. \A a \in Authority : a = t
  BY DeclarationAssumption DEF WellFormed
<1>6. CommitBeforeDerive'
  BY <1>1, <1>2, <1>4, RolesPartition, Disjoint DEF MediaOnCourse, CommitBeforeDerive
<1>7. AuthorityIsLastCommit'
  BY <1>1, <1>3, <1>4, <1>5 DEF MediaOnCourse, AuthorityIsLastCommit
<1> QED
  BY <1>4, <1>6, <1>7 DEF MediaOnCourse

\* The authority's conditional write commits and removes alike.
LEMMA ApplyKeepsMedia ==
    ASSUME TypeOK, MediaOnCourse, NEW c \in Client, NEW t \in Authority, NEW W,
           Apply(c, t, W)
    PROVE  /\ MediaOnCourse'
           /\ \A k \in Key : FromFallback(k)' = FromFallback(k)
           /\ \A k \in Key : past[k] \subseteq past'[k]
           /\ \A k \in Key \cap W \cap puts[c] : id[c] \in past'[k]
<1> DEFINE new == [k \in Key |-> IF k \notin W THEN held[t][k]
                                 ELSE IF k \in puts[c] THEN id[c] ELSE Absent]
<1>0. t \in Target \ Fallbacks
  BY RolesPartition, Disjoint
<1>1. /\ held' = [held EXCEPT ![t] = new]
      /\ last' = [k \in Key |-> IF k \in W THEN new[k] ELSE last[k]]
      /\ past' = [k \in Key |-> IF k \in W THEN past[k] \cup {new[k]} ELSE past[k]]
  BY DEF Apply
<1>2. \A k \in Key : k \notin W => new[k] = held[t][k]
  OBVIOUS
<1>3. \A k \in Key : k \in W /\ k \in puts[c] => new[k] = id[c]
  OBVIOUS
<1> HIDE DEF new
<1>4. \A u \in Target \ {t} : held'[u] = held[u]
  BY <1>0, <1>1 DEF TypeOK
<1>5. held'[t] = new
  BY <1>0, <1>1 DEF TypeOK
<1>6. \A k \in Key : FromFallback(k)' = FromFallback(k)
  <2>1. \A f \in Fallbacks : held'[f] = held[f]
    BY <1>0, <1>4, RolesPartition
  <2> QED
    BY <2>1 DEF FromFallback
<1>7. \A a \in Authority : a = t
  BY DeclarationAssumption DEF WellFormed
<1>8. CommitBeforeDerive'
  BY <1>1, <1>4, <1>6, RolesPartition, Disjoint DEF MediaOnCourse, CommitBeforeDerive
<1>9. AuthorityIsLastCommit'
  BY <1>1, <1>2, <1>5, <1>6, <1>7 DEF MediaOnCourse, AuthorityIsLastCommit
<1> QED
  BY <1>1, <1>3, <1>6, <1>8, <1>9 DEF MediaOnCourse

\* A call that raises keeps the media on course if the call would have.
LEMMA RaiseKeepsMedia ==
    ASSUME TypeOK, MediaOnCourse, NEW t \in Target \ Fallbacks, NEW K \in SUBSET Key,
           NEW v, Raise(t, K, v),
           t \in Dependents => \A k \in K : v \in past[k] \cup FromFallback(k)
    PROVE  /\ MediaOnCourse'
           /\ \A k \in Key : FromFallback(k)' = FromFallback(k)
           /\ \A k \in Key : past[k] \subseteq past'[k]
<1>1. PICK S \in SUBSET K : Store(t, S, v) /\ Record(t, S, v)
  BY DEF Raise
<1>2. \A k \in Key : FromFallback(k)' = FromFallback(k)
  BY <1>1, FallbacksKept
<1>3. \A k \in Key : past[k] \subseteq past'[k]
  BY <1>1 DEF Record
<1>4. CASE t \in Authority
  BY <1>1, <1>2, <1>3, <1>4, CommitKeepsMedia
<1>5. CASE t \notin Authority
  <2>1. last' = last
    BY <1>1, <1>5 DEF Record, TypeOK
  <2>2. t \in Target \ (Authority \cup Fallbacks)
    BY <1>5
  <2>3. t \in Dependents => \A k \in Key \cap S : v \in past[k] \cup FromFallback(k)
    BY <1>1
  <2>4. MediaOnCourse'
    BY <1>1, <1>3, <2>1, <2>2, <2>3, SyncKeepsMedia
  <2> QED
    BY <1>2, <1>3, <2>4
<1> QED
  BY <1>4, <1>5

-----------------------------------------------------------------------------
(***************************************************************************)
(* One caller moves; the others stay where they are.                       *)
(***************************************************************************)
OthersStay(c) ==
    \A d \in Client \ {c} :
        op'[d] = op[d] /\ todo'[d] = todo[d] /\ puts'[d] = puts[d]

Returned(c) == OthersStay(c) /\ op'[c] = "idle" /\ todo'[c] = {}

\* The call returned or went on to the targets of rest.
WentOn(c, what, rest) ==
    \/ Returned(c)
    \/ OthersStay(c) /\ op'[c] = what /\ todo'[c] = rest /\ puts'[c] = puts[c]

\* A call that finishes is idle and no other call has moved.
LEMMA FinishReturns ==
    ASSUME TypeOK, NEW c \in Client, NEW outcome, Finish(c, outcome)
    PROVE  Returned(c)
BY DEF TypeOK, Finish, Returned, OthersStay

\* A call that continues has its new phase and targets, or has returned.
LEMMA ContinueWentOn ==
    ASSUME TypeOK, NEW c \in Client, NEW what, NEW rest, Continue(c, what, rest)
    PROVE  WentOn(c, what, rest)
<1>1. CASE rest = {}
  BY <1>1, FinishReturns DEF Continue, WentOn
<1>2. CASE rest # {}
  BY <1>2 DEF Continue, WentOn, OthersStay, TypeOK
<1> QED
  BY <1>1, <1>2

\* A call whose sync was settled goes on in its phase, or has returned.
LEMMA SettleWentOn ==
    ASSUME TypeOK, NEW c \in Client, NEW t, NEW rest, Settle(c, t, rest)
    PROVE  WentOn(c, op[c], rest)
BY ContinueWentOn, FinishReturns DEF Settle, WentOn

\* After a conditional commit the call removes or syncs what follows it.
LEMMA AfterCommitWentOn ==
    ASSUME TypeOK, NEW c \in Client, NEW W, AfterCommit(c, W)
    PROVE  \/ WentOn(c, "condDelete", RemovedAfterCommit)
           \/ \E S \in SUBSET Dependents : WentOn(c, "condSet", S)
<1> DEFINE S == {t \in Dependents : Changed(c, t, W \cap puts[c]) # {}}
<1>1. \/ Continue(c, "condDelete", RemovedAfterCommit)
      \/ Continue(c, "condSet", S)
  BY DEF AfterCommit
<1>2. S \in SUBSET Dependents
  OBVIOUS
<1> HIDE DEF S
<1> QED
  BY <1>1, <1>2, ContinueWentOn

\* The moving caller and the media are on course: so is everyone.
LEMMA OnCourseKept ==
    ASSUME TypeOK, OnCourse, NEW c \in Client, OthersStay(c),
           \A d \in Client \ {c} : /\ keys'[d] = keys[d] /\ id'[d] = id[d]
                                   /\ slot'[d] = slot[d] /\ won'[d] = won[d],
           MediaOnCourse', CallerOnCourse(c)',
           \A k \in Key : past[k] \subseteq past'[k],
           \A k \in Key : FromFallback(k)' = FromFallback(k)
    PROVE  OnCourse'
<1>1. ASSUME NEW d \in Client \ {c} PROVE CallerOnCourse(d)'
  <2>1. CallerOnCourse(d)
    BY DEF OnCourse
  <2>2. op'[d] = op[d] /\ todo'[d] = todo[d] /\ puts'[d] = puts[d]
    BY DEF OthersStay
  <2> QED
    BY <2>1, <2>2, CallerKept
<1> QED
  BY <1>1 DEF OnCourse

\* A call that went on has moved no other.
LEMMA WentOnOthers ==
    ASSUME NEW c, NEW what, NEW rest, WentOn(c, what, rest) PROVE OthersStay(c)
BY DEF WentOn, Returned

\* A traversal that only removes is on course whatever it has left to visit.
LEMMA DeleteOnCourse ==
    ASSUME TypeOK, OnCourse, NEW c \in Client, slot' = slot,
           NEW rest \in SUBSET todo[c], op[c] = "delete", WentOn(c, "delete", rest)
    PROVE  CallerOnCourse(c)'
BY DEF OnCourse, CallerOnCourse, WentOn, Returned

\* Every target has a role.
LEMMA RolesExhaustive == Target = Authority \cup Components \cup Dependents \cup Fallbacks
BY PlacementAssumption
   DEF WellPlaced, Authority, Components, Dependents, Fallbacks, ByRole, Roles

\* Every declaration has somewhere to commit to.
LEMMA CommittingNonempty == Committing # {}
<1>1. CASE Authority # {}
  BY <1>1 DEF Committing
<1>2. CASE Authority = {}
  <2>1. Parts # {} /\ Parts \subseteq Target /\ Parts \cap (Dependents \cup Fallbacks) = {}
    BY <1>2, DeclarationAssumption DEF WellFormed
  <2> QED
    BY <1>2, <2>1, RolesExhaustive DEF Committing
<1> QED
  BY <1>1, <1>2

\* The authority's part of a record is never None.
LEMMA NewValueHasAuthority ==
    ASSUME TypeOK, NEW c \in Client, NewValue(c)
    PROVE  /\ \A a \in Authority : slot'[c][a] # "none"
           /\ \A d \in Client \ {c} : slot'[d] = slot[d] /\ id'[d] = id[d]
<1>1. PICK none \in SUBSET Optional :
        slot' = [slot EXCEPT ![c] =
                   [t \in Target |-> IF t \in none THEN "none" ELSE "put"]]
  BY DEF NewValue
<1>2. Authority \cap none = {} /\ Authority \subseteq Target
  BY BoundsAssumption, Disjoint, RolesPartition
<1>3. \A a \in Authority : slot'[c][a] # "none"
  BY <1>1, <1>2 DEF TypeOK
<1>4. \A d \in Client \ {c} : slot'[d] = slot[d] /\ id'[d] = id[d]
  BY <1>1 DEF TypeOK, NewValue
<1> QED
  BY <1>3, <1>4

\* A call that begins has its phase, keys and targets, and no other has moved.
LEMMA BeginMoves ==
    ASSUME TypeOK, NEW c \in Client, NEW name, NEW what, NEW K, NEW targets,
           Begin(c, name, what, K, targets)
    PROVE  /\ op'[c] = what /\ todo'[c] = targets /\ keys'[c] = K
           /\ \A d \in Client \ {c} : /\ op'[d] = op[d] /\ todo'[d] = todo[d]
                                       /\ keys'[d] = keys[d] /\ won'[d] = won[d]
BY DEF TypeOK, Begin

\* A step that leaves the media and the history alone.
LEMMA MediaStill ==
    ASSUME MediaOnCourse, held' = held, last' = last, past' = past
    PROVE  /\ MediaOnCourse'
           /\ \A k \in Key : past[k] \subseteq past'[k]
           /\ \A k \in Key : FromFallback(k)' = FromFallback(k)
BY DEF MediaOnCourse, CommitBeforeDerive, AuthorityIsLastCommit, FromFallback

\* A call that starts is on course, and so are the others.
LEMMA StartOnCourse ==
    ASSUME TypeOK, OnCourse, NEW c \in Client, Start(c) PROVE OnCourse'
<1>a. MediaOnCourse /\ CallerOnCourse(c)
  BY DEF OnCourse
<1>b. \A a \in Authority : slot[c][a] # "none"
  BY <1>a DEF CallerOnCourse
<1>1. ASSUME NEW K \in SUBSET Key, StartWrite(c, K) PROVE OnCourse'
  <2>1. held' = held /\ last' = last /\ past' = past /\ puts' = puts
    BY <1>1 DEF StartWrite, Own
  <2>2. Begin(c, "write", "write", K, Written) /\ NewValue(c)
    BY <1>1 DEF StartWrite
  <2>3. CallerOnCourse(c)'
    <3>1. op'[c] = "write" /\ todo'[c] = Written
      BY <2>2, BeginMoves
    <3>2. /\ Written \cap Fallbacks = {} /\ Authority \subseteq Written
          /\ Written \cap Committing # {}
      BY RolesPartition, CommittingNonempty DEF Written, Committing
    <3>3. \A a \in Authority : slot'[c][a] # "none"
      BY <2>2, NewValueHasAuthority
    <3> QED
      BY <3>1, <3>2, <3>3 DEF CallerOnCourse
  <2> QED
    BY <1>a, <2>1, <2>2, <2>3, BeginMoves, NewValueHasAuthority, MediaStill, OnCourseKept
       DEF OthersStay
<1>2. ASSUME NEW K \in SUBSET Key, StartDelete(c, K) PROVE OnCourse'
  <2>1. /\ held' = held /\ last' = last /\ past' = past /\ puts' = puts
        /\ id' = id /\ slot' = slot
    BY <1>2 DEF StartDelete, Own
  <2>2. Begin(c, "delete", "delete", K, RemovedNow \cup RemovedAfterCommit)
    BY <1>2 DEF StartDelete
  <2>3. CallerOnCourse(c)'
    <3>1. op'[c] = "delete" /\ todo'[c] = RemovedNow \cup RemovedAfterCommit
      BY <2>2, BeginMoves
    <3>2. todo'[c] \cap Fallbacks = {}
      BY <3>1, RolesPartition DEF Written
    <3> QED
      BY <1>b, <2>1, <3>1, <3>2 DEF CallerOnCourse
  <2> QED
    BY <1>a, <2>1, <2>2, <2>3, BeginMoves, MediaStill, OnCourseKept DEF OthersStay
<1>3. ASSUME NEW K \in SUBSET Key, StartInsert(c, K) PROVE OnCourse'
  <2>1. /\ held' = held /\ last' = last /\ past' = past
        /\ puts' = [puts EXCEPT ![c] = K]
    BY <1>3 DEF StartInsert, Own
  <2>2. Begin(c, "insert", "cond", K, Committing) /\ NewValue(c)
    BY <1>3 DEF StartInsert
  <2>3. CallerOnCourse(c)'
    <3>1. op'[c] = "cond" /\ todo'[c] = Committing
      BY <2>2, BeginMoves
    <3>2. todo'[c] \cap Fallbacks = {}
      BY <3>1, RolesPartition DEF Written
    <3>3. \A a \in Authority : slot'[c][a] # "none"
      BY <2>2, NewValueHasAuthority
    <3> QED
      BY <3>1, <3>2, <3>3 DEF CallerOnCourse
  <2>4. \A d \in Client \ {c} : puts'[d] = puts[d]
    BY <2>1 DEF TypeOK
  <2> QED
    BY <1>a, <2>1, <2>2, <2>3, <2>4, BeginMoves, NewValueHasAuthority, MediaStill,
       OnCourseKept DEF OthersStay
<1>4. ASSUME NEW K \in SUBSET Key, StartUpdate(c, K) PROVE OnCourse'
  <2>1. /\ held' = held /\ last' = last /\ past' = past /\ puts' = puts
        /\ id' = id /\ slot' = slot
    BY <1>4 DEF StartUpdate, Own
  <2>2. Begin(c, "update", "decide", K, {})
    BY <1>4 DEF StartUpdate
  <2>3. CallerOnCourse(c)'
    <3>1. op'[c] = "decide" /\ todo'[c] = {}
      BY <2>2, BeginMoves
    <3> QED
      BY <1>b, <2>1, <3>1 DEF CallerOnCourse
  <2> QED
    BY <1>a, <2>1, <2>2, <2>3, BeginMoves, MediaStill, OnCourseKept DEF OthersStay
<1>5. ASSUME NEW k \in Key, StartGet(c, k) PROVE OnCourse'
  <2>1. /\ held' = held /\ last' = last /\ past' = past /\ puts' = puts
        /\ slot' = slot /\ id' = [id EXCEPT ![c] = Absent]
    BY <1>5 DEF StartGet, history
  <2> DEFINE what == IF Assembled THEN "assemble" ELSE "get"
             targets == IF Assembled THEN Parts \cup Authority ELSE Consulted
  <2>2. Begin(c, "get", what, {k}, targets) /\ what \in {"get", "assemble"}
    BY <1>5 DEF StartGet
  <2> HIDE DEF what, targets
  <2>3. CallerOnCourse(c)'
    <3>1. op'[c] \in {"get", "assemble"} /\ keys'[c] = {k}
      BY <2>2, BeginMoves
    <3>2. op'[c] = "get" => todo'[c] \subseteq Consulted
      BY <2>2, BeginMoves DEF what, targets
    <3> QED
      BY <1>b, <2>1, <3>1, <3>2 DEF CallerOnCourse
  <2>4. \A d \in Client \ {c} : id'[d] = id[d]
    BY <2>1 DEF TypeOK
  <2> QED
    BY <1>a, <2>1, <2>2, <2>3, <2>4, BeginMoves, MediaStill, OnCourseKept DEF OthersStay
<1> QED
  BY <1>1, <1>2, <1>3, <1>4, <1>5 DEF Start

-----------------------------------------------------------------------------
(***************************************************************************)
(* set.                                                                    *)
(***************************************************************************)
LEMMA WriteOnCourse ==
    ASSUME TypeOK, OnCourse, NEW c \in Client, WriteTarget(c) PROVE OnCourse'
<1>1. PICK t \in First(todo[c], CommitRank) :
        /\ Store(t, keys[c], SlotValue(c, t))
        /\ IF Authority = {} /\ t \in Components
           THEN RecordParts(todo[c] \ {t}, keys[c], id[c])
           ELSE Record(t, keys[c], id[c])
        /\ Continue(c, "write", todo[c] \ {t})
  BY DEF WriteTarget
<1>2. MediaOnCourse /\ CallerOnCourse(c) /\ op[c] = "write"
  BY DEF OnCourse, WriteTarget
<1>3. keys' = keys /\ id' = id /\ slot' = slot /\ won' = won
  BY DEF WriteTarget, call
<1>4. /\ todo[c] \cap Fallbacks = {} /\ \A a \in Authority : slot[c][a] # "none"
      /\ todo[c] \cap Components # {} => Authority \subseteq todo[c]
      /\ todo[c] \cap Committing = {} => \A k \in keys[c] : id[c] \in past[k]
  BY <1>2 DEF CallerOnCourse
<1>5. t \in todo[c] /\ todo[c] \in SUBSET Target /\ keys[c] \in SUBSET Key
  BY FirstIsIn DEF TypeOK
<1>6. t \in Authority \cup Components \cup Dependents /\ t \in Target \ Fallbacks
  BY <1>4, <1>5, RolesExhaustive
<1>7. /\ t \in Dependents => todo[c] \cap Committing = {}
      /\ t \in Authority => todo[c] \cap Components = {}
  BY <1>5, CommitOrder
<1>8. WentOn(c, "write", todo[c] \ {t})
  BY <1>1, ContinueWentOn
<1>9. \A k \in Key : past[k] \subseteq past'[k]
  BY <1>1 DEF Record, RecordParts
<1>10. \A k \in Key : FromFallback(k)' = FromFallback(k)
  BY <1>1, <1>6, FallbacksKept
<1>11. MediaOnCourse'
  <2>1. CASE t \in Authority
    <3>1. SlotValue(c, t) = id[c]
      BY <1>4, <2>1 DEF SlotValue
    <3>2. Store(t, keys[c], id[c]) /\ Record(t, keys[c], id[c])
      BY <1>1, <2>1, <3>1
    <3> QED
      BY <1>2, <2>1, <3>2, CommitKeepsMedia
  <2>2. CASE t \notin Authority
    <3>1. last' = last
      BY <1>1, <2>2 DEF Record, RecordParts, TypeOK
    <3>2. t \in Dependents =>
            \A k \in Key \cap keys[c] : SlotValue(c, t) \in past[k] \cup FromFallback(k)
      BY <1>2, <1>4, <1>7 DEF SlotValue, MediaOnCourse
    <3>3. t \in Target \ (Authority \cup Fallbacks)
      BY <1>6, <2>2
    <3> QED
      BY <1>1, <1>2, <1>9, <3>1, <3>2, <3>3, SyncKeepsMedia
  <2> QED
    BY <2>1, <2>2
<1>12. CallerOnCourse(c)'
  <2> DEFINE rest == todo[c] \ {t}
  <2>1. rest \cap Components # {} => Authority \subseteq rest
    BY <1>4, <1>7
  <2>2. rest \cap Committing = {} => \A k \in keys[c] : id[c] \in past'[k]
    <3> SUFFICES ASSUME rest \cap Committing = {}, NEW k \in keys[c]
                 PROVE  id[c] \in past'[k]
      OBVIOUS
    <3>0. k \in Key
      BY <1>5
    <3>1. CASE t \in Authority
      <4>1. Record(t, keys[c], id[c])
        BY <1>1, <3>1
      <4> QED
        BY <3>0, <3>1, <4>1 DEF Record
    <3>2. CASE t \in Components
      <4>1. Authority = {}
        BY <1>4, <1>5, <3>2, Disjoint DEF Committing
      <4>2. RecordParts(rest, keys[c], id[c])
        BY <1>1, <3>2, <4>1
      <4> QED
        BY <3>0, <4>2 DEF RecordParts
    <3>3. CASE t \in Dependents
      BY <1>4, <1>7, <1>9, <3>0, <3>3
    <3> QED
      BY <1>6, <3>1, <3>2, <3>3
  <2>3. rest \cap Fallbacks = {}
    BY <1>4
  <2>4. CASE Returned(c)
    BY <1>3, <1>4, <2>4, IdleOnCourse DEF Returned
  <2>5. CASE op'[c] = "write" /\ todo'[c] = rest
    BY <1>3, <1>4, <2>1, <2>2, <2>3, <2>5 DEF CallerOnCourse
  <2> QED
    BY <1>8, <2>4, <2>5 DEF WentOn
<1> QED
  BY <1>3, <1>8, <1>9, <1>10, <1>11, <1>12, WentOnOthers, OnCourseKept

\* A write that fails leaves every call on course.
LEMMA WriteFailsOnCourse ==
    ASSUME TypeOK, OnCourse, NEW c \in Client, WriteFails(c) PROVE OnCourse'
<1>1. PICK t \in First(todo[c], CommitRank) :
        /\ Raise(t, keys[c], SlotValue(c, t))
        /\ IF t \in Committing THEN Finish(c, "uncommitted")
           ELSE Settle(c, t, todo[c] \ {t})
  BY DEF WriteFails
<1>2. MediaOnCourse /\ CallerOnCourse(c) /\ op[c] = "write"
  BY DEF OnCourse, WriteFails
<1>3. keys' = keys /\ id' = id /\ slot' = slot /\ won' = won
  BY DEF WriteFails, call
<1>4. /\ todo[c] \cap Fallbacks = {} /\ \A a \in Authority : slot[c][a] # "none"
      /\ todo[c] \cap Committing = {} => \A k \in keys[c] : id[c] \in past[k]
  BY <1>2 DEF CallerOnCourse
<1>5. t \in todo[c] /\ todo[c] \in SUBSET Target /\ keys[c] \in SUBSET Key
  BY FirstIsIn DEF TypeOK
<1>6. t \in Authority \cup Components \cup Dependents /\ t \in Target \ Fallbacks
  BY <1>4, <1>5, RolesExhaustive
<1>7. t \in Dependents => todo[c] \cap Committing = {}
  BY <1>5, CommitOrder
<1>8. t \in Dependents =>
        \A k \in keys[c] : SlotValue(c, t) \in past[k] \cup FromFallback(k)
  BY <1>2, <1>4, <1>5, <1>7 DEF SlotValue, MediaOnCourse
<1>9. /\ MediaOnCourse'
      /\ \A k \in Key : FromFallback(k)' = FromFallback(k)
      /\ \A k \in Key : past[k] \subseteq past'[k]
  BY <1>1, <1>2, <1>5, <1>6, <1>8, RaiseKeepsMedia
<1>10. \/ Returned(c)
       \/ t \in Dependents /\ WentOn(c, "write", todo[c] \ {t})
  BY <1>1, <1>2, <1>6, FinishReturns, SettleWentOn DEF Committing
<1>11. CallerOnCourse(c)'
  <2>1. CASE Returned(c)
    BY <1>3, <1>4, <2>1, IdleOnCourse DEF Returned
  <2>2. CASE t \in Dependents /\ op'[c] = "write" /\ todo'[c] = todo[c] \ {t}
    <3>1. todo[c] \cap Committing = {}
      BY <1>7, <2>2
    <3>2. \A k \in keys[c] : id[c] \in past'[k]
      BY <1>4, <1>5, <1>9, <3>1
    <3>3. todo'[c] \cap Components = {} /\ todo'[c] \cap Fallbacks = {}
      BY <1>4, <2>2, <3>1 DEF Committing
    <3> QED
      BY <1>3, <1>4, <2>2, <3>2, <3>3 DEF CallerOnCourse
  <2> QED
    BY <1>10, <2>1, <2>2 DEF WentOn
<1> QED
  BY <1>3, <1>9, <1>10, <1>11, WentOnOthers, OnCourseKept DEF Returned

-----------------------------------------------------------------------------
(***************************************************************************)
(* delete.                                                                 *)
(***************************************************************************)
LEMMA DeleteOnCourseStep ==
    ASSUME TypeOK, OnCourse, NEW c \in Client, DeleteTarget(c) \/ DeleteFails(c)
    PROVE  OnCourse'
<1>1. PICK t \in First(todo[c], RemovalRank) :
        \/ /\ Store(t, keys[c], Absent) /\ Record(t, keys[c], Absent)
           /\ Continue(c, "delete", todo[c] \ {t})
        \/ /\ Raise(t, keys[c], Absent)
           /\ IF t \in RemovedNow THEN Finish(c, "error")
              ELSE Settle(c, t, todo[c] \ {t})
  BY DEF DeleteTarget, DeleteFails
<1>2. MediaOnCourse /\ CallerOnCourse(c) /\ op[c] = "delete"
  BY DEF OnCourse, DeleteTarget, DeleteFails
<1>3. keys' = keys /\ id' = id /\ slot' = slot /\ won' = won
  BY DEF DeleteTarget, DeleteFails, call
<1>4. todo[c] \cap Fallbacks = {}
  BY <1>2 DEF CallerOnCourse
<1>5. t \in Target \ Fallbacks /\ keys[c] \in SUBSET Key /\ todo[c] \in SUBSET Target
  BY <1>4, FirstIsIn DEF TypeOK
<1>6. WentOn(c, "delete", todo[c] \ {t})
  BY <1>1, <1>2, ContinueWentOn, SettleWentOn, FinishReturns DEF WentOn
<1>7. \A k \in Key : Absent \in past[k]
  BY <1>2 DEF MediaOnCourse
<1>8. /\ MediaOnCourse'
      /\ \A k \in Key : FromFallback(k)' = FromFallback(k)
      /\ \A k \in Key : past[k] \subseteq past'[k]
  <2>1. CASE Raise(t, keys[c], Absent)
    BY <1>2, <1>5, <1>7, <2>1, RaiseKeepsMedia
  <2>2. CASE Store(t, keys[c], Absent) /\ Record(t, keys[c], Absent)
    <3>1. \A k \in Key : past[k] \subseteq past'[k]
      BY <2>2 DEF Record
    <3>2. CASE t \in Authority
      BY <1>2, <1>5, <2>2, <3>1, <3>2, CommitKeepsMedia, FallbacksKept
    <3>3. CASE t \notin Authority
      <4>1. last' = last
        BY <2>2, <3>3 DEF Record, TypeOK
      <4>2. t \in Target \ (Authority \cup Fallbacks)
        BY <1>5, <3>3
      <4>3. \A k \in Key \cap keys[c] : Absent \in past[k] \cup FromFallback(k)
        BY <1>7
      <4>4. MediaOnCourse'
        BY <1>2, <2>2, <3>1, <4>1, <4>2, <4>3, SyncKeepsMedia
      <4> QED
        BY <1>5, <2>2, <3>1, <4>4, FallbacksKept
    <3> QED
      BY <3>2, <3>3
  <2> QED
    BY <1>1, <2>1, <2>2
<1>9. CallerOnCourse(c)'
  BY <1>2, <1>3, <1>5, <1>6, DeleteOnCourse
<1> QED
  BY <1>3, <1>6, <1>8, <1>9, WentOnOthers, OnCourseKept

-----------------------------------------------------------------------------
(***************************************************************************)
(* The conditional write.                                                  *)
(***************************************************************************)

\* What a caller past the authority's answer must carry.
LEMMA SyncingOnCourse ==
    ASSUME NEW c \in Client, \A a \in Authority : slot'[c][a] # "none",
           NEW rest, rest \cap Authority = {}, rest \cap Fallbacks = {},
           \/ WentOn(c, "condDelete", rest) \/ WentOn(c, "condSet", rest),
           \A k \in won'[c] \cap puts[c] : id'[c] \in past'[k]
    PROVE  CallerOnCourse(c)'
<1>1. CASE Returned(c)
  BY <1>1, IdleOnCourse DEF Returned
<1>2. CASE /\ op'[c] = "condDelete" \/ op'[c] = "condSet"
           /\ todo'[c] = rest /\ puts'[c] = puts[c]
  BY <1>2 DEF CallerOnCourse
<1> QED
  BY <1>1, <1>2 DEF WentOn

\* What follows a conditional commit starts on course.
LEMMA AfterCommitOnCourse ==
    ASSUME TypeOK, NEW c \in Client, NEW W, AfterCommit(c, W),
           \A a \in Authority : slot'[c][a] # "none",
           \A k \in won'[c] \cap puts[c] : id'[c] \in past'[k]
    PROVE  CallerOnCourse(c)' /\ OthersStay(c)
<1>1. PICK rest : /\ rest \subseteq RemovedAfterCommit \cup Dependents
                  /\ \/ WentOn(c, "condDelete", rest) \/ WentOn(c, "condSet", rest)
  BY AfterCommitWentOn
<1>2. rest \cap Authority = {} /\ rest \cap Fallbacks = {}
  BY <1>1, Disjoint, RolesPartition DEF Written
<1> QED
  BY <1>1, <1>2, SyncingOnCourse, WentOnOthers

\* The conditional write of components and authority stays on course.
LEMMA CondOnCourse ==
    ASSUME TypeOK, OnCourse, NEW c \in Client,
           CondComponent(c) \/ CondAuthority(c) \/ CondFails(c)
    PROVE  OnCourse'
<1>a. MediaOnCourse /\ CallerOnCourse(c) /\ op[c] = "cond"
  BY DEF OnCourse, CondComponent, CondAuthority, CondFails
<1>b. todo[c] \cap Fallbacks = {} /\ \A a \in Authority : slot[c][a] # "none"
  BY <1>a DEF CallerOnCourse
<1>c. \A t \in First(todo[c], CommitRank) : t \in Target \ Fallbacks
  BY <1>b, FirstIsIn DEF TypeOK
<1>d. Components \cap Dependents = {} /\ Components \cap Authority = {}
  BY Disjoint
<1>1. ASSUME CondComponent(c) PROVE OnCourse'
  <2>1. PICK t \in First(todo[c], CommitRank) \cap Components :
          /\ Store(t, Changed(c, t, puts[c]), SlotValue(c, t))
          /\ Continue(c, "cond", todo[c] \ {t})
    BY <1>1 DEF CondComponent
  <2>2. /\ keys' = keys /\ id' = id /\ slot' = slot /\ won' = won
        /\ last' = last /\ past' = past
    BY <1>1 DEF CondComponent, call, history
  <2>3. t \in Target \ (Authority \cup Fallbacks) /\ t \notin Dependents
    BY <2>1, <1>c, <1>d
  <2>4. MediaOnCourse'
    BY <1>a, <2>1, <2>2, <2>3, SyncKeepsMedia
  <2>5. \A k \in Key : FromFallback(k)' = FromFallback(k)
    BY <2>1, <2>3, FallbacksKept
  <2>6. WentOn(c, "cond", todo[c] \ {t})
    BY <2>1, ContinueWentOn
  <2>7. CallerOnCourse(c)'
    <3>1. CASE Returned(c)
      BY <1>b, <2>2, <3>1, IdleOnCourse DEF Returned
    <3>2. CASE op'[c] = "cond" /\ todo'[c] = todo[c] \ {t}
      BY <1>b, <2>2, <3>2 DEF CallerOnCourse
    <3> QED
      BY <2>6, <3>1, <3>2 DEF WentOn
  <2> QED
    BY <2>2, <2>4, <2>5, <2>6, <2>7, WentOnOthers, OnCourseKept
<1>2. ASSUME CondAuthority(c) PROVE OnCourse'
  <2>1. PICK t \in First(todo[c], CommitRank) \cap Authority :
          /\ Apply(c, t, StillSeen(c, t))
          /\ won' = [won EXCEPT ![c] = StillSeen(c, t)]
          /\ AfterCommit(c, StillSeen(c, t))
    BY <1>2 DEF CondAuthority
  <2>2. keys' = keys /\ id' = id /\ slot' = slot
    BY <1>2 DEF CondAuthority
  <2>3. /\ MediaOnCourse'
        /\ \A k \in Key : FromFallback(k)' = FromFallback(k)
        /\ \A k \in Key : past[k] \subseteq past'[k]
        /\ \A k \in Key \cap StillSeen(c, t) \cap puts[c] : id[c] \in past'[k]
    BY <1>a, <2>1, ApplyKeepsMedia
  <2>4. /\ won'[c] = StillSeen(c, t) /\ StillSeen(c, t) \subseteq Key
        /\ \A d \in Client \ {c} : won'[d] = won[d]
    BY <2>1 DEF TypeOK, StillSeen
  <2>5. CallerOnCourse(c)' /\ OthersStay(c)
    BY <1>b, <2>1, <2>2, <2>3, <2>4, AfterCommitOnCourse
  <2> QED
    BY <2>2, <2>3, <2>4, <2>5, OnCourseKept
<1>3. ASSUME CondFails(c) PROVE OnCourse'
  <2>1. PICK t \in First(todo[c], CommitRank) :
          \/ /\ t \in Components
             /\ Raise(t, Changed(c, t, puts[c]), SlotValue(c, t))
          \/ t \in Authority /\ \E W : Apply(c, t, W)
    BY <1>3 DEF CondFails
  <2>2. keys' = keys /\ id' = id /\ slot' = slot /\ won' = won
    BY <1>3 DEF CondFails, call
  <2>3. /\ MediaOnCourse'
        /\ \A k \in Key : FromFallback(k)' = FromFallback(k)
        /\ \A k \in Key : past[k] \subseteq past'[k]
    <3>1. CASE t \in Components /\ Raise(t, Changed(c, t, puts[c]), SlotValue(c, t))
      <4>1. Changed(c, t, puts[c]) \in SUBSET Key
        BY DEF TypeOK, Changed
      <4>2. t \notin Dependents /\ t \in Target \ Fallbacks
        BY <1>c, <1>d, <3>1
      <4> QED
        BY <1>a, <3>1, <4>1, <4>2, RaiseKeepsMedia
    <3>2. CASE t \in Authority /\ \E W : Apply(c, t, W)
      BY <1>a, <3>2, ApplyKeepsMedia
    <3> QED
      BY <2>1, <3>1, <3>2
  <2>4. Returned(c)
    BY <1>3, FinishReturns DEF CondFails
  <2>5. CallerOnCourse(c)'
    BY <1>b, <2>2, <2>4, IdleOnCourse DEF Returned
  <2> QED
    BY <2>2, <2>3, <2>4, <2>5, OnCourseKept DEF Returned
<1> QED
  BY <1>1, <1>2, <1>3

\* The syncs after a conditional commit stay on course.
LEMMA CondSyncOnCourse ==
    ASSUME TypeOK, OnCourse, NEW c \in Client,
           CondDelete(c) \/ CondSet(c) \/ CondSyncFails(c)
    PROVE  OnCourse'
<1>1. MediaOnCourse /\ CallerOnCourse(c) /\ op[c] \in {"condDelete", "condSet"}
  BY DEF OnCourse, CondDelete, CondSet, CondSyncFails
<1>2. keys' = keys /\ id' = id /\ slot' = slot /\ won' = won
  BY DEF CondDelete, CondSet, CondSyncFails, call
<1>3. /\ todo[c] \cap Fallbacks = {} /\ todo[c] \cap Authority = {}
      /\ \A a \in Authority : slot[c][a] # "none"
      /\ \A k \in won[c] \cap puts[c] : id[c] \in past[k]
  BY <1>1 DEF CallerOnCourse
<1>4. won[c] \in SUBSET Key /\ id[c] \in Val /\ \A k \in Key : Absent \in past[k]
  BY <1>1 DEF TypeOK, MediaOnCourse
<1>5. PICK t \in todo[c], K \in SUBSET Key, v \in Val :
        /\ \A k \in K : v \in past[k]
        /\ \/ Raise(t, K, v)
           \/ Store(t, K, v) /\ last' = last /\ past' = past
        /\ \/ \E W : AfterCommit(c, W)
           \/ Continue(c, op[c], todo[c] \ {t})
           \/ Settle(c, t, todo[c] \ {t})
  <2>1. ASSUME NEW t \in First(todo[c], RemovalRank)
        PROVE  /\ t \in todo[c] /\ Absent \in Val
               /\ \A k \in won[c] \ puts[c] : Absent \in past[k]
    BY <1>4, FirstIsIn, AbsentIsVal
  <2>2. ASSUME NEW t \in First(todo[c], CommitRank)
        PROVE  /\ t \in todo[c]
               /\ Changed(c, t, won[c] \cap puts[c]) \in SUBSET Key
               /\ SlotValue(c, t) \in Val
               /\ \A k \in Changed(c, t, won[c] \cap puts[c]) : SlotValue(c, t) \in past[k]
    BY <1>3, <1>4, FirstIsIn, AbsentIsVal DEF Changed, SlotValue
  <2>3. CASE CondDelete(c)
    <3>1. PICK t \in First(todo[c], RemovalRank) :
            /\ Store(t, won[c] \ puts[c], Absent)
            /\ IF todo[c] = {t} THEN AfterCommit(c, won[c] \cap puts[c])
               ELSE Continue(c, "condDelete", todo[c] \ {t})
      BY <2>3 DEF CondDelete
    <3>2. op[c] = "condDelete" /\ last' = last /\ past' = past
      BY <2>3 DEF CondDelete, history
    <3> QED
      BY <1>4, <2>1, <3>1, <3>2
  <2>4. CASE CondSet(c)
    <3>1. PICK t \in First(todo[c], CommitRank) :
            /\ Store(t, Changed(c, t, won[c] \cap puts[c]), SlotValue(c, t))
            /\ Continue(c, "condSet", todo[c] \ {t})
      BY <2>4 DEF CondSet
    <3>2. op[c] = "condSet" /\ last' = last /\ past' = past
      BY <2>4 DEF CondSet, history
    <3> QED
      BY <2>2, <3>1, <3>2
  <2>5. CASE CondSyncFails(c)
    <3>1. ASSUME NEW t \in First(todo[c], RemovalRank),
                 Raise(t, won[c] \ puts[c], Absent),
                 IF todo[c] = {t} /\ t \in Dependents \ Required
                 THEN AfterCommit(c, won[c] \cap puts[c])
                 ELSE Settle(c, t, todo[c] \ {t})
          PROVE  \E u \in todo[c], K \in SUBSET Key, v \in Val :
                   /\ \A k \in K : v \in past[k]
                   /\ Raise(u, K, v)
                   /\ \/ \E W : AfterCommit(c, W)
                      \/ Settle(c, u, todo[c] \ {u})
      BY <1>4, <2>1, <3>1
    <3>2. ASSUME NEW t \in First(todo[c], CommitRank),
                 Raise(t, Changed(c, t, won[c] \cap puts[c]), SlotValue(c, t)),
                 Settle(c, t, todo[c] \ {t})
          PROVE  \E u \in todo[c], K \in SUBSET Key, v \in Val :
                   /\ \A k \in K : v \in past[k]
                   /\ Raise(u, K, v)
                   /\ Settle(c, u, todo[c] \ {u})
      BY <2>2, <3>2
    <3> QED
      BY <2>5, <3>1, <3>2 DEF CondSyncFails
  <2> QED
    BY <2>3, <2>4, <2>5
<1>6. t \in Target \ (Authority \cup Fallbacks) /\ t \in Target \ Fallbacks
  BY <1>3, <1>5 DEF TypeOK
<1>7. /\ MediaOnCourse'
      /\ \A k \in Key : FromFallback(k)' = FromFallback(k)
      /\ \A k \in Key : past[k] \subseteq past'[k]
  <2>1. CASE Raise(t, K, v)
    BY <1>1, <1>5, <1>6, <2>1, RaiseKeepsMedia
  <2>2. CASE Store(t, K, v) /\ last' = last /\ past' = past
    <3>1. MediaOnCourse'
      BY <1>1, <1>5, <1>6, <2>2, SyncKeepsMedia
    <3> QED
      BY <1>6, <2>2, <3>1, FallbacksKept
  <2> QED
    BY <1>5, <2>1, <2>2
<1>8. \A k \in won'[c] \cap puts[c] : id'[c] \in past'[k]
  BY <1>2, <1>3, <1>4, <1>7
<1>9. CallerOnCourse(c)' /\ OthersStay(c)
  <2>1. CASE \E W : AfterCommit(c, W)
    BY <1>2, <1>3, <1>8, <2>1, AfterCommitOnCourse
  <2>2. CASE WentOn(c, op[c], todo[c] \ {t})
    <3>1. \/ WentOn(c, "condDelete", todo[c] \ {t})
          \/ WentOn(c, "condSet", todo[c] \ {t})
      BY <1>1, <2>2
    <3>2. /\ (todo[c] \ {t}) \cap Authority = {}
          /\ (todo[c] \ {t}) \cap Fallbacks = {}
      BY <1>3
    <3> QED
      BY <1>2, <1>3, <1>8, <3>1, <3>2, SyncingOnCourse, WentOnOthers
  <2> QED
    BY <1>5, <2>1, <2>2, ContinueWentOn, SettleWentOn
<1> QED
  BY <1>2, <1>7, <1>9, OnCourseKept

-----------------------------------------------------------------------------
(***************************************************************************)
(* get and its fills.                                                      *)
(***************************************************************************)

\* A fill of the authority: what a fallback holds, where nothing is committed.
LEMMA FillKeepsMedia ==
    ASSUME TypeOK, MediaOnCourse, NEW t \in Authority, NEW K, NEW v, Store(t, K, v),
           \A k \in Key \cap K : held[t][k] = Absent /\ v \in FromFallback(k),
           last' = last, past' = past
    PROVE  MediaOnCourse'
<1>0. t \in Target \ Fallbacks
  BY RolesPartition, Disjoint
<1>1. \A k \in Key : FromFallback(k)' = FromFallback(k)
  BY <1>0, FallbacksKept
<1>2. \A u \in Target \ {t} : held'[u] = held[u]
  BY <1>0 DEF TypeOK, Store
<1>3. \A k \in Key : held'[t][k] = IF k \in K THEN v ELSE held[t][k]
  BY <1>0 DEF TypeOK, Store
<1>4. \A a \in Authority : a = t
  BY DeclarationAssumption DEF WellFormed
<1>5. CommitBeforeDerive'
  BY <1>1, <1>2, RolesPartition, Disjoint DEF MediaOnCourse, CommitBeforeDerive
<1>6. AuthorityIsLastCommit'
  BY <1>1, <1>3, <1>4 DEF MediaOnCourse, AuthorityIsLastCommit
<1> QED
  BY <1>5, <1>6 DEF MediaOnCourse

\* What a read finds was committed or is a fallback's, and only a fallback is
\* upstream of the authority.
LEMMA ReadFinds ==
    ASSUME TypeOK, MediaOnCourse, NEW t \in Consulted, NEW k \in Key, NEW missed
    PROVE  /\ held[t][k] \in past[k] \cup FromFallback(k)
           /\ Fillable(t, missed) \cap Fallbacks = {}
           /\ Fillable(t, missed) \cap Authority # {} => held[t][k] \in FromFallback(k)
<1>1. t \in Authority \cup Dependents \cup Fallbacks
  BY DEF Consulted
<1>2. t \in Fallbacks => held[t][k] \in FromFallback(k)
  BY DEF FromFallback
<1>3. t \in Authority => held[t][k] \in past[k] \cup FromFallback(k)
  BY DEF MediaOnCourse, AuthorityIsLastCommit
<1>4. t \in Dependents => held[t][k] \in past[k] \cup FromFallback(k)
  BY DEF MediaOnCourse, CommitBeforeDerive
<1>5. Fillable(t, missed) \cap Fallbacks = {}
  BY Disjoint DEF Fillable
<1>6. ASSUME NEW a \in Fillable(t, missed) \cap Authority PROVE t \in Fallbacks
  <2>1. StreamOrder[a] > StreamOrder[t]
    BY DEF Fillable
  <2>2. StreamOrder[a] = 1 /\ (t \in Authority => StreamOrder[t] = 1)
        /\ (t \in Dependents => StreamOrder[t] = 2)
    BY DEF StreamOrder, Authority, Dependents, ByRole
  <2> QED
    BY <1>1, <2>1, <2>2
<1> QED
  BY <1>1, <1>2, <1>3, <1>4, <1>5, <1>6

\* A read of a target, found or not, stays on course.
LEMMA ReadOnCourse ==
    ASSUME TypeOK, OnCourse, NEW c \in Client, ReadTarget(c) PROVE OnCourse'
<1>1. PICK t \in First(todo[c], LookupRank), k \in keys[c] :
        IF held[t][k] = Absent
        THEN id' = id /\ Continue(c, "get", todo[c] \ {t})
        ELSE /\ id' = [id EXCEPT ![c] = held[t][k]]
             /\ Continue(c, "fill", Fillable(t, Consulted \ todo[c]))
  BY DEF ReadTarget
<1>2. MediaOnCourse /\ CallerOnCourse(c) /\ op[c] = "get"
  BY DEF OnCourse, ReadTarget
<1>3. /\ held' = held /\ keys' = keys /\ slot' = slot /\ won' = won
      /\ last' = last /\ past' = past
  BY DEF ReadTarget, history
<1>4. /\ \A a \in Authority : slot[c][a] # "none"
      /\ todo[c] \subseteq Consulted
      /\ \A l \in keys[c] : l = k
  BY <1>1, <1>2 DEF CallerOnCourse
<1>5. /\ MediaOnCourse' /\ \A l \in Key : past[l] \subseteq past'[l]
      /\ \A l \in Key : FromFallback(l)' = FromFallback(l)
  BY <1>2, <1>3, MediaStill
<1>6. \A d \in Client \ {c} : id'[d] = id[d]
  BY <1>1 DEF TypeOK
<1>7. CASE held[t][k] = Absent
  <2>1. WentOn(c, "get", todo[c] \ {t})
    BY <1>1, <1>7, ContinueWentOn
  <2>2. CallerOnCourse(c)'
    <3>1. CASE Returned(c)
      BY <1>3, <1>4, <3>1, IdleOnCourse DEF Returned
    <3>2. CASE op'[c] = "get" /\ todo'[c] = todo[c] \ {t}
      BY <1>3, <1>4, <3>2 DEF CallerOnCourse
    <3> QED
      BY <2>1, <3>1, <3>2 DEF WentOn
  <2> QED
    BY <1>3, <1>5, <1>6, <2>1, <2>2, WentOnOthers, OnCourseKept
<1>8. CASE held[t][k] # Absent
  <2> DEFINE into == Fillable(t, Consulted \ todo[c])
  <2>1. WentOn(c, "fill", into) /\ id'[c] = held[t][k]
    BY <1>1, <1>8, ContinueWentOn DEF TypeOK
  <2>2. /\ held[t][k] \in past[k] \cup FromFallback(k)
        /\ into \cap Fallbacks = {}
        /\ into \cap Authority # {} => held[t][k] \in FromFallback(k)
    <3>1. t \in Consulted /\ k \in Key
      BY <1>4, FirstIsIn DEF TypeOK
    <3> QED
      BY <1>2, <3>1, ReadFinds
  <2> HIDE DEF into
  <2>3. CallerOnCourse(c)'
    <3>1. CASE Returned(c)
      BY <1>3, <1>4, <3>1, IdleOnCourse DEF Returned
    <3>2. CASE op'[c] = "fill" /\ todo'[c] = into
      <4>1. FromFallback(k)' = FromFallback(k) /\ past'[k] = past[k]
        BY <1>3, <1>5 DEF TypeOK
      <4>2. \A l \in keys'[c] : /\ id'[c] \in past'[l] \cup FromFallback(l)'
                                /\ todo'[c] \cap Authority # {} => id'[c] \in FromFallback(l)'
        BY <1>3, <1>4, <2>1, <2>2, <3>2, <4>1
      <4> QED
        BY <1>3, <1>4, <2>2, <3>2, <4>2 DEF CallerOnCourse
    <3> QED
      BY <2>1, <3>1, <3>2 DEF WentOn
  <2> QED
    BY <1>3, <1>5, <1>6, <2>1, <2>3, WentOnOthers, OnCourseKept
<1> QED
  BY <1>7, <1>8

\* A fill, made or failed, stays on course.
LEMMA FillOnCourse ==
    ASSUME TypeOK, OnCourse, NEW c \in Client, FillTarget(c) \/ FillFails(c)
    PROVE  OnCourse'
<1>1. PICK t \in First(todo[c], LookupRank) :
        /\ Store(t, Missing(c, t), id[c]) \/ held' = held
        /\ Continue(c, "fill", todo[c] \ {t})
  BY DEF FillTarget, FillFails
<1>2. MediaOnCourse /\ CallerOnCourse(c) /\ op[c] = "fill"
  BY DEF OnCourse, FillTarget, FillFails
<1>3. /\ keys' = keys /\ id' = id /\ slot' = slot /\ won' = won
      /\ last' = last /\ past' = past
  BY DEF FillTarget, FillFails, call, history
<1>4. /\ \A a \in Authority : slot[c][a] # "none"
      /\ todo[c] \cap Fallbacks = {}
      /\ \A k \in keys[c] : /\ id[c] \in past[k] \cup FromFallback(k)
                            /\ todo[c] \cap Authority # {} => id[c] \in FromFallback(k)
  BY <1>2 DEF CallerOnCourse
<1>5. t \in todo[c] /\ t \in Target \ Fallbacks /\ keys[c] \in SUBSET Key
  BY <1>4, FirstIsIn DEF TypeOK
<1>6. /\ MediaOnCourse' /\ \A k \in Key : past[k] \subseteq past'[k]
      /\ \A k \in Key : FromFallback(k)' = FromFallback(k)
  <2>1. CASE held' = held
    BY <1>2, <1>3, <2>1, MediaStill
  <2>2. CASE Store(t, Missing(c, t), id[c])
    <3>1. \A k \in Missing(c, t) : k \in keys[c] /\ held[t][k] = Absent
      BY DEF Missing
    <3>2. CASE t \in Authority
      <4>1. MediaOnCourse'
        BY <1>2, <1>3, <1>4, <1>5, <2>2, <3>1, <3>2, FillKeepsMedia
      <4> QED
        BY <1>3, <1>5, <2>2, <4>1, FallbacksKept
    <3>3. CASE t \notin Authority
      <4>1. t \in Target \ (Authority \cup Fallbacks)
        BY <1>5, <3>3
      <4>2. MediaOnCourse'
        BY <1>2, <1>3, <1>4, <2>2, <3>1, <4>1, SyncKeepsMedia
      <4> QED
        BY <1>3, <1>5, <2>2, <4>2, FallbacksKept
    <3> QED
      BY <3>2, <3>3
  <2> QED
    BY <1>1, <2>1, <2>2
<1>7. WentOn(c, "fill", todo[c] \ {t})
  BY <1>1, ContinueWentOn
<1>8. CallerOnCourse(c)'
  <2>1. CASE Returned(c)
    BY <1>3, <1>4, <2>1, IdleOnCourse DEF Returned
  <2>2. CASE op'[c] = "fill" /\ todo'[c] = todo[c] \ {t}
    <3>1. \A k \in keys'[c] : /\ id'[c] \in past'[k] \cup FromFallback(k)'
                              /\ todo'[c] \cap Authority # {} => id'[c] \in FromFallback(k)'
      BY <1>3, <1>4, <1>5, <1>6, <2>2
    <3> QED
      BY <1>3, <1>4, <2>2, <3>1 DEF CallerOnCourse
  <2> QED
    BY <1>7, <2>1, <2>2 DEF WentOn
<1> QED
  BY <1>3, <1>6, <1>7, <1>8, WentOnOthers, OnCourseKept

\* Steps that change no medium: a decision, a part read, an error, a crash.
LEMMA QuietOnCourse ==
    ASSUME TypeOK, OnCourse, NEW c \in Client,
           \/ DecideNothing(c) \/ ReadFails(c) \/ AssemblePart(c) \/ Crash(c)
    PROVE  OnCourse'
<1>1. MediaOnCourse /\ CallerOnCourse(c)
  BY DEF OnCourse
<1>2. /\ held' = held /\ keys' = keys /\ id' = id /\ slot' = slot /\ won' = won
      /\ last' = last /\ past' = past
  BY DEF DecideNothing, ReadFails, AssemblePart, Crash, call, history
<1>3. /\ MediaOnCourse' /\ \A k \in Key : past[k] \subseteq past'[k]
      /\ \A k \in Key : FromFallback(k)' = FromFallback(k)
  BY <1>1, <1>2, MediaStill
<1>4. \E rest : WentOn(c, "assemble", rest)
  <2>1. CASE AssemblePart(c)
    BY <2>1, ContinueWentOn, FinishReturns DEF AssemblePart, WentOn
  <2>2. CASE DecideNothing(c) \/ ReadFails(c) \/ Crash(c)
    BY <2>2, FinishReturns DEF DecideNothing, ReadFails, Crash, WentOn
  <2> QED
    BY <2>1, <2>2
<1>5. CallerOnCourse(c)' /\ OthersStay(c)
  <2>1. \A a \in Authority : slot'[c][a] # "none"
    BY <1>1, <1>2 DEF CallerOnCourse
  <2>2. CASE Returned(c)
    BY <2>1, <2>2, IdleOnCourse DEF Returned
  <2>3. CASE OthersStay(c) /\ op'[c] = "assemble"
    BY <2>1, <2>3 DEF CallerOnCourse
  <2> QED
    BY <1>4, <2>2, <2>3 DEF WentOn
<1> QED
  BY <1>2, <1>3, <1>5, OnCourseKept

\* A decision about what was read stays on course.
LEMMA DecideOnCourse ==
    ASSUME TypeOK, OnCourse, NEW c \in Client, NEW P, NEW R, Decide(c, P, R)
    PROVE  OnCourse'
<1>1. PICK same \in SUBSET (Dependents \cap Parts) :
        slot' = [slot EXCEPT ![c] = [t \in Target |->
                   IF t \in same \cup Components THEN "same" ELSE "put"]]
  BY DEF Decide
<1>2. held' = held /\ last' = last /\ past' = past /\ won' = won
  BY DEF Decide, history
<1>3. /\ op'[c] = "cond"
      /\ todo'[c] \subseteq Authority \cup Components
      /\ \A d \in Client \ {c} : /\ op'[d] = op[d] /\ todo'[d] = todo[d]
                                  /\ keys'[d] = keys[d] /\ id'[d] = id[d]
                                  /\ puts'[d] = puts[d]
  BY DEF Decide, TypeOK
<1>4. /\ \A a \in Authority : slot'[c][a] # "none"
      /\ \A d \in Client \ {c} : slot'[d] = slot[d]
  BY <1>1, RolesPartition DEF TypeOK
<1>5. /\ MediaOnCourse' /\ \A k \in Key : past[k] \subseteq past'[k]
      /\ \A k \in Key : FromFallback(k)' = FromFallback(k)
  BY <1>2, MediaStill DEF OnCourse
<1>6. CallerOnCourse(c)'
  BY <1>3, <1>4, Disjoint DEF CallerOnCourse
<1> QED
  BY <1>2, <1>3, <1>4, <1>5, <1>6, OnCourseKept DEF OthersStay

-----------------------------------------------------------------------------
\* Every step keeps every call on course.
LEMMA NextOnCourse == TypeOK /\ OnCourse /\ [Next]_vars => OnCourse'
<1> SUFFICES ASSUME TypeOK, OnCourse, [Next]_vars PROVE OnCourse'
  OBVIOUS
<1>1. CASE UNCHANGED vars
  BY <1>1 DEF vars, call, history, OnCourse, MediaOnCourse, CallerOnCourse,
              CommitBeforeDerive, AuthorityIsLastCommit, FromFallback
<1>2. ASSUME NEW c \in Client, Start(c) \/ Step(c) \/ Crash(c) PROVE OnCourse'
  BY <1>2, StartOnCourse, WriteOnCourse, WriteFailsOnCourse, DeleteOnCourseStep,
     CondOnCourse, CondSyncOnCourse, ReadOnCourse, FillOnCourse, QuietOnCourse,
     DecideOnCourse DEF Step, CondTarget, LookUp
<1> QED
  BY <1>1, <1>2 DEF Next

\* The inductive invariant: from any declaration the code accepts, no step of
\* any caller, and no failure or crash, leads off course.
THEOREM StaysOnCourse == Spec => []OnCourse
<1>1. Init => OnCourse
  <2> SUFFICES ASSUME Init PROVE OnCourse
    OBVIOUS
  <2>1. \A t \in Target \ Fallbacks : \A k \in Key : held[t][k] = Absent
    BY DEF Init
  <2>2. \A k \in Key : last[k] = Absent /\ past[k] = {Absent}
    BY DEF Init
  <2>3. MediaOnCourse
    BY <2>1, <2>2, RolesPartition, Disjoint
       DEF MediaOnCourse, CommitBeforeDerive, AuthorityIsLastCommit
  <2>4. ASSUME NEW c \in Client PROVE CallerOnCourse(c)
    <3>1. op[c] = "idle" /\ todo[c] = {} /\ \A a \in Authority : slot[c][a] = "put"
      BY RolesPartition DEF Init
    <3> QED
      BY <3>1 DEF CallerOnCourse
  <2> QED
    BY <2>3, <2>4 DEF OnCourse
<1> QED
  BY <1>1, NextOnCourse, TypeCorrect, PTL DEF Spec

\* Law 1, for every declaration: a copy, a cache or an index never holds what
\* was not committed, unless a fallback holds it.
THEOREM CommitsBeforeDeriving == Spec => []CommitBeforeDerive
<1>1. OnCourse => CommitBeforeDerive
  BY DEF OnCourse, MediaOnCourse
<1> QED
  BY <1>1, StaysOnCourse, PTL

\* Laws 6 and 7, for every declaration: nothing a read fills undoes a commit.
THEOREM AuthorityKeepsLastCommit == Spec => []AuthorityIsLastCommit
<1>1. OnCourse => AuthorityIsLastCommit
  BY DEF OnCourse, MediaOnCourse
<1> QED
  BY <1>1, StaysOnCourse, PTL

-----------------------------------------------------------------------------
(***************************************************************************)
(* Laws 2, 6 and 8: what a call leaves behind.  Every value is made by one *)
(* call, and once the authority lets go of it, it never returns; callers   *)
(* that take turns own the keys they change.                               *)
(***************************************************************************)

\* The calls that make a value of their own, and those yet to commit it.
Writes(c) == did[c] = "write" \/ op[c] = "cond"
Pending(c) == \/ op[c] = "write" /\ todo[c] \cap RemovedNow # {}
              \/ op[c] = "cond"

Conditional == {"decide", "cond", "condDelete", "condSet"}
Reading == {"get", "fill", "assemble"}

\* A call is in a phase of the operation it began, for the keys it is about.
InPhase(c) ==
    /\ op[c] = "idle" => todo[c] = {}
    /\ op[c] \in {"write", "delete"} => did[c] = op[c]
    /\ op[c] \in Conditional => did[c] \in {"insert", "update"}
    /\ op[c] \in Reading => did[c] = "get"
    /\ op[c] \in {"get", "fill"} => ~ Assembled
    /\ op[c] = "fill" => todo[c] \subseteq Fill
    /\ did[c] = "get" => \A k, l \in keys[c] : k = l
    /\ op[c] \in {"cond", "condDelete", "condSet"} => puts[c] \subseteq keys[c]
    /\ op[c] \in {"condDelete", "condSet"} => won[c] \subseteq keys[c]
    /\ op[c] = "condSet" => todo[c] \subseteq Dependents
    /\ op[c] \notin Conditional => \A k \in Key : seen[c][k] = Absent
    /\ \A t \in Target : slot[c][t] = "none" => t \in Optional

\* What the outcome of a write says of its commit.
CallerTold(c) ==
    /\ Writes(c) => id[c] > Old /\ id[c] < nextId
    /\ Pending(c) => \A k \in Key : id[c] \notin past[k]
    /\ op[c] = "idle" /\ did[c] = "write" =>
         /\ out[c] \in {"ok", "partial"} => \A k \in keys[c] : id[c] \in past[k]
         /\ ~ PartialCalls /\ out[c] = "uncommitted" => \A k \in Key : id[c] \notin past[k]

\* No two calls make the same value, nor one a fallback had from the start.
ValuesApart ==
    /\ nextId > Old
    /\ \A k \in Key : \A v \in past[k] : v < nextId
    /\ \A t \in Fallbacks, k \in Key : held[t][k] <= Old
    /\ \A c, d \in Client : c # d /\ Writes(c) /\ Writes(d) => id[c] # id[d]

Told == ValuesApart /\ \A c \in Client : InPhase(c) /\ CallerTold(c)

-----------------------------------------------------------------------------
(***************************************************************************)
(* What a step changes, target by target and key by key.                   *)
(***************************************************************************)

\* The values and the phase of every caller but c stay.
Others(c) ==
    \A d \in Client \ {c} :
        /\ op'[d] = op[d] /\ did'[d] = did[d] /\ keys'[d] = keys[d] /\ id'[d] = id[d]
        /\ todo'[d] = todo[d] /\ slot'[d] = slot[d] /\ puts'[d] = puts[d]
        /\ seen'[d] = seen[d] /\ won'[d] = won[d] /\ got'[d] = got[d]
        /\ out'[d] = out[d]

\* Of the variables that Finish and Continue set.
PhasesStay(c) ==
    \A d \in Client \ {c} :
        /\ op'[d] = op[d] /\ todo'[d] = todo[d] /\ puts'[d] = puts[d]
        /\ seen'[d] = seen[d] /\ out'[d] = out[d]

Ends(c, outcome) ==
    /\ op'[c] = "idle" /\ todo'[c] = {} /\ puts'[c] = {} /\ out'[c] = outcome
    /\ \A k \in Key : seen'[c][k] = Absent

GoesOn(c, what, rest) ==
    /\ rest # {} /\ op'[c] = what /\ todo'[c] = rest
    /\ puts'[c] = puts[c] /\ seen'[c] = seen[c] /\ out'[c] = out[c]

\* A call that finishes is idle, and no other has moved.
LEMMA FinishEnds ==
    ASSUME TypeOK, NEW c \in Client, NEW outcome, Finish(c, outcome)
    PROVE  PhasesStay(c) /\ Ends(c, outcome)
<1>1. PhasesStay(c)
  BY DEF TypeOK, Finish, PhasesStay
<1>2. seen'[c] = [k \in Key |-> Absent]
  BY DEF TypeOK, Finish
<1>3. op'[c] = "idle" /\ todo'[c] = {} /\ puts'[c] = {} /\ out'[c] = outcome
  BY DEF TypeOK, Finish
<1> QED
  BY <1>1, <1>2, <1>3 DEF Ends

\* A call that continues ends if nothing is left, and else goes on.
LEMMA ContinueEither ==
    ASSUME TypeOK, NEW c \in Client, NEW what, NEW rest, Continue(c, what, rest)
    PROVE  /\ PhasesStay(c)
           /\ (rest = {} /\ Ends(c, "ok")) \/ GoesOn(c, what, rest)
<1>1. CASE rest = {}
  BY <1>1, FinishEnds DEF Continue
<1>2. CASE rest # {}
  BY <1>2 DEF Continue, PhasesStay, GoesOn, TypeOK
<1> QED
  BY <1>1, <1>2

\* A failed sync is tolerated and the call continues, or it ends the call.
LEMMA SettleEither ==
    ASSUME TypeOK, NEW c \in Client, NEW t, NEW rest, Settle(c, t, rest)
    PROVE  /\ PhasesStay(c)
           /\ \/ Ends(c, "partial")
              \/ /\ t \in Dependents \ Required
                 /\ (rest = {} /\ Ends(c, "ok")) \/ GoesOn(c, op[c], rest)
BY ContinueEither, FinishEnds DEF Settle

\* What follows the authority's answer: the removals, the dependents, nothing.
LEMMA AfterCommitEither ==
    ASSUME TypeOK, NEW c \in Client, NEW W, AfterCommit(c, W)
    PROVE  /\ PhasesStay(c)
           /\ \/ Ends(c, "ok")
              \/ GoesOn(c, "condDelete", RemovedAfterCommit)
              \/ \E S \in SUBSET Dependents : GoesOn(c, "condSet", S)
<1> DEFINE S == {t \in Dependents : Changed(c, t, W \cap puts[c]) # {}}
<1>1. \/ Continue(c, "condDelete", RemovedAfterCommit)
      \/ Continue(c, "condSet", S)
  BY DEF AfterCommit
<1>2. S \in SUBSET Dependents
  OBVIOUS
<1> HIDE DEF S
<1> QED
  BY <1>1, <1>2, ContinueEither

\* One call to a medium, entry by entry.
LEMMA StoreDoes ==
    ASSUME TypeOK, NEW t \in Target, NEW K, NEW v, Store(t, K, v)
    PROVE  \A u \in Target, k \in Key :
             held'[u][k] = IF u = t /\ k \in K THEN v ELSE held[u][k]
BY DEF TypeOK, Store

\* The history of a call, key by key.
LEMMA RecordDoes ==
    ASSUME NEW t, NEW K, NEW v, Record(t, K, v)
    PROVE  /\ owner' = owner
           /\ \A k \in Key : past'[k] = IF t \in Authority /\ k \in K
                                        THEN past[k] \cup {v} ELSE past[k]
BY DEF Record

\* A call that raises was made for some of its keys, or for none.
LEMMA RaiseDoes ==
    ASSUME NEW t, NEW K, NEW v, Raise(t, K, v)
    PROVE  \E S \in SUBSET K : /\ ~ PartialCalls => S = {}
                               /\ Store(t, S, v) /\ Record(t, S, v)
BY DEF Raise

\* The conditional write of the authority, entry by entry.
LEMMA ApplyDoes ==
    ASSUME TypeOK, NEW c \in Client, NEW t \in Target, NEW W, Apply(c, t, W)
    PROVE  /\ owner' = owner
           /\ \A u \in Target, k \in Key :
                held'[u][k] = IF u = t /\ k \in W
                              THEN IF k \in puts[c] THEN id[c] ELSE Absent
                              ELSE held[u][k]
           /\ \A k \in Key : /\ k \notin W => past'[k] = past[k]
                             /\ k \in W /\ k \in puts[c] => past'[k] = past[k] \cup {id[c]}
                             /\ k \in W /\ k \notin puts[c] => past'[k] = past[k] \cup {Absent}
<1> DEFINE new == [k \in Key |-> IF k \notin W THEN held[t][k]
                                 ELSE IF k \in puts[c] THEN id[c] ELSE Absent]
<1>1. /\ held' = [held EXCEPT ![t] = new]
      /\ past' = [k \in Key |-> IF k \in W THEN past[k] \cup {new[k]} ELSE past[k]]
      /\ owner' = owner
  BY DEF Apply
<1>2. \A k \in Key : /\ k \notin W => new[k] = held[t][k]
                     /\ k \in W => new[k] = IF k \in puts[c] THEN id[c] ELSE Absent
  OBVIOUS
<1> HIDE DEF new
<1>3. \A u \in Target : held'[u] = IF u = t THEN new ELSE held[u]
  BY <1>1 DEF TypeOK
<1>4. \A u \in Target, k \in Key :
        held'[u][k] = IF u = t /\ k \in W
                      THEN IF k \in puts[c] THEN id[c] ELSE Absent
                      ELSE held[u][k]
  BY <1>2, <1>3
<1>5. \A k \in Key : past'[k] = IF k \in W THEN past[k] \cup {new[k]} ELSE past[k]
  BY <1>1
<1> QED
  BY <1>1, <1>2, <1>4, <1>5

\* A step of a call under way that decides nothing.
Moving(c) ==
    \/ WriteTarget(c) \/ WriteFails(c) \/ DeleteTarget(c) \/ DeleteFails(c)
    \/ DecideNothing(c) \/ CondComponent(c) \/ CondAuthority(c) \/ CondFails(c)
    \/ CondDelete(c) \/ CondSet(c) \/ CondSyncFails(c)
    \/ ReadTarget(c) \/ AssemblePart(c) \/ FillTarget(c) \/ ReadFails(c) \/ FillFails(c)
    \/ Crash(c)

\* The call is the one it was, and goes from one kind of phase to the like.
Kept(c) ==
    /\ did' = did /\ keys' = keys /\ slot' = slot /\ nextId' = nextId /\ owner' = owner
    /\ op[c] # "idle"
    /\ op[c] # "get" => id' = id
    /\ op'[c] = "cond" => op[c] = "cond"
    /\ op'[c] \in Mutating => op[c] \in Mutating

\* What was committed stays; what is added is a removal or the call's value,
\* and a call that is yet to commit its value has not done so.
Grows(c) ==
    /\ \A k \in Key : /\ past[k] \subseteq past'[k]
                      /\ \A v \in past'[k] \ past[k] :
                           v = Absent \/ (Pending(c) /\ v = id[c])
    /\ Pending(c)' => /\ Pending(c)
                      /\ \A k \in Key : past'[k] \ past[k] \subseteq {Absent}

\* Which entries change, and to what the authority's do.
Touches(c) == \A t \in Target, k \in Key : held'[t][k] # held[t][k] =>
    /\ k \in keys[c] /\ t \notin Fallbacks
    /\ op[c] \in Mutating \/ (op[c] = "fill" /\ t \in Fill /\ held[t][k] = Absent)
    /\ t \in Authority => \/ op[c] = "fill" \/ held'[t][k] = Absent
                          \/ Pending(c) /\ held'[t][k] = id[c]

\* How a write ends.
EndsTold(c) == op[c] = "write" /\ op'[c] = "idle" =>
    /\ out'[c] \in {"ok", "partial"} => \A k \in keys[c] : id[c] \in past'[k]
    /\ ~ PartialCalls /\ out'[c] = "uncommitted" => Pending(c) /\ past' = past

Moved(c) == /\ Others(c) /\ Kept(c) /\ Grows(c) /\ Touches(c) /\ EndsTold(c)
            /\ InPhase(c)'

\* A step that changes no medium and no history.
LEMMA StillMoves ==
    ASSUME NEW c \in Client, held' = held, past' = past, Pending(c)' => Pending(c)
    PROVE  Grows(c) /\ Touches(c)
BY DEF Grows, Touches

\* A call that ends is in no phase.
LEMMA EndsInPhase ==
    ASSUME NEW c \in Client, InPhase(c), did' = did, keys' = keys, slot' = slot,
           NEW o, Ends(c, o)
    PROVE  InPhase(c)'
BY DEF InPhase, Ends, Conditional, Reading

\* A call that goes on with fewer targets is in the phase it was.
LEMMA GoesOnInPhase ==
    ASSUME NEW c \in Client, InPhase(c), did' = did, keys' = keys, slot' = slot,
           won' = won, NEW rest \in SUBSET todo[c], GoesOn(c, op[c], rest), op[c] # "idle"
    PROVE  InPhase(c)'
BY DEF InPhase, GoesOn

\* Where a write is when it comes to a target.
LEMMA WriteAt ==
    ASSUME TypeOK, OnCourse, NEW c \in Client, op[c] = "write",
           NEW t \in First(todo[c], CommitRank)
    PROVE  /\ t \in todo[c] /\ t \in Target \ Fallbacks
           /\ t \in Authority \cup Components \cup Dependents
           /\ keys[c] \in SUBSET Key
           /\ t \in Dependents => /\ todo[c] \cap Committing = {}
                                  /\ \A k \in keys[c] : id[c] \in past[k]
           /\ t \in Committing => Pending(c)
           /\ t \in Authority => /\ SlotValue(c, t) = id[c]
                                 /\ (todo[c] \ {t}) \cap Committing = {}
           /\ t \in Components /\ Authority # {} => Authority \subseteq todo[c] \ {t}
<1>1. CallerOnCourse(c)
  BY DEF OnCourse
<1>2. /\ todo[c] \cap Fallbacks = {} /\ \A a \in Authority : slot[c][a] # "none"
      /\ todo[c] \cap Components # {} => Authority \subseteq todo[c]
      /\ todo[c] \cap Committing = {} => \A k \in keys[c] : id[c] \in past[k]
  BY <1>1 DEF CallerOnCourse
<1>3. t \in todo[c] /\ todo[c] \in SUBSET Target /\ keys[c] \in SUBSET Key
  BY FirstIsIn DEF TypeOK
<1>4. t \in Authority \cup Components \cup Dependents /\ t \in Target \ Fallbacks
  BY <1>2, <1>3, RolesExhaustive
<1>5. /\ t \in Dependents => todo[c] \cap Committing = {}
      /\ t \in Authority => todo[c] \cap Components = {}
  BY <1>3, CommitOrder
<1>6. \A a, b \in Authority : a = b
  BY DeclarationAssumption DEF WellFormed
<1>7. t \in Authority => (todo[c] \ {t}) \cap Committing = {}
  BY <1>5, <1>6 DEF Committing
<1>8. t \in Authority => SlotValue(c, t) = id[c]
  BY <1>2 DEF SlotValue
<1>9. t \in Components => Authority \subseteq todo[c] \ {t}
  BY <1>2, <1>3, Disjoint
<1>10. t \in Committing => Pending(c)
  <2>1. CASE Authority = {}
    BY <1>3, <2>1 DEF Pending, RemovedNow, Committing
  <2>2. CASE Authority # {}
    <3>1. t \in Committing => todo[c] \cap Authority # {}
      BY <1>3, <1>9, <2>2 DEF Committing
    <3> QED
      BY <2>2, <3>1 DEF Pending, RemovedNow
  <2> QED
    BY <2>1, <2>2
<1> QED
  BY <1>2, <1>3, <1>4, <1>5, <1>7, <1>8, <1>9, <1>10

\* A write that reaches a target.
LEMMA WriteMoves ==
    ASSUME TypeOK, OnCourse, Told, NEW c \in Client, WriteTarget(c)
    PROVE  Moved(c)
<1>1. PICK t \in First(todo[c], CommitRank) :
        /\ Store(t, keys[c], SlotValue(c, t))
        /\ IF Authority = {} /\ t \in Components
           THEN RecordParts(todo[c] \ {t}, keys[c], id[c])
           ELSE Record(t, keys[c], id[c])
        /\ Continue(c, "write", todo[c] \ {t})
  BY DEF WriteTarget
<1> DEFINE rest == todo[c] \ {t}
<1>2. op[c] = "write" /\ InPhase(c)
  BY DEF WriteTarget, Told
<1>3. /\ did' = did /\ keys' = keys /\ id' = id /\ slot' = slot /\ won' = won
      /\ got' = got /\ nextId' = nextId
  BY DEF WriteTarget, call
<1>4. /\ t \in todo[c] /\ t \in Target \ Fallbacks
      /\ t \in Authority \cup Components \cup Dependents
      /\ keys[c] \in SUBSET Key
      /\ t \in Dependents => /\ todo[c] \cap Committing = {}
                             /\ \A k \in keys[c] : id[c] \in past[k]
      /\ t \in Committing => Pending(c)
      /\ t \in Authority => SlotValue(c, t) = id[c] /\ rest \cap Committing = {}
      /\ t \in Components /\ Authority # {} => Authority \subseteq rest
  BY <1>2, WriteAt
<1>5. PhasesStay(c) /\ ((rest = {} /\ Ends(c, "ok")) \/ GoesOn(c, "write", rest))
  BY <1>1, ContinueEither
<1>6. \A u \in Target, k \in Key :
        held'[u][k] = IF u = t /\ k \in keys[c] THEN SlotValue(c, t) ELSE held[u][k]
  BY <1>1, <1>4, StoreDoes
<1>7. /\ owner' = owner
      /\ \A k \in Key : past'[k] =
           IF k \in keys[c] /\ (t \in Authority \/ ( /\ Authority = {} /\ t \in Components
                                                     /\ rest \cap Committing = {}))
           THEN past[k] \cup {id[c]} ELSE past[k]
  <2>1. CASE Authority = {} /\ t \in Components
    <3>1. RecordParts(rest, keys[c], id[c])
      BY <1>1, <2>1
    <3> QED
      BY <2>1, <3>1 DEF RecordParts
  <2>2. CASE ~ (Authority = {} /\ t \in Components)
    <3>1. Record(t, keys[c], id[c])
      BY <1>1, <2>2
    <3>2. /\ owner' = owner
          /\ \A k \in Key : past'[k] = IF t \in Authority /\ k \in keys[c]
                                       THEN past[k] \cup {id[c]} ELSE past[k]
      BY <3>1, RecordDoes
    <3> QED
      BY <2>2, <3>2
  <2> QED
    BY <2>1, <2>2
<1>8. RemovedNow \subseteq Committing
  BY RolesPartition
<1> HIDE DEF rest
<1>9. Others(c)
  BY <1>3, <1>5 DEF Others, PhasesStay
<1>10. Kept(c)
  BY <1>2, <1>3, <1>5, <1>7 DEF Kept, Ends, GoesOn, Mutating, Busy
<1>11. Grows(c)
  <2>1. \A k \in Key : /\ past[k] \subseteq past'[k]
                       /\ \A v \in past'[k] \ past[k] : Pending(c) /\ v = id[c]
    BY <1>4, <1>7 DEF Committing
  <2>2. ASSUME Pending(c)' PROVE Pending(c) /\ \A k \in Key : past'[k] = past[k]
    <3>1. todo'[c] = rest /\ rest \cap RemovedNow # {}
      BY <1>5, <2>2 DEF Pending, Ends, GoesOn
    <3>2. Pending(c)
      BY <1>2, <3>1 DEF Pending, rest
    <3>3. rest \cap Committing # {}
      BY <1>8, <3>1
    <3> QED
      BY <1>4, <1>7, <3>2, <3>3
  <2> QED
    BY <2>1, <2>2 DEF Grows
<1>12. Touches(c)
  BY <1>2, <1>4, <1>6 DEF Touches, Mutating, Busy, Committing
<1>13. EndsTold(c)
  <2>1. ASSUME op'[c] = "idle" PROVE out'[c] = "ok" /\ \A k \in keys[c] : id[c] \in past'[k]
    <3>1. rest = {} /\ Ends(c, "ok")
      BY <1>5, <2>1 DEF GoesOn
    <3>2. \A k \in keys[c] : id[c] \in past'[k]
      BY <1>4, <1>7, <3>1, Disjoint
    <3> QED
      BY <3>1, <3>2 DEF Ends
  <2> QED
    BY <2>1 DEF EndsTold
<1>14. InPhase(c)'
  <2>1. rest \in SUBSET todo[c]
    BY DEF rest
  <2> QED
    BY <1>2, <1>3, <1>5, <2>1, EndsInPhase, GoesOnInPhase
<1> QED
  BY <1>9, <1>10, <1>11, <1>12, <1>13, <1>14 DEF Moved

\* A write that fails at a target.
LEMMA WriteFailsMoves ==
    ASSUME TypeOK, OnCourse, Told, NEW c \in Client, WriteFails(c)
    PROVE  Moved(c)
<1>1. PICK t \in First(todo[c], CommitRank) :
        /\ Raise(t, keys[c], SlotValue(c, t))
        /\ IF t \in Committing THEN Finish(c, "uncommitted")
           ELSE Settle(c, t, todo[c] \ {t})
  BY DEF WriteFails
<1>2. op[c] = "write" /\ InPhase(c)
  BY DEF WriteFails, Told
<1>3. /\ did' = did /\ keys' = keys /\ id' = id /\ slot' = slot /\ won' = won
      /\ got' = got /\ nextId' = nextId
  BY DEF WriteFails, call
<1>4. /\ t \in todo[c] /\ t \in Target \ Fallbacks
      /\ t \in Authority \cup Components \cup Dependents
      /\ keys[c] \in SUBSET Key
      /\ t \in Dependents => /\ todo[c] \cap Committing = {}
                             /\ \A k \in keys[c] : id[c] \in past[k]
      /\ t \in Committing => Pending(c)
      /\ t \in Authority => SlotValue(c, t) = id[c]
  BY <1>2, WriteAt
<1>5. /\ PhasesStay(c)
      /\ \/ t \in Committing /\ Ends(c, "uncommitted")
         \/ t \notin Committing /\ Ends(c, "partial")
         \/ t \notin Committing /\ Ends(c, "ok")
         \/ t \notin Committing /\ GoesOn(c, "write", todo[c] \ {t})
  BY <1>1, <1>2, FinishEnds, SettleEither
<1>6. PICK S \in SUBSET keys[c] : /\ ~ PartialCalls => S = {}
                                  /\ Store(t, S, SlotValue(c, t))
                                  /\ Record(t, S, SlotValue(c, t))
  BY <1>1, RaiseDoes
<1>7. \A u \in Target, k \in Key :
        held'[u][k] = IF u = t /\ k \in S THEN SlotValue(c, t) ELSE held[u][k]
  BY <1>4, <1>6, StoreDoes
<1>8. /\ owner' = owner
      /\ \A k \in Key : past'[k] = IF t \in Authority /\ k \in S
                                   THEN past[k] \cup {SlotValue(c, t)} ELSE past[k]
  BY <1>6, RecordDoes
<1>9. Others(c)
  BY <1>3, <1>5 DEF Others, PhasesStay
<1>10. Kept(c)
  BY <1>2, <1>3, <1>5, <1>8 DEF Kept, Ends, GoesOn, Mutating, Busy
<1>11. ~ Pending(c)'
  <2>1. CASE op'[c] = "idle"
    BY <2>1 DEF Pending
  <2>2. CASE t \notin Committing /\ GoesOn(c, "write", todo[c] \ {t})
    BY <1>4, <2>2, RolesPartition DEF Pending, GoesOn, Committing
  <2> QED
    BY <1>5, <2>1, <2>2 DEF Ends
<1>12. Grows(c)
  BY <1>4, <1>8, <1>11 DEF Grows, Committing
<1>13. Touches(c)
  BY <1>2, <1>4, <1>7 DEF Touches, Mutating, Busy, Committing
<1>14. EndsTold(c)
  <2>1. ASSUME op'[c] = "idle", out'[c] \in {"ok", "partial"}
        PROVE  \A k \in keys[c] : id[c] \in past'[k]
    <3>1. t \notin Committing
      BY <1>5, <2>1 DEF Ends, GoesOn
    <3> QED
      BY <1>4, <1>8, <3>1 DEF Committing
  <2>2. ASSUME op'[c] = "idle", ~ PartialCalls, out'[c] = "uncommitted"
        PROVE  Pending(c) /\ past' = past
    <3>1. Pending(c)
      BY <1>4, <1>5, <2>2 DEF Ends, GoesOn
    <3>2. \A k \in Key : past'[k] = past[k]
      BY <1>6, <1>8, <2>2
    <3>3. past' = [k \in Key |-> past'[k]] /\ past = [k \in Key |-> past[k]]
      BY <1>6 DEF TypeOK, Record
    <3> QED
      BY <3>1, <3>2, <3>3
  <2> QED
    BY <2>1, <2>2 DEF EndsTold
<1>15. InPhase(c)'
  <2>1. todo[c] \ {t} \in SUBSET todo[c]
    OBVIOUS
  <2> QED
    BY <1>2, <1>3, <1>5, <2>1, EndsInPhase, GoesOnInPhase
<1> QED
  BY <1>9, <1>10, <1>12, <1>13, <1>14, <1>15 DEF Moved

\* A delete, made or failed at a target.
LEMMA DeleteMoves ==
    ASSUME TypeOK, OnCourse, Told, NEW c \in Client, DeleteTarget(c) \/ DeleteFails(c)
    PROVE  Moved(c)
<1>1. PICK t \in First(todo[c], RemovalRank) :
        \/ /\ Store(t, keys[c], Absent) /\ Record(t, keys[c], Absent)
           /\ Continue(c, "delete", todo[c] \ {t})
        \/ /\ Raise(t, keys[c], Absent)
           /\ IF t \in RemovedNow THEN Finish(c, "error")
              ELSE Settle(c, t, todo[c] \ {t})
  BY DEF DeleteTarget, DeleteFails
<1>2. op[c] = "delete" /\ InPhase(c) /\ CallerOnCourse(c)
  BY DEF DeleteTarget, DeleteFails, Told, OnCourse
<1>3. /\ did' = did /\ keys' = keys /\ id' = id /\ slot' = slot /\ won' = won
      /\ got' = got /\ nextId' = nextId
  BY DEF DeleteTarget, DeleteFails, call
<1>4. t \in Target \ Fallbacks /\ keys[c] \in SUBSET Key
  BY <1>2, FirstIsIn DEF TypeOK, CallerOnCourse
<1>5. /\ PhasesStay(c)
      /\ \/ \E o : Ends(c, o)
         \/ GoesOn(c, "delete", todo[c] \ {t})
  BY <1>1, <1>2, FinishEnds, SettleEither, ContinueEither
<1>6. PICK S \in SUBSET keys[c] : Store(t, S, Absent) /\ Record(t, S, Absent)
  BY <1>1, RaiseDoes
<1>7. \A u \in Target, k \in Key :
        held'[u][k] = IF u = t /\ k \in S THEN Absent ELSE held[u][k]
  BY <1>4, <1>6, StoreDoes
<1>8. /\ owner' = owner
      /\ \A k \in Key : past'[k] = IF t \in Authority /\ k \in S
                                   THEN past[k] \cup {Absent} ELSE past[k]
  BY <1>6, RecordDoes
<1>9. Others(c)
  BY <1>3, <1>5 DEF Others, PhasesStay
<1>10. Kept(c)
  BY <1>2, <1>3, <1>5, <1>8 DEF Kept, Ends, GoesOn, Mutating, Busy
<1>11. Grows(c)
  <2>1. ~ Pending(c)'
    BY <1>5 DEF Pending, Ends, GoesOn
  <2> QED
    BY <1>8, <2>1 DEF Grows
<1>12. Touches(c)
  BY <1>2, <1>4, <1>7 DEF Touches, Mutating, Busy
<1>13. EndsTold(c)
  BY <1>2 DEF EndsTold
<1>14. InPhase(c)'
  <2>1. todo[c] \ {t} \in SUBSET todo[c]
    OBVIOUS
  <2> QED
    BY <1>2, <1>3, <1>5, <2>1, EndsInPhase, GoesOnInPhase
<1> QED
  BY <1>9, <1>10, <1>11, <1>12, <1>13, <1>14 DEF Moved

\* A decision to do nothing, an error of a read, a crash.
LEMMA QuietMoves ==
    ASSUME TypeOK, OnCourse, Told, NEW c \in Client,
           DecideNothing(c) \/ ReadFails(c) \/ Crash(c)
    PROVE  /\ Moved(c) /\ held' = held /\ op'[c] = "idle"
           /\ out'[c] = "ok" => op[c] = "decide"
<1>1. /\ did' = did /\ keys' = keys /\ id' = id /\ slot' = slot /\ won' = won
      /\ got' = got /\ nextId' = nextId /\ held' = held /\ past' = past /\ owner' = owner
      /\ op[c] # "idle"
  BY DEF DecideNothing, ReadFails, Crash, call, history
<1>2. PICK o \in {"ok", "error", "crashed"} :
        /\ Finish(c, o)
        /\ o = "ok" => op[c] = "decide"
  BY DEF DecideNothing, ReadFails, Crash
<1>3. PhasesStay(c) /\ Ends(c, o) /\ InPhase(c)
  BY <1>2, FinishEnds DEF Told
<1>4. Others(c) /\ Kept(c) /\ EndsTold(c)
  BY <1>1, <1>2, <1>3 DEF Others, PhasesStay, Kept, Ends, EndsTold, Mutating, Busy
<1>5. Grows(c) /\ Touches(c)
  <2>1. ~ Pending(c)'
    BY <1>3 DEF Pending, Ends
  <2> QED
    BY <1>1, <2>1, StillMoves
<1>6. InPhase(c)'
  BY <1>1, <1>3, EndsInPhase
<1> QED
  BY <1>1, <1>2, <1>3, <1>4, <1>5, <1>6 DEF Moved, Ends

\* The next part of an assembled record.
LEMMA AssembleMoves ==
    ASSUME TypeOK, OnCourse, Told, NEW c \in Client, AssemblePart(c)
    PROVE  Moved(c)
<1>1. PICK t \in First(todo[c], AssemblyRank), k \in keys[c] :
        /\ got' = [got EXCEPT ![c][t] = held[t][k]]
        /\ IF t \in Authority /\ held[t][k] = Absent THEN Finish(c, "ok")
           ELSE Continue(c, "assemble", todo[c] \ {t})
  BY DEF AssemblePart
<1>2. /\ did' = did /\ keys' = keys /\ id' = id /\ slot' = slot /\ won' = won
      /\ nextId' = nextId /\ held' = held /\ past' = past /\ owner' = owner
      /\ op[c] = "assemble"
  BY DEF AssemblePart, call, history
<1>3. /\ PhasesStay(c) /\ InPhase(c)
      /\ Ends(c, "ok") \/ GoesOn(c, "assemble", todo[c] \ {t})
  BY <1>1, FinishEnds, ContinueEither DEF Told
<1>4. \A d \in Client \ {c} : got'[d] = got[d]
  BY <1>1 DEF TypeOK
<1>5. Others(c) /\ Kept(c) /\ EndsTold(c)
  BY <1>2, <1>3, <1>4 DEF Others, PhasesStay, Kept, Ends, GoesOn, EndsTold, Mutating, Busy
<1>6. Grows(c) /\ Touches(c)
  <2>1. ~ Pending(c)'
    BY <1>3 DEF Pending, Ends, GoesOn
  <2> QED
    BY <1>2, <2>1, StillMoves
<1>7. InPhase(c)'
  <2>1. todo[c] \ {t} \in SUBSET todo[c]
    OBVIOUS
  <2> QED
    BY <1>2, <1>3, <2>1, EndsInPhase, GoesOnInPhase
<1> QED
  BY <1>5, <1>6, <1>7 DEF Moved

\* A read of a whole target, found or not.
LEMMA ReadMoves ==
    ASSUME TypeOK, OnCourse, Told, NEW c \in Client, ReadTarget(c)
    PROVE  Moved(c) /\ op[c] = "get"
<1>1. PICK t \in First(todo[c], LookupRank), k \in keys[c] :
        IF held[t][k] = Absent
        THEN id' = id /\ Continue(c, "get", todo[c] \ {t})
        ELSE /\ id' = [id EXCEPT ![c] = held[t][k]]
             /\ Continue(c, "fill", Fillable(t, Consulted \ todo[c]))
  BY DEF ReadTarget
<1>2. /\ did' = did /\ keys' = keys /\ slot' = slot /\ won' = won /\ got' = got
      /\ nextId' = nextId /\ held' = held /\ past' = past /\ owner' = owner
      /\ op[c] = "get"
  BY DEF ReadTarget, history
<1>3. /\ PhasesStay(c) /\ InPhase(c)
      /\ \/ Ends(c, "ok")
         \/ GoesOn(c, "get", todo[c] \ {t})
         \/ GoesOn(c, "fill", Fillable(t, Consulted \ todo[c]))
  BY <1>1, ContinueEither DEF Told
<1>4. \A d \in Client \ {c} : id'[d] = id[d]
  BY <1>1 DEF TypeOK
<1>5. Others(c) /\ Kept(c) /\ EndsTold(c)
  BY <1>2, <1>3, <1>4 DEF Others, PhasesStay, Kept, Ends, GoesOn, EndsTold, Mutating, Busy
<1>6. Grows(c) /\ Touches(c)
  <2>1. ~ Pending(c)'
    BY <1>3 DEF Pending, Ends, GoesOn
  <2> QED
    BY <1>2, <2>1, StillMoves
<1>7. InPhase(c)'
  <2>1. todo[c] \ {t} \in SUBSET todo[c]
    OBVIOUS
  <2>2. CASE GoesOn(c, "fill", Fillable(t, Consulted \ todo[c]))
    <3>1. todo'[c] \subseteq Fill /\ op'[c] = "fill" /\ seen'[c] = seen[c]
      BY <2>2 DEF GoesOn, Fillable
    <3> QED
      BY <1>2, <1>3, <3>1 DEF InPhase, Conditional, Reading
  <2> QED
    BY <1>2, <1>3, <2>1, <2>2, EndsInPhase, GoesOnInPhase
<1> QED
  BY <1>2, <1>5, <1>6, <1>7 DEF Moved

\* A fill, made or failed.
LEMMA FillMoves ==
    ASSUME TypeOK, OnCourse, Told, NEW c \in Client, FillTarget(c) \/ FillFails(c)
    PROVE  Moved(c) /\ op[c] = "fill"
<1>1. PICK t \in First(todo[c], LookupRank) :
        /\ Store(t, Missing(c, t), id[c]) \/ held' = held
        /\ Continue(c, "fill", todo[c] \ {t})
  BY DEF FillTarget, FillFails
<1>2. /\ did' = did /\ keys' = keys /\ id' = id /\ slot' = slot /\ won' = won
      /\ got' = got /\ nextId' = nextId /\ past' = past /\ owner' = owner
      /\ op[c] = "fill"
  BY DEF FillTarget, FillFails, call, history
<1>3. /\ PhasesStay(c) /\ InPhase(c)
      /\ Ends(c, "ok") \/ GoesOn(c, "fill", todo[c] \ {t})
  BY <1>1, ContinueEither DEF Told
<1>4. t \in Fill /\ t \in Target /\ t \notin Fallbacks /\ keys[c] \in SUBSET Key
  BY <1>2, <1>3, FirstIsIn, Disjoint DEF TypeOK, InPhase
<1>5. Others(c) /\ Kept(c) /\ EndsTold(c)
  BY <1>2, <1>3 DEF Others, PhasesStay, Kept, Ends, GoesOn, EndsTold, Mutating, Busy
<1>6. Grows(c)
  <2>1. ~ Pending(c)'
    BY <1>3 DEF Pending, Ends, GoesOn
  <2> QED
    BY <1>2, <2>1 DEF Grows
<1>7. Touches(c)
  <2>1. CASE held' = held
    BY <2>1 DEF Touches
  <2>2. CASE Store(t, Missing(c, t), id[c])
    <3>1. \A u \in Target, k \in Key :
            held'[u][k] = IF u = t /\ k \in Missing(c, t) THEN id[c] ELSE held[u][k]
      BY <1>4, <2>2, StoreDoes
    <3> QED
      BY <1>2, <1>4, <3>1 DEF Touches, Missing
  <2> QED
    BY <1>1, <2>1, <2>2
<1>8. InPhase(c)'
  <2>1. todo[c] \ {t} \in SUBSET todo[c]
    OBVIOUS
  <2> QED
    BY <1>2, <1>3, <2>1, EndsInPhase, GoesOnInPhase
<1> QED
  BY <1>2, <1>5, <1>6, <1>7, <1>8 DEF Moved

\* A component of a conditional write.
LEMMA CondComponentMoves ==
    ASSUME TypeOK, OnCourse, Told, NEW c \in Client, CondComponent(c)
    PROVE  Moved(c)
<1>1. PICK t \in First(todo[c], CommitRank) \cap Components :
        /\ Store(t, Changed(c, t, puts[c]), SlotValue(c, t))
        /\ Continue(c, "cond", todo[c] \ {t})
  BY DEF CondComponent
<1>2. /\ did' = did /\ keys' = keys /\ id' = id /\ slot' = slot /\ won' = won
      /\ got' = got /\ nextId' = nextId /\ past' = past /\ owner' = owner
      /\ op[c] = "cond"
  BY DEF CondComponent, call, history
<1>3. /\ PhasesStay(c) /\ InPhase(c)
      /\ Ends(c, "ok") \/ GoesOn(c, "cond", todo[c] \ {t})
  BY <1>1, ContinueEither DEF Told
<1>4. t \in Target /\ t \notin Fallbacks /\ t \notin Authority
  BY RolesPartition, Disjoint
<1>5. Changed(c, t, puts[c]) \subseteq keys[c]
  BY <1>2, <1>3 DEF Changed, InPhase
<1>6. \A u \in Target, k \in Key :
        held'[u][k] = IF u = t /\ k \in Changed(c, t, puts[c]) THEN SlotValue(c, t)
                      ELSE held[u][k]
  BY <1>1, <1>4, StoreDoes
<1>7. Others(c) /\ Kept(c) /\ EndsTold(c)
  BY <1>2, <1>3 DEF Others, PhasesStay, Kept, Ends, GoesOn, EndsTold, Mutating, Busy
<1>8. Grows(c)
  BY <1>2 DEF Grows, Pending
<1>9. Touches(c)
  BY <1>2, <1>4, <1>5, <1>6 DEF Touches, Mutating, Busy
<1>10. InPhase(c)'
  <2>1. todo[c] \ {t} \in SUBSET todo[c]
    OBVIOUS
  <2> QED
    BY <1>2, <1>3, <2>1, EndsInPhase, GoesOnInPhase
<1> QED
  BY <1>7, <1>8, <1>9, <1>10 DEF Moved

\* The authority's answer to a conditional write, and what follows it.
LEMMA CondAuthorityMoves ==
    ASSUME TypeOK, OnCourse, Told, NEW c \in Client, CondAuthority(c)
    PROVE  Moved(c)
<1>1. PICK t \in First(todo[c], CommitRank) \cap Authority :
        /\ Apply(c, t, StillSeen(c, t))
        /\ won' = [won EXCEPT ![c] = StillSeen(c, t)]
        /\ AfterCommit(c, StillSeen(c, t))
  BY DEF CondAuthority
<1>2. /\ did' = did /\ keys' = keys /\ id' = id /\ slot' = slot
      /\ got' = got /\ nextId' = nextId /\ op[c] = "cond"
  BY DEF CondAuthority
<1>3. /\ PhasesStay(c) /\ InPhase(c)
      /\ \/ Ends(c, "ok")
         \/ GoesOn(c, "condDelete", RemovedAfterCommit)
         \/ \E S \in SUBSET Dependents : GoesOn(c, "condSet", S)
  BY <1>1, AfterCommitEither DEF Told
<1>4. t \in Target /\ t \notin Fallbacks
  BY RolesPartition, Disjoint
<1>5. /\ StillSeen(c, t) \subseteq keys[c] /\ won'[c] = StillSeen(c, t)
      /\ \A d \in Client \ {c} : won'[d] = won[d]
  BY <1>1 DEF StillSeen, TypeOK
<1>6. /\ owner' = owner
      /\ \A u \in Target, k \in Key :
           held'[u][k] = IF u = t /\ k \in StillSeen(c, t)
                         THEN IF k \in puts[c] THEN id[c] ELSE Absent
                         ELSE held[u][k]
      /\ \A k \in Key : /\ past[k] \subseteq past'[k]
                        /\ past'[k] \subseteq past[k] \cup {id[c], Absent}
  BY <1>1, <1>4, ApplyDoes
<1>7. Others(c) /\ Kept(c) /\ EndsTold(c)
  BY <1>2, <1>3, <1>5, <1>6
     DEF Others, PhasesStay, Kept, Ends, GoesOn, EndsTold, Mutating, Busy
<1>8. Grows(c)
  <2>1. ~ Pending(c)' /\ Pending(c)
    BY <1>2, <1>3 DEF Pending, Ends, GoesOn
  <2> QED
    BY <1>6, <2>1 DEF Grows
<1>9. Touches(c)
  BY <1>2, <1>4, <1>5, <1>6 DEF Touches, Mutating, Busy, Pending
<1>10. InPhase(c)'
  <2>1. CASE Ends(c, "ok")
    BY <1>2, <1>3, <2>1, EndsInPhase
  <2>2. CASE \/ GoesOn(c, "condDelete", RemovedAfterCommit)
             \/ \E S \in SUBSET Dependents : GoesOn(c, "condSet", S)
    <3>1. /\ op'[c] \in {"condDelete", "condSet"} /\ puts'[c] = puts[c]
          /\ seen'[c] = seen[c]
          /\ op'[c] = "condSet" => todo'[c] \subseteq Dependents
      BY <2>2 DEF GoesOn
    <3> QED
      BY <1>2, <1>3, <1>5, <3>1 DEF InPhase, Conditional, Reading
  <2> QED
    BY <1>3, <2>1, <2>2
<1> QED
  BY <1>7, <1>8, <1>9, <1>10 DEF Moved

\* A conditional write that fails on or before its commit.
LEMMA CondFailsMoves ==
    ASSUME TypeOK, OnCourse, Told, NEW c \in Client, CondFails(c)
    PROVE  Moved(c)
<1>1. PICK t \in First(todo[c], CommitRank) :
        \/ /\ t \in Components
           /\ Raise(t, Changed(c, t, puts[c]), SlotValue(c, t))
        \/ /\ t \in Authority
           /\ \E W \in SUBSET StillSeen(c, t) : Apply(c, t, W)
  BY DEF CondFails
<1>2. /\ did' = did /\ keys' = keys /\ id' = id /\ slot' = slot /\ won' = won
      /\ got' = got /\ nextId' = nextId /\ op[c] = "cond"
  BY DEF CondFails, call
<1>3. PhasesStay(c) /\ InPhase(c) /\ Ends(c, "uncommitted")
  BY FinishEnds DEF CondFails, Told
<1>4. t \in Target /\ t \notin Fallbacks
  BY <1>1, RolesPartition, Disjoint
<1>5. StillSeen(c, t) \subseteq keys[c] /\ Changed(c, t, puts[c]) \subseteq keys[c]
  BY <1>2, <1>3 DEF StillSeen, Changed, InPhase
<1>6. PICK W \in SUBSET keys[c] :
        /\ owner' = owner
        /\ \A u \in Target, k \in Key : /\ u # t \/ k \notin W => held'[u][k] = held[u][k]
                                        /\ u = t /\ t \in Authority /\ k \in W =>
                                             held'[u][k] \in {id[c], Absent}
        /\ \A k \in Key : /\ past[k] \subseteq past'[k]
                          /\ past'[k] \subseteq past[k] \cup {id[c], Absent}
  <2>1. CASE t \in Components /\ Raise(t, Changed(c, t, puts[c]), SlotValue(c, t))
    <3>1. PICK S \in SUBSET Changed(c, t, puts[c]) :
            Store(t, S, SlotValue(c, t)) /\ Record(t, S, SlotValue(c, t))
      BY <2>1, RaiseDoes
    <3>2. \A u \in Target, k \in Key :
            held'[u][k] = IF u = t /\ k \in S THEN SlotValue(c, t) ELSE held[u][k]
      BY <1>4, <3>1, StoreDoes
    <3>3. t \notin Authority
      BY <2>1, Disjoint
    <3>4. owner' = owner /\ \A k \in Key : past'[k] = past[k]
      BY <3>1, <3>3, RecordDoes
    <3>5. S \in SUBSET keys[c]
      BY <1>5
    <3> QED
      BY <3>2, <3>3, <3>4, <3>5
  <2>2. CASE t \in Authority /\ \E W \in SUBSET StillSeen(c, t) : Apply(c, t, W)
    <3>1. PICK W \in SUBSET StillSeen(c, t) : Apply(c, t, W)
      BY <2>2
    <3>2. /\ owner' = owner
          /\ \A u \in Target, k \in Key :
               held'[u][k] = IF u = t /\ k \in W
                             THEN IF k \in puts[c] THEN id[c] ELSE Absent
                             ELSE held[u][k]
          /\ \A k \in Key : /\ past[k] \subseteq past'[k]
                            /\ past'[k] \subseteq past[k] \cup {id[c], Absent}
      BY <1>4, <3>1, ApplyDoes
    <3>3. W \in SUBSET keys[c]
      BY <1>5
    <3> QED
      BY <3>2, <3>3
  <2> QED
    BY <1>1, <2>1, <2>2
<1>7. Others(c) /\ Kept(c) /\ EndsTold(c)
  BY <1>2, <1>3, <1>6 DEF Others, PhasesStay, Kept, Ends, EndsTold, Mutating, Busy
<1>8. Grows(c)
  <2>1. ~ Pending(c)' /\ Pending(c)
    BY <1>2, <1>3 DEF Pending, Ends
  <2> QED
    BY <1>6, <2>1 DEF Grows
<1>9. Touches(c)
  BY <1>2, <1>4, <1>6 DEF Touches, Mutating, Busy, Pending
<1>10. InPhase(c)'
  BY <1>2, <1>3, EndsInPhase
<1> QED
  BY <1>7, <1>8, <1>9, <1>10 DEF Moved

\* What a sync after a conditional commit writes, made or failed.
Syncing(c) == CondDelete(c) \/ CondSet(c) \/ CondSyncFails(c)

\* A removal or a sync that follows a conditional commit.
LEMMA SyncMoves ==
    ASSUME TypeOK, OnCourse, Told, NEW c \in Client, Syncing(c)
    PROVE  Moved(c)
<1>1. op[c] \in {"condDelete", "condSet"} /\ InPhase(c) /\ CallerOnCourse(c)
  BY DEF Syncing, CondDelete, CondSet, CondSyncFails, Told, OnCourse
<1>2. /\ did' = did /\ keys' = keys /\ id' = id /\ slot' = slot /\ won' = won
      /\ got' = got /\ nextId' = nextId
  BY DEF Syncing, CondDelete, CondSet, CondSyncFails, call
<1>3. todo[c] \cap Fallbacks = {} /\ todo[c] \cap Authority = {} /\ won[c] \subseteq keys[c]
  BY <1>1 DEF CallerOnCourse, InPhase
<1>4. \A t : Changed(c, t, won[c] \cap puts[c]) \subseteq keys[c]
  BY <1>3 DEF Changed
<1>5. won[c] \ puts[c] \subseteq keys[c]
  BY <1>3
<1>6. PICK t \in todo[c], K \in SUBSET keys[c], v \in Val :
        /\ Store(t, K, v)
        /\ owner' = owner /\ \A k \in Key : past'[k] = past[k]
        /\ \/ op[c] = "condDelete" /\ \E W : AfterCommit(c, W)
           \/ Continue(c, op[c], todo[c] \ {t})
           \/ Settle(c, t, todo[c] \ {t})
  <2>1. CASE CondDelete(c)
    <3>1. PICK t \in First(todo[c], RemovalRank) :
            /\ Store(t, won[c] \ puts[c], Absent)
            /\ IF todo[c] = {t} THEN AfterCommit(c, won[c] \cap puts[c])
               ELSE Continue(c, "condDelete", todo[c] \ {t})
      BY <2>1 DEF CondDelete
    <3>2. op[c] = "condDelete" /\ owner' = owner /\ past' = past /\ t \in todo[c]
      BY <2>1, FirstIsIn DEF CondDelete, history
    <3> QED
      BY <1>5, <3>1, <3>2, AbsentIsVal
  <2>2. CASE CondSet(c)
    <3>1. PICK t \in First(todo[c], CommitRank) :
            /\ Store(t, Changed(c, t, won[c] \cap puts[c]), SlotValue(c, t))
            /\ Continue(c, "condSet", todo[c] \ {t})
      BY <2>2 DEF CondSet
    <3>2. op[c] = "condSet" /\ owner' = owner /\ past' = past /\ t \in todo[c]
      BY <2>2, FirstIsIn DEF CondSet, history
    <3> QED
      BY <1>4, <3>1, <3>2, SlotValueTypeOK
  <2>3. ASSUME NEW t \in todo[c], NEW K \in SUBSET keys[c], NEW v \in Val, Raise(t, K, v)
        PROVE  \E S \in SUBSET keys[c] : /\ Store(t, S, v)
                                         /\ owner' = owner
                                         /\ \A k \in Key : past'[k] = past[k]
    <3>1. PICK S \in SUBSET K : Store(t, S, v) /\ Record(t, S, v)
      BY <2>3, RaiseDoes
    <3>2. t \notin Authority /\ S \in SUBSET keys[c]
      BY <1>3
    <3>3. owner' = owner /\ \A k \in Key : past'[k] = past[k]
      BY <3>1, <3>2, RecordDoes
    <3> QED
      BY <3>1, <3>2, <3>3
  <2>4. ASSUME NEW t \in First(todo[c], RemovalRank), op[c] = "condDelete",
               Raise(t, won[c] \ puts[c], Absent),
               IF todo[c] = {t} /\ t \in Dependents \ Required
               THEN AfterCommit(c, won[c] \cap puts[c])
               ELSE Settle(c, t, todo[c] \ {t})
        PROVE  \E u \in todo[c], K \in SUBSET keys[c], v \in Val :
                 /\ Store(u, K, v)
                 /\ owner' = owner /\ \A k \in Key : past'[k] = past[k]
                 /\ \/ op[c] = "condDelete" /\ \E W : AfterCommit(c, W)
                    \/ Settle(c, u, todo[c] \ {u})
    <3>1. t \in todo[c]
      BY FirstIsIn
    <3>2. PICK S \in SUBSET keys[c] : /\ Store(t, S, Absent)
                                      /\ owner' = owner
                                      /\ \A k \in Key : past'[k] = past[k]
      BY <1>5, <2>3, <2>4, <3>1, AbsentIsVal
    <3> QED
      BY <2>4, <3>1, <3>2, AbsentIsVal
  <2>5. ASSUME NEW t \in First(todo[c], CommitRank),
               Raise(t, Changed(c, t, won[c] \cap puts[c]), SlotValue(c, t)),
               Settle(c, t, todo[c] \ {t})
        PROVE  \E u \in todo[c], K \in SUBSET keys[c], v \in Val :
                 /\ Store(u, K, v)
                 /\ owner' = owner /\ \A k \in Key : past'[k] = past[k]
                 /\ Settle(c, u, todo[c] \ {u})
    <3>1. t \in todo[c]
      BY FirstIsIn
    <3>2. PICK S \in SUBSET keys[c] : /\ Store(t, S, SlotValue(c, t))
                                      /\ owner' = owner
                                      /\ \A k \in Key : past'[k] = past[k]
      BY <1>4, <2>3, <2>5, <3>1, SlotValueTypeOK
    <3> QED
      BY <2>5, <3>1, <3>2, SlotValueTypeOK
  <2> QED
    BY <2>1, <2>2, <2>4, <2>5 DEF Syncing, CondSyncFails
<1>7. /\ PhasesStay(c)
      /\ \/ \E o : Ends(c, o)
         \/ GoesOn(c, op[c], todo[c] \ {t})
         \/ op[c] = "condDelete" /\ GoesOn(c, "condDelete", RemovedAfterCommit)
         \/ op[c] = "condDelete" /\ \E S \in SUBSET Dependents : GoesOn(c, "condSet", S)
  <2>1. CASE op[c] = "condDelete" /\ \E W : AfterCommit(c, W)
    BY <2>1, AfterCommitEither
  <2>2. CASE Continue(c, op[c], todo[c] \ {t})
    BY <2>2, ContinueEither
  <2>3. CASE Settle(c, t, todo[c] \ {t})
    BY <2>3, SettleEither
  <2> QED
    BY <1>6, <2>1, <2>2, <2>3
<1>8. t \in Target /\ t \notin Fallbacks /\ t \notin Authority
  BY <1>3 DEF TypeOK
<1>9. \A u \in Target, k \in Key :
        held'[u][k] = IF u = t /\ k \in K THEN v ELSE held[u][k]
  BY <1>6, <1>8, StoreDoes
<1>10. Others(c) /\ Kept(c) /\ EndsTold(c)
  BY <1>1, <1>2, <1>6, <1>7
     DEF Others, PhasesStay, Kept, Ends, GoesOn, EndsTold, Mutating, Busy
<1>11. Grows(c)
  <2>1. ~ Pending(c)'
    BY <1>1, <1>7 DEF Pending, Ends, GoesOn
  <2> QED
    BY <1>6, <2>1 DEF Grows
<1>12. Touches(c)
  BY <1>1, <1>8, <1>9 DEF Touches, Mutating, Busy
<1>13. InPhase(c)'
  <2>1. CASE \E o : Ends(c, o)
    BY <1>1, <1>2, <2>1, EndsInPhase
  <2>2. CASE GoesOn(c, op[c], todo[c] \ {t})
    <3>1. todo[c] \ {t} \in SUBSET todo[c]
      OBVIOUS
    <3> QED
      BY <1>1, <1>2, <2>2, <3>1, GoesOnInPhase
  <2>3. CASE /\ op[c] = "condDelete"
             /\ \/ GoesOn(c, "condDelete", RemovedAfterCommit)
                \/ \E S \in SUBSET Dependents : GoesOn(c, "condSet", S)
    <3>1. /\ op'[c] \in {"condDelete", "condSet"} /\ puts'[c] = puts[c]
          /\ seen'[c] = seen[c]
          /\ op'[c] = "condSet" => todo'[c] \subseteq Dependents
      BY <2>3 DEF GoesOn
    <3> QED
      BY <1>1, <1>2, <2>3, <3>1 DEF InPhase, Conditional, Reading
  <2> QED
    BY <1>7, <2>1, <2>2, <2>3
<1> QED
  BY <1>10, <1>11, <1>12, <1>13 DEF Moved

\* Every step of a call under way, but for a decision, moves it alone.
LEMMA MovingMoves ==
    ASSUME TypeOK, OnCourse, Told, NEW c \in Client, Moving(c)
    PROVE  Moved(c)
BY WriteMoves, WriteFailsMoves, DeleteMoves, QuietMoves, CondComponentMoves,
   CondAuthorityMoves, CondFailsMoves, SyncMoves, ReadMoves, AssembleMoves, FillMoves
   DEF Moving, Syncing

-----------------------------------------------------------------------------
(***************************************************************************)
(* Law 8.                                                                  *)
(***************************************************************************)

\* What others were told stays true while c moves.
LEMMA OthersTold ==
    ASSUME TypeOK, Told, NEW c \in Client, Others(c), nextId' >= nextId, nextId' \in Nat,
           \A k \in Key : /\ past[k] \subseteq past'[k]
                          /\ \A v \in past'[k] \ past[k] :
                               v = Absent \/ (Writes(c) /\ v = id[c]),
           NEW d \in Client \ {c}
    PROVE  InPhase(d)' /\ CallerTold(d)' /\ (Writes(d)' <=> Writes(d)) /\ id'[d] = id[d]
<1>1. /\ op'[d] = op[d] /\ did'[d] = did[d] /\ keys'[d] = keys[d] /\ id'[d] = id[d]
      /\ todo'[d] = todo[d] /\ slot'[d] = slot[d] /\ puts'[d] = puts[d]
      /\ seen'[d] = seen[d] /\ won'[d] = won[d] /\ out'[d] = out[d]
  BY DEF Others
<1>2. InPhase(d) /\ CallerTold(d) /\ ValuesApart
  BY DEF Told
<1>3. InPhase(d)'
  BY <1>1, <1>2 DEF InPhase
<1>4. Writes(d)' <=> Writes(d)
  BY <1>1 DEF Writes
<1>5. /\ Pending(d)' <=> Pending(d)
      /\ Pending(d) => Writes(d)
      /\ op[d] = "idle" /\ did[d] = "write" => Writes(d)
  BY <1>1, <1>2 DEF Pending, InPhase, Writes
<1>6. \A k \in Key : Writes(d) /\ id[d] \notin past[k] => id[d] \notin past'[k]
  BY <1>2 DEF CallerTold, ValuesApart, Absent, Old
<1>7. keys[d] \in SUBSET Key /\ id[d] \in Nat /\ nextId \in Nat
  BY BoundsAssumption DEF TypeOK, Val
<1>8. CallerTold(d)'
  <2>1. Writes(d)' => id'[d] > Old /\ id'[d] < nextId'
    BY <1>1, <1>2, <1>4, <1>7 DEF CallerTold, Old
  <2>2. Pending(d)' => \A k \in Key : id'[d] \notin past'[k]
    BY <1>1, <1>2, <1>5, <1>6 DEF CallerTold
  <2>3. op'[d] = "idle" /\ did'[d] = "write" =>
          /\ out'[d] \in {"ok", "partial"} => \A k \in keys'[d] : id'[d] \in past'[k]
          /\ ~ PartialCalls /\ out'[d] = "uncommitted" =>
               \A k \in Key : id'[d] \notin past'[k]
    BY <1>1, <1>2, <1>5, <1>6, <1>7 DEF CallerTold
  <2> QED
    BY <2>1, <2>2, <2>3 DEF CallerTold
<1> QED
  BY <1>1, <1>3, <1>4, <1>8

\* A call under way tells what it did.
LEMMA MovedTold ==
    ASSUME TypeOK, Told, NEW c \in Client, Moved(c) PROVE Told'
<1>1. Others(c) /\ Kept(c) /\ Grows(c) /\ Touches(c) /\ EndsTold(c) /\ InPhase(c)'
  BY DEF Moved
<1>2. /\ did' = did /\ keys' = keys /\ nextId' = nextId /\ op[c] # "idle"
      /\ op[c] # "get" => id' = id
      /\ op'[c] = "cond" => op[c] = "cond"
  BY <1>1 DEF Kept
<1>3. InPhase(c) /\ CallerTold(c) /\ ValuesApart
  BY DEF Told
<1>4. /\ nextId \in Nat /\ keys[c] \in SUBSET Key /\ id[c] \in Nat
      /\ Pending(c) => Writes(c)
  BY <1>3, BoundsAssumption DEF TypeOK, Pending, InPhase, Writes, Val
<1>5. Writes(c)' => Writes(c) /\ id'[c] = id[c]
  BY <1>2, <1>3 DEF Writes, InPhase, Reading, Conditional
<1>6. \A k \in Key : /\ past[k] \subseteq past'[k]
                     /\ \A v \in past'[k] \ past[k] :
                          v = Absent \/ (Pending(c) /\ v = id[c])
  BY <1>1 DEF Grows
<1>7. \A d \in Client \ {c} :
        InPhase(d)' /\ CallerTold(d)' /\ (Writes(d)' <=> Writes(d)) /\ id'[d] = id[d]
  BY <1>1, <1>2, <1>4, <1>6, OthersTold
<1>8. ValuesApart'
  <2>1. \A k \in Key : \A v \in past'[k] : v < nextId'
    BY <1>2, <1>3, <1>4, <1>6 DEF ValuesApart, CallerTold, Absent, Old
  <2>2. \A t \in Fallbacks, k \in Key : held'[t][k] <= Old
    BY <1>1, <1>3, RolesPartition DEF ValuesApart, Touches
  <2>3. \A d, e \in Client : d # e /\ Writes(d)' /\ Writes(e)' => id'[d] # id'[e]
    BY <1>3, <1>5, <1>7 DEF ValuesApart
  <2> QED
    BY <1>2, <1>3, <2>1, <2>2, <2>3 DEF ValuesApart
<1>9. CallerTold(c)'
  <2>1. Writes(c)' => id'[c] > Old /\ id'[c] < nextId'
    BY <1>2, <1>3, <1>5 DEF CallerTold
  <2>2. Pending(c)' => \A k \in Key : id'[c] \notin past'[k]
    <3>1. ASSUME Pending(c)', NEW k \in Key PROVE id'[c] \notin past'[k]
      <4>1. Pending(c) /\ past'[k] \ past[k] \subseteq {Absent}
        BY <1>1, <3>1 DEF Grows
      <4>2. id[c] \notin past[k] /\ id[c] # Absent
        BY <1>3, <1>4, <4>1 DEF CallerTold, Absent, Old
      <4>3. id'[c] = id[c]
        BY <1>2, <4>1 DEF Pending
      <4> QED
        BY <4>1, <4>2, <4>3
    <3> QED
      BY <3>1
  <2>3. ASSUME op'[c] = "idle", did'[c] = "write"
        PROVE  /\ out'[c] \in {"ok", "partial"} => \A k \in keys'[c] : id'[c] \in past'[k]
               /\ ~ PartialCalls /\ out'[c] = "uncommitted" =>
                    \A k \in Key : id'[c] \notin past'[k]
    <3>1. op[c] = "write" /\ id' = id
      <4>1. op[c] \in Busy
        BY <1>2 DEF TypeOK
      <4> QED
        BY <1>2, <1>3, <2>3, <4>1 DEF InPhase, Busy, Conditional, Reading
    <3>2. out'[c] \in {"ok", "partial"} => \A k \in keys'[c] : id'[c] \in past'[k]
      BY <1>1, <1>2, <2>3, <3>1 DEF EndsTold
    <3>3. ~ PartialCalls /\ out'[c] = "uncommitted" => Pending(c) /\ past' = past
      BY <1>1, <2>3, <3>1 DEF EndsTold
    <3> QED
      BY <1>3, <3>1, <3>2, <3>3 DEF CallerTold
  <2> QED
    BY <2>1, <2>2, <2>3 DEF CallerTold
<1> QED
  BY <1>1, <1>7, <1>8, <1>9 DEF Told

\* A call that begins or has decided: its value, if it makes one, is new.
MakesNew(c) ==
    /\ Others(c) /\ held' = held /\ past' = past /\ op'[c] # "idle" /\ InPhase(c)'
    /\ \/ nextId' = nextId /\ ~ Writes(c)'
       \/ nextId' = nextId + 1 /\ id'[c] = nextId

\* The next identifier is of no value made before.
LEMMA NewTold ==
    ASSUME TypeOK, Told, NEW c \in Client, MakesNew(c) PROVE Told'
<1>1. /\ Others(c) /\ held' = held /\ past' = past /\ op'[c] # "idle" /\ InPhase(c)'
      /\ \/ nextId' = nextId /\ ~ Writes(c)'
         \/ nextId' = nextId + 1 /\ id'[c] = nextId
  BY DEF MakesNew
<1>2. ValuesApart /\ \A d \in Client : CallerTold(d)
  BY DEF Told
<1>3. nextId \in Nat /\ nextId' \in Nat /\ nextId' >= nextId /\ nextId > Old
  BY <1>1, <1>2 DEF TypeOK, ValuesApart
<1>4. \A d \in Client : id[d] \in Nat
  BY BoundsAssumption DEF TypeOK, Val
<1>5. \A k \in Key : \A v \in past[k] : v \in Nat
  BY BoundsAssumption DEF TypeOK, Val
<1>6. \A d \in Client \ {c} :
        InPhase(d)' /\ CallerTold(d)' /\ (Writes(d)' <=> Writes(d)) /\ id'[d] = id[d]
  <2>1. \A k \in Key : /\ past[k] \subseteq past'[k]
                       /\ \A v \in past'[k] \ past[k] :
                            v = Absent \/ (Writes(c) /\ v = id[c])
    BY <1>1
  <2> QED
    BY <1>1, <1>3, <2>1, OthersTold
<1>7. Pending(c)' => Writes(c)'
  BY <1>1 DEF Pending, Writes, InPhase
<1>8. Writes(c)' => nextId' = nextId + 1 /\ id'[c] = nextId
  BY <1>1
<1>9. CallerTold(c)'
  <2>1. Writes(c)' => id'[c] > Old /\ id'[c] < nextId'
    BY <1>3, <1>8
  <2>2. Pending(c)' => \A k \in Key : id'[c] \notin past'[k]
    BY <1>1, <1>2, <1>3, <1>7, <1>8 DEF ValuesApart
  <2> QED
    BY <1>1, <2>1, <2>2 DEF CallerTold
<1>10. ValuesApart'
  <2>1. \A k \in Key : \A v \in past'[k] : v < nextId'
    BY <1>1, <1>2, <1>3, <1>5 DEF ValuesApart
  <2>2. \A d \in Client \ {c} : Writes(d)' => id'[d] < nextId
    BY <1>2, <1>6 DEF CallerTold
  <2>3. \A d, e \in Client : d # e /\ Writes(d)' /\ Writes(e)' => id'[d] # id'[e]
    <3>1. \A d \in Client \ {c} : Writes(d)' /\ Writes(c)' => id'[d] # id'[c]
      BY <1>3, <1>4, <1>6, <1>8, <2>2
    <3>2. \A d, e \in Client \ {c} : d # e /\ Writes(d)' /\ Writes(e)' => id'[d] # id'[e]
      BY <1>2, <1>6 DEF ValuesApart
    <3> QED
      BY <3>1, <3>2
  <2>4. \A t \in Fallbacks, k \in Key : held'[t][k] <= Old
    BY <1>1, <1>2 DEF ValuesApart
  <2>5. nextId' > Old
    BY <1>3 DEF Old
  <2> QED
    BY <2>1, <2>3, <2>4, <2>5 DEF ValuesApart
<1> QED
  BY <1>1, <1>6, <1>9, <1>10 DEF Told

\* A call that begins has its operation, keys and targets, and has done nothing.
Began(c, name, what, K, targets) ==
    /\ op[c] = "idle" /\ op'[c] = what /\ did'[c] = name /\ keys'[c] = K
    /\ todo'[c] = targets /\ out'[c] = "none"
    /\ \A t \in Target : got'[c][t] = Absent
    /\ \A d \in Client \ {c} :
         /\ op'[d] = op[d] /\ did'[d] = did[d] /\ keys'[d] = keys[d]
         /\ todo'[d] = todo[d] /\ won'[d] = won[d] /\ got'[d] = got[d]
         /\ out'[d] = out[d]

\* What Begin does, caller by caller.
LEMMA BeginBegan ==
    ASSUME TypeOK, NEW c \in Client, NEW name, NEW what, NEW K, NEW targets,
           Begin(c, name, what, K, targets)
    PROVE  Began(c, name, what, K, targets)
<1>1. got'[c] = [t \in Target |-> Absent]
  BY DEF TypeOK, Begin
<1>2. \A t \in Target : got'[c][t] = Absent
  BY <1>1
<1>3. \A d \in Client \ {c} :
        /\ op'[d] = op[d] /\ did'[d] = did[d] /\ keys'[d] = keys[d]
        /\ todo'[d] = todo[d] /\ won'[d] = won[d] /\ got'[d] = got[d]
        /\ out'[d] = out[d]
  BY DEF TypeOK, Begin
<1>4. /\ op[c] = "idle" /\ op'[c] = what /\ did'[c] = name /\ keys'[c] = K
      /\ todo'[c] = targets /\ out'[c] = "none"
  BY DEF TypeOK, Begin
<1> QED
  BY <1>2, <1>3, <1>4 DEF Began

\* Whose identifier is the next, and which parts may be None.
LEMMA NewValueDoes ==
    ASSUME TypeOK, NEW c \in Client, NewValue(c)
    PROVE  /\ nextId' = nextId + 1 /\ id'[c] = nextId
           /\ \A t \in Target : slot'[c][t] = "none" => t \in Optional
           /\ \A t \in Target : slot'[c][t] # "same"
           /\ \A d \in Client \ {c} : slot'[d] = slot[d] /\ id'[d] = id[d]
<1>1. PICK none \in SUBSET Optional :
        slot' = [slot EXCEPT ![c] =
                   [t \in Target |-> IF t \in none THEN "none" ELSE "put"]]
  BY DEF NewValue
<1>2. slot'[c] = [t \in Target |-> IF t \in none THEN "none" ELSE "put"]
  BY <1>1 DEF TypeOK
<1>3. \A d \in Client \ {c} : slot'[d] = slot[d]
  BY <1>1 DEF TypeOK
<1> QED
  BY <1>2, <1>3 DEF TypeOK, NewValue

\* A set begins.
LEMMA StartWriteBegins ==
    ASSUME TypeOK, Told, NEW c \in Client, NEW K \in SUBSET Key, StartWrite(c, K)
    PROVE  /\ Began(c, "write", "write", K, Written) /\ Own(c, K) /\ MakesNew(c)
           /\ id'[c] = nextId
<1>1. /\ Began(c, "write", "write", K, Written) /\ Own(c, K) /\ past' = past
      /\ held' = held /\ puts' = puts /\ seen' = seen /\ NewValue(c)
  BY BeginBegan DEF StartWrite, Own
<1>2. /\ nextId' = nextId + 1 /\ id'[c] = nextId
      /\ \A t \in Target : slot'[c][t] = "none" => t \in Optional
      /\ \A d \in Client \ {c} : slot'[d] = slot[d] /\ id'[d] = id[d]
  BY <1>1, NewValueDoes
<1>3. Others(c)
  BY <1>1, <1>2 DEF Began, Others
<1>4. InPhase(c)'
  BY <1>1, <1>2 DEF Began, InPhase, Told, Conditional, Reading
<1> QED
  BY <1>1, <1>2, <1>3, <1>4 DEF MakesNew, Began

\* A delete begins.
LEMMA StartDeleteBegins ==
    ASSUME TypeOK, Told, NEW c \in Client, NEW K \in SUBSET Key, StartDelete(c, K)
    PROVE  /\ Began(c, "delete", "delete", K, RemovedNow \cup RemovedAfterCommit)
           /\ Own(c, K) /\ MakesNew(c)
<1>1. /\ Began(c, "delete", "delete", K, RemovedNow \cup RemovedAfterCommit)
      /\ Own(c, K) /\ past' = past /\ held' = held /\ puts' = puts /\ seen' = seen
      /\ id' = id /\ slot' = slot /\ nextId' = nextId
  BY BeginBegan DEF StartDelete, Own
<1>2. Others(c)
  BY <1>1 DEF Began, Others
<1>3. InPhase(c)' /\ ~ Writes(c)'
  BY <1>1 DEF Began, InPhase, Told, Conditional, Reading, Writes
<1> QED
  BY <1>1, <1>2, <1>3 DEF MakesNew, Began

\* A conditional insert begins.
LEMMA StartInsertBegins ==
    ASSUME TypeOK, Told, NEW c \in Client, NEW K \in SUBSET Key, StartInsert(c, K)
    PROVE  /\ Began(c, "insert", "cond", K, Committing) /\ Own(c, K) /\ MakesNew(c)
           /\ puts'[c] = K /\ seen' = seen
<1>1. /\ Began(c, "insert", "cond", K, Committing) /\ Own(c, K) /\ past' = past
      /\ held' = held /\ puts' = [puts EXCEPT ![c] = K] /\ seen' = seen /\ NewValue(c)
  BY BeginBegan DEF StartInsert, Own
<1>2. /\ nextId' = nextId + 1 /\ id'[c] = nextId
      /\ \A t \in Target : slot'[c][t] = "none" => t \in Optional
      /\ \A d \in Client \ {c} : slot'[d] = slot[d] /\ id'[d] = id[d]
  BY <1>1, NewValueDoes
<1>3. puts'[c] = K /\ \A d \in Client \ {c} : puts'[d] = puts[d]
  BY <1>1 DEF TypeOK
<1>4. Others(c)
  BY <1>1, <1>2, <1>3 DEF Began, Others
<1>5. InPhase(c)'
  BY <1>1, <1>2, <1>3 DEF Began, InPhase, Conditional, Reading
<1> QED
  BY <1>1, <1>2, <1>3, <1>4, <1>5 DEF MakesNew, Began

\* An update begins by reading the versions.
LEMMA StartUpdateBegins ==
    ASSUME TypeOK, Told, NEW c \in Client, NEW K \in SUBSET Key, StartUpdate(c, K)
    PROVE  Began(c, "update", "decide", K, {}) /\ Own(c, K) /\ MakesNew(c)
<1>1. /\ Began(c, "update", "decide", K, {}) /\ Own(c, K) /\ past' = past
      /\ held' = held /\ puts' = puts /\ id' = id /\ slot' = slot /\ nextId' = nextId
  BY BeginBegan DEF StartUpdate, Own
<1>2. \A d \in Client \ {c} : seen'[d] = seen[d]
  BY DEF StartUpdate, TypeOK
<1>3. Others(c)
  BY <1>1, <1>2 DEF Began, Others
<1>4. InPhase(c)' /\ ~ Writes(c)'
  BY <1>1 DEF Began, InPhase, Told, Conditional, Reading, Writes
<1> QED
  BY <1>1, <1>3, <1>4 DEF MakesNew, Began

\* A get begins.
LEMMA StartGetBegins ==
    ASSUME TypeOK, Told, NEW c \in Client, NEW k \in Key, StartGet(c, k)
    PROVE  /\ Began(c, "get", IF Assembled THEN "assemble" ELSE "get", {k},
                    IF Assembled THEN Parts \cup Authority ELSE Consulted)
           /\ MakesNew(c) /\ owner' = owner
<1>1. /\ Began(c, "get", IF Assembled THEN "assemble" ELSE "get", {k},
               IF Assembled THEN Parts \cup Authority ELSE Consulted)
      /\ past' = past /\ owner' = owner /\ held' = held /\ puts' = puts /\ seen' = seen
      /\ slot' = slot /\ nextId' = nextId /\ id' = [id EXCEPT ![c] = Absent]
  BY BeginBegan DEF StartGet, history
<1>2. \A d \in Client \ {c} : id'[d] = id[d]
  BY <1>1 DEF TypeOK
<1>3. Others(c)
  BY <1>1, <1>2 DEF Began, Others
<1>4. InPhase(c)' /\ ~ Writes(c)' /\ op'[c] # "idle"
  BY <1>1 DEF Began, InPhase, Told, Conditional, Reading, Writes
<1> QED
  BY <1>1, <1>3, <1>4 DEF MakesNew

\* An update has decided.
LEMMA DecideMoves ==
    ASSUME TypeOK, OnCourse, Told, NEW c \in Client, NEW P \in SUBSET keys[c],
           NEW R \in SUBSET keys[c], Decide(c, P, R)
    PROVE  /\ MakesNew(c) /\ op[c] = "decide" /\ op'[c] = "cond" /\ owner' = owner
           /\ did' = did /\ keys'[c] = P \cup R /\ puts'[c] = P /\ seen' = seen
           /\ todo'[c] = Authority \cup
                {t \in Components : \E k \in P : seen[c][k] = Absent}
<1>1. PICK same \in SUBSET (Dependents \cap Parts) :
        slot' = [slot EXCEPT ![c] = [t \in Target |->
                   IF t \in same \cup Components THEN "same" ELSE "put"]]
  BY DEF Decide
<1>2. slot'[c] = [t \in Target |-> IF t \in same \cup Components THEN "same" ELSE "put"]
  BY <1>1 DEF TypeOK
<1>3. \A t \in Target : slot'[c][t] # "none"
  BY <1>2
<1>4. /\ op[c] = "decide" /\ op'[c] = "cond" /\ owner' = owner /\ past' = past
      /\ held' = held /\ did' = did /\ seen' = seen /\ nextId' = nextId + 1
      /\ id'[c] = nextId /\ keys'[c] = P \cup R /\ puts'[c] = P
      /\ todo'[c] = Authority \cup
           {t \in Components : \E k \in P : seen[c][k] = Absent}
  BY DEF Decide, TypeOK, history
<1>5. Others(c)
  BY <1>1 DEF Decide, TypeOK, Others
<1>6. InPhase(c)'
  BY <1>3, <1>4 DEF InPhase, Told, Conditional, Reading
<1> QED
  BY <1>4, <1>5, <1>6 DEF MakesNew

\* Every step keeps what callers were told true.
LEMMA NextTold == TypeOK /\ OnCourse /\ Told /\ [Next]_vars => Told'
<1> SUFFICES ASSUME TypeOK, OnCourse, Told, [Next]_vars PROVE Told'
  OBVIOUS
<1>1. CASE UNCHANGED vars
  BY <1>1 DEF vars, call, history, Told, ValuesApart, InPhase, CallerTold, Writes, Pending
<1>2. ASSUME NEW c \in Client, Start(c) PROVE Told'
  BY <1>2, StartWriteBegins, StartDeleteBegins, StartInsertBegins, StartUpdateBegins,
     StartGetBegins, NewTold DEF Start
<1>3. ASSUME NEW c \in Client, Moving(c) PROVE Told'
  BY <1>3, MovingMoves, MovedTold
<1>4. ASSUME NEW c \in Client, NEW P \in SUBSET keys[c], NEW R \in SUBSET keys[c],
             Decide(c, P, R)
      PROVE  Told'
  BY <1>4, DecideMoves, NewTold
<1> QED
  BY <1>1, <1>2, <1>3, <1>4 DEF Next, Step, CondTarget, LookUp, Moving

\* The second inductive invariant: whatever else happens, the value of a write
\* is its own, not committed before its commit point and committed after it.
THEOREM StaysTold == Spec => []Told
<1>1. Init => Told
  <2> SUFFICES ASSUME Init PROVE Told
    OBVIOUS
  <2>1. /\ \A k \in Key : past[k] = {Absent}
        /\ nextId = Old + 1
        /\ \A c \in Client : /\ op[c] = "idle" /\ did[c] = "get" /\ keys[c] = {}
                             /\ todo[c] = {}
                             /\ \A t \in Target : slot[c][t] = "put"
                             /\ \A k \in Key : seen[c][k] = Absent
    BY DEF Init
  <2>2. \A t \in Fallbacks, k \in Key : held[t][k] <= Old
    <3>1. held \in [Target -> [Key -> {Absent, Old}]]
      BY DEF Init
    <3>2. \A t \in Fallbacks, k \in Key : held[t][k] \in {Absent, Old}
      BY <3>1, RolesPartition
    <3> QED
      BY <3>2 DEF Absent, Old
  <2>3. ValuesApart
    BY <2>1, <2>2 DEF ValuesApart, Writes, Absent, Old
  <2>4. ASSUME NEW c \in Client PROVE InPhase(c) /\ CallerTold(c)
    BY <2>1 DEF InPhase, CallerTold, Writes, Pending, Conditional, Reading
  <2> QED
    BY <2>3, <2>4 DEF Told
<1> QED
  BY <1>1, NextTold, StaysOnCourse, TypeCorrect, PTL DEF Spec

\* Law 8, for every declaration and any number of callers, whether they take
\* turns or not: a set that raised UncommittedWriteError committed nothing (if
\* a call that raises did nothing), and one that raised PartialSyncError, or
\* returned, did commit.
THEOREM OutcomesTellTheCommit == ~ PartialCalls /\ Spec => []OutcomeTellsTheCommit
<1>1. TypeOK /\ Told /\ ~ PartialCalls => OutcomeTellsTheCommit
  BY DEF TypeOK, Told, CallerTold, OutcomeTellsTheCommit
<1>2. CASE ~ PartialCalls
  BY <1>1, <1>2, StaysTold, TypeCorrect, PTL
<1> QED
  BY <1>2

-----------------------------------------------------------------------------
(***************************************************************************)
(* Laws 2 and 6, where callers take turns: a caller owns the keys it is    *)
(* changing, so nobody else's call changes what it wrote, found or removed *)
(* there; a fill only adds where there was nothing.                        *)
(***************************************************************************)

\* The components every entry refers to, and the targets a set or delete that
\* returns must have reached.
Needed == Components \ Optional
MustHave == Written \ (Dependents \ Required)

Owns(c) == op[c] \in Mutating => \A k \in keys[c] : owner[k] = c

\* What a call that changes keys has done to them so far.
Refers(c) ==
    /\ op[c] = "write" => \A t \in Needed \ todo[c], k \in keys[c] : held[t][k] # Absent
    /\ op[c] = "delete" /\ todo[c] \cap Authority = {} =>
         \A a \in Authority, k \in keys[c] : held[a][k] = Absent
    /\ op[c] = "cond" => \A t \in Needed \ todo[c], k \in puts[c] :
         seen[c][k] = Absent => held[t][k] # Absent
    /\ op[c] = "condDelete" =>
         \A a \in Authority, k \in won[c] \ puts[c] : held[a][k] = Absent

\* The targets a set or a delete has visited are as it left them.
Reaches(c) == \A k \in keys[c] :
    /\ owner[k] = c
    /\ op[c] = did[c] \/ (op[c] = "idle" /\ out[c] = "ok")
    => /\ did[c] = "write" => \A t \in MustHave \ todo[c] : held[t][k] = SlotValue(c, t)
       /\ did[c] = "delete" => \A t \in MustHave \ (Fill \cup todo[c]) : held[t][k] = Absent

\* A reader of an assembled record has the parts of the entry it found, as long
\* as that entry is the one there.
Finds(c) ==
    op[c] = "assemble" \/ (op[c] = "idle" /\ did[c] = "get" /\ out[c] = "ok") =>
    \A a \in Authority, k \in keys[c] :
      /\ a \in todo[c] => Components \subseteq todo[c] /\ got[c][a] = Absent
      /\ got[c][a] # Absent => got[c][a] \in past[k] \cup {Old}
      /\ got[c][a] # Absent /\ got[c][a] = held[a][k] =>
           \A t \in Needed \ todo[c] : got[c][t] # Absent

CallerInTurn(c) ==
    /\ Owns(c) /\ Reaches(c)
    /\ Needed # {} => Refers(c) /\ Finds(c)

InTurn ==
    /\ Needed # {} => ReferentBeforeReference
    /\ \A c \in Client : CallerInTurn(c)

-----------------------------------------------------------------------------
\* The removal traversal comes to the authority first.
LEMMA RemovalOrder ==
    ASSUME NEW S \in SUBSET Target, NEW t \in First(S, RemovalRank), t \notin Authority
    PROVE  S \cap Authority = {}
<1>1. /\ \A u \in Authority : RemovalRank[u] = 0
      /\ \A u \in Target \ Authority : RemovalRank[u] \in {1, 2}
  BY DEF RemovalRank, Authority, ByRole
<1>2. t \in Target \ Authority
  BY FirstIsIn
<1>3. \A u \in S : RemovalRank[t] < RemovalRank[u] \/ RemovalRank[t] = RemovalRank[u]
  BY DEF First
<1>4. ASSUME NEW u \in S \cap Authority PROVE FALSE
  <2>1. RemovalRank[u] = 0 /\ RemovalRank[t] \in {1, 2}
    BY <1>1, <1>2, <1>4
  <2> QED
    BY <1>3, <1>4, <2>1
<1> QED
  BY <1>4

\* A reader of parts reads the authority first.
LEMMA AssemblyOrder ==
    ASSUME NEW S \in SUBSET Target, NEW t \in First(S, AssemblyRank), t \notin Authority
    PROVE  S \cap Authority = {}
<1>1. /\ \A u \in Authority : AssemblyRank[u] = 0
      /\ \A u \in Target \ Authority : AssemblyRank[u] = 1
  BY DEF AssemblyRank, Authority, ByRole
<1>2. t \in Target \ Authority
  BY FirstIsIn
<1>3. \A u \in S : AssemblyRank[t] < AssemblyRank[u] \/ AssemblyRank[t] = AssemblyRank[u]
  BY DEF First
<1>4. ASSUME NEW u \in S \cap Authority PROVE FALSE
  <2>1. AssemblyRank[u] = 0 /\ AssemblyRank[t] = 1
    BY <1>1, <1>2, <1>4
  <2> QED
    BY <1>3, <1>4, <2>1
<1> QED
  BY <1>4

\* A record with a component, or with a part that may be None, is read by parts.
LEMMA PartsAssembled == (Components # {} => Assembled) /\ (Optional # {} => Assembled)
BY DeclarationAssumption, BoundsAssumption DEF WellFormed, Assembled

\* A fill is of a record that is not read by parts: all its entries are values.
LEMMA FilledAreWhole ==
    ASSUME TypeOK, Told, NEW c \in Client, op[c] = "fill",
           NEW d \in Client, did[d] = "write", NEW t \in Target
    PROVE  SlotValue(d, t) # Absent /\ Needed = {}
<1>1. InPhase(c) /\ InPhase(d) /\ CallerTold(d)
  BY DEF Told
<1>2. Optional = {} /\ Components = {}
  BY <1>1, PartsAssembled DEF InPhase
<1>3. id[d] # Absent
  BY <1>1 DEF CallerTold, Writes, Absent, Old
<1>4. slot[d][t] # "none"
  BY <1>1, <1>2 DEF InPhase
<1> QED
  BY <1>2, <1>3, <1>4 DEF SlotValue, Needed

\* Others stay in turn while c moves.
LEMMA OthersInTurn ==
    ASSUME TypeOK, Told, InTurn, NEW c \in Client, Moved(c), NEW d \in Client \ {c}
    PROVE  CallerInTurn(d)'
<1>1. /\ op'[d] = op[d] /\ did'[d] = did[d] /\ keys'[d] = keys[d] /\ id'[d] = id[d]
      /\ todo'[d] = todo[d] /\ slot'[d] = slot[d] /\ puts'[d] = puts[d]
      /\ seen'[d] = seen[d] /\ won'[d] = won[d] /\ got'[d] = got[d]
      /\ out'[d] = out[d]
  BY DEF Moved, Others
<1>2. owner' = owner
  BY DEF Moved, Kept
<1>3. CallerInTurn(c) /\ CallerInTurn(d) /\ InPhase(c) /\ InPhase(d)
  BY DEF InTurn, Told
<1>4. keys[d] \in SUBSET Key /\ Authority \subseteq Target /\ Needed \subseteq Target
      /\ MustHave \subseteq Target
  BY RolesPartition DEF TypeOK, Needed, MustHave
<1>5. \A t \in Target, k \in Key : held'[t][k] # held[t][k] /\ owner[k] = d =>
        op[c] = "fill" /\ t \in Fill /\ held[t][k] = Absent
  BY <1>3 DEF Moved, Touches, CallerInTurn, Owns
<1>6. Owns(d)'
  BY <1>1, <1>2, <1>3 DEF CallerInTurn, Owns
<1>7. Reaches(d)'
  <2>1. \A t \in Target : SlotValue(d, t)' = SlotValue(d, t)
    BY <1>1 DEF SlotValue
  <2>2. ASSUME NEW k \in keys[d], owner[k] = d, did[d] = "write", NEW t \in MustHave \ todo[d],
               held[t][k] = SlotValue(d, t)
        PROVE  held'[t][k] = held[t][k]
    BY <1>4, <1>5, <2>2, FilledAreWhole
  <2>3. ASSUME NEW k \in keys[d], owner[k] = d, NEW t \in MustHave \ (Fill \cup todo[d])
        PROVE  held'[t][k] = held[t][k]
    BY <1>4, <1>5, <2>3
  <2>4. Reaches(d)
    BY <1>3 DEF CallerInTurn
  <2>5. ASSUME NEW k \in keys[d], owner[k] = d,
               op[d] = did[d] \/ (op[d] = "idle" /\ out[d] = "ok")
        PROVE  /\ did[d] = "write" =>
                    \A t \in MustHave \ todo[d] : held'[t][k] = SlotValue(d, t)
               /\ did[d] = "delete" =>
                    \A t \in MustHave \ (Fill \cup todo[d]) : held'[t][k] = Absent
    BY <2>2, <2>3, <2>4, <2>5 DEF Reaches
  <2> QED
    BY <1>1, <1>2, <1>4, <2>1, <2>5 DEF Reaches
<1>8. ASSUME Needed # {} PROVE Refers(d)' /\ Finds(d)'
  <2>1. Refers(d) /\ Finds(d)
    BY <1>3, <1>8 DEF CallerInTurn
  <2>2. op[c] # "fill"
    BY <1>3, <1>8, PartsAssembled DEF InPhase, Needed
  <2>3. Refers(d)'
    <3>1. \A t \in Target, k \in keys[d] : op[d] \in Mutating => held'[t][k] = held[t][k]
      BY <1>3, <1>4, <1>5, <2>2 DEF CallerInTurn, Owns
    <3>2. op[d] = "cond" => puts[d] \subseteq keys[d]
      BY <1>3 DEF InPhase
    <3>3. op[d] = "condDelete" => won[d] \ puts[d] \subseteq keys[d]
      BY <1>3 DEF InPhase
    <3> QED
      BY <1>1, <1>4, <2>1, <3>1, <3>2, <3>3 DEF Refers, Mutating, Busy
  <2>4. Finds(d)'
    <3>1. \A k \in Key : past[k] \subseteq past'[k]
      BY DEF Moved, Grows
    <3>2. ASSUME NEW a \in Authority, NEW k \in keys[d], got[d][a] # Absent,
                 got[d][a] \in past[k] \cup {Old}, got[d][a] = held'[a][k]
          PROVE  held[a][k] = held'[a][k]
      <4>1. SUFFICES ASSUME held'[a][k] # held[a][k] PROVE FALSE
        OBVIOUS
      <4>2. Pending(c) /\ held'[a][k] = id[c]
        BY <1>4, <2>2, <3>2, <4>1 DEF Moved, Touches
      <4>3. Writes(c) /\ CallerTold(c)
        BY <1>3, <4>2 DEF Pending, Writes, InPhase, Told
      <4>4. id[c] \notin past[k] /\ id[c] # Old
        BY <1>4, <4>2, <4>3 DEF CallerTold, Old
      <4> QED
        BY <3>2, <4>2, <4>4
    <3> QED
      BY <1>1, <1>4, <2>1, <3>1, <3>2 DEF Finds
  <2> QED
    BY <2>3, <2>4
<1> QED
  BY <1>6, <1>7, <1>8 DEF CallerInTurn

-----------------------------------------------------------------------------
\* Others stay in turn while c begins a change of K, if it waited for its turn.
LEMMA BeginsInTurn ==
    ASSUME TypeOK, Exclusive, InTurn, NEW c \in Client, NEW K \in SUBSET Key,
           MakesNew(c), Own(c, K), NEW d \in Client \ {c}
    PROVE  CallerInTurn(d)'
<1>1. /\ op'[d] = op[d] /\ did'[d] = did[d] /\ keys'[d] = keys[d] /\ id'[d] = id[d]
      /\ todo'[d] = todo[d] /\ slot'[d] = slot[d] /\ puts'[d] = puts[d]
      /\ seen'[d] = seen[d] /\ won'[d] = won[d] /\ got'[d] = got[d]
      /\ out'[d] = out[d]
  BY DEF MakesNew, Others
<1>2. /\ held' = held /\ past' = past /\ keys[d] \in SUBSET Key
      /\ \A k \in Key : owner'[k] = IF k \in K THEN c ELSE owner[k]
      /\ op[d] \in Mutating => keys[d] \cap K = {}
  BY DEF MakesNew, Own, TypeOK
<1>3. Owns(d) /\ Reaches(d) /\ (Needed # {} => Refers(d) /\ Finds(d))
  BY DEF InTurn, CallerInTurn
<1>4. Owns(d)'
  BY <1>1, <1>2, <1>3 DEF Owns
<1>5. Reaches(d)'
  <2>1. \A t : SlotValue(d, t)' = SlotValue(d, t)
    BY <1>1 DEF SlotValue
  <2>2. \A k \in keys[d] : owner'[k] = d => owner[k] = d
    BY <1>2
  <2> QED
    BY <1>1, <1>2, <1>3, <2>1, <2>2 DEF Reaches
<1>6. Needed # {} => Refers(d)' /\ Finds(d)'
  BY <1>1, <1>2, <1>3 DEF Refers, Finds
<1> QED
  BY <1>4, <1>5, <1>6 DEF CallerInTurn

\* The media are as they were.
LEMMA StillReferent ==
    ASSUME held' = held, Needed # {} => ReferentBeforeReference
    PROVE  Needed # {} => ReferentBeforeReference'
BY DEF ReferentBeforeReference

\* A call begins in its turn.
LEMMA StartInTurn ==
    ASSUME TypeOK, Exclusive, Told, InTurn, NEW c \in Client, Start(c)
    PROVE  InTurn'
<1>a. held' = held => (Needed # {} => ReferentBeforeReference')
  BY StillReferent DEF InTurn
<1>b. Components \subseteq Committing /\ Authority \subseteq Committing
      /\ Needed \subseteq Components /\ Committing \subseteq Written
  BY DEF Committing, Needed, Written
<1>1. ASSUME NEW K \in SUBSET Key, StartWrite(c, K) PROVE InTurn'
  <2>1. Began(c, "write", "write", K, Written) /\ Own(c, K) /\ MakesNew(c)
    BY <1>1, StartWriteBegins
  <2>2. \A k \in K : owner'[k] = c
    BY <2>1 DEF Own
  <2>3. CallerInTurn(c)'
    <3>1. Owns(c)'
      BY <2>1, <2>2 DEF Began, Owns
    <3>2. Reaches(c)'
      BY <2>1 DEF Began, Reaches, MustHave
    <3>3. Refers(c)' /\ Finds(c)'
      BY <1>b, <2>1 DEF Began, Refers, Finds
    <3> QED
      BY <3>1, <3>2, <3>3 DEF CallerInTurn
  <2> QED
    BY <1>a, <2>1, <2>3, BeginsInTurn DEF InTurn, MakesNew
<1>2. ASSUME NEW K \in SUBSET Key, StartDelete(c, K) PROVE InTurn'
  <2>1. /\ Began(c, "delete", "delete", K, RemovedNow \cup RemovedAfterCommit)
        /\ Own(c, K) /\ MakesNew(c)
    BY <1>2, StartDeleteBegins
  <2>2. \A k \in K : owner'[k] = c
    BY <2>1 DEF Own
  <2>3. RemovedNow \cup RemovedAfterCommit = Written
    BY DEF RemovedNow, RemovedAfterCommit, Written, Committing
  <2>4. CallerInTurn(c)'
    <3>1. Owns(c)'
      BY <2>1, <2>2 DEF Began, Owns
    <3>2. Reaches(c)'
      BY <2>1, <2>3 DEF Began, Reaches, MustHave
    <3>3. Refers(c)' /\ Finds(c)'
      BY <1>b, <2>1, <2>3 DEF Began, Refers, Finds
    <3> QED
      BY <3>1, <3>2, <3>3 DEF CallerInTurn
  <2> QED
    BY <1>a, <2>1, <2>4, BeginsInTurn DEF InTurn, MakesNew
<1>3. ASSUME NEW K \in SUBSET Key, StartInsert(c, K) PROVE InTurn'
  <2>1. Began(c, "insert", "cond", K, Committing) /\ Own(c, K) /\ MakesNew(c)
    BY <1>3, StartInsertBegins
  <2>2. \A k \in K : owner'[k] = c
    BY <2>1 DEF Own
  <2>3. CallerInTurn(c)'
    <3>1. Owns(c)'
      BY <2>1, <2>2 DEF Began, Owns
    <3>2. Reaches(c)'
      BY <2>1 DEF Began, Reaches
    <3>3. Refers(c)' /\ Finds(c)'
      BY <1>b, <2>1 DEF Began, Refers, Finds
    <3> QED
      BY <3>1, <3>2, <3>3 DEF CallerInTurn
  <2> QED
    BY <1>a, <2>1, <2>3, BeginsInTurn DEF InTurn, MakesNew
<1>4. ASSUME NEW K \in SUBSET Key, StartUpdate(c, K) PROVE InTurn'
  <2>1. Began(c, "update", "decide", K, {}) /\ Own(c, K) /\ MakesNew(c)
    BY <1>4, StartUpdateBegins
  <2>2. \A k \in K : owner'[k] = c
    BY <2>1 DEF Own
  <2>3. CallerInTurn(c)'
    BY <2>1, <2>2 DEF Began, CallerInTurn, Owns, Reaches, Refers, Finds
  <2> QED
    BY <1>a, <2>1, <2>3, BeginsInTurn DEF InTurn, MakesNew
<1>5. ASSUME NEW k \in Key, StartGet(c, k) PROVE InTurn'
  <2> DEFINE what == IF Assembled THEN "assemble" ELSE "get"
             targets == IF Assembled THEN Parts \cup Authority ELSE Consulted
  <2>1. Began(c, "get", what, {k}, targets) /\ MakesNew(c) /\ owner' = owner
    BY <1>5, StartGetBegins
  <2>2. /\ what \in {"get", "assemble"}
        /\ what = "assemble" => Components \subseteq targets
    BY DeclarationAssumption DEF WellFormed
  <2> HIDE DEF what, targets
  <2>3. CallerInTurn(c)'
    <3>1. Owns(c)' /\ Reaches(c)'
      BY <2>1, <2>2 DEF Began, Owns, Reaches, Mutating
    <3>2. Refers(c)'
      BY <2>1, <2>2 DEF Began, Refers
    <3>3. Finds(c)'
      <4>1. \A a \in Authority : got'[c][a] = Absent
        BY <2>1, RolesPartition DEF Began
      <4> QED
        BY <2>1, <2>2, <4>1 DEF Began, Finds
    <3> QED
      BY <3>1, <3>2, <3>3 DEF CallerInTurn
  <2>4. ASSUME NEW d \in Client \ {c} PROVE CallerInTurn(d)'
    <3>1. /\ op'[d] = op[d] /\ did'[d] = did[d] /\ keys'[d] = keys[d] /\ id'[d] = id[d]
          /\ todo'[d] = todo[d] /\ slot'[d] = slot[d] /\ puts'[d] = puts[d]
          /\ seen'[d] = seen[d] /\ won'[d] = won[d] /\ got'[d] = got[d]
          /\ out'[d] = out[d] /\ held' = held /\ past' = past
      BY <2>1 DEF MakesNew, Others
    <3>2. CallerInTurn(d)
      BY DEF InTurn
    <3> QED
      BY <2>1, <3>1, <3>2
         DEF CallerInTurn, Owns, Reaches, Refers, Finds, SlotValue
  <2> QED
    BY <1>a, <2>1, <2>3, <2>4 DEF InTurn, MakesNew
<1> QED
  BY <1>1, <1>2, <1>3, <1>4, <1>5 DEF Start

\* A decision keeps all in turn: it is about keys the caller owns.
LEMMA DecideInTurn ==
    ASSUME TypeOK, OnCourse, Told, InTurn, NEW c \in Client,
           NEW P \in SUBSET keys[c], NEW R \in SUBSET keys[c], Decide(c, P, R)
    PROVE  InTurn'
<1>1. /\ MakesNew(c) /\ op[c] = "decide" /\ op'[c] = "cond" /\ owner' = owner
      /\ did' = did /\ keys'[c] = P \cup R /\ puts'[c] = P /\ seen' = seen
      /\ todo'[c] = Authority \cup
           {t \in Components : \E k \in P : seen[c][k] = Absent}
  BY DecideMoves
<1>2. ASSUME NEW d \in Client \ {c} PROVE CallerInTurn(d)'
  <2>1. /\ op'[d] = op[d] /\ did'[d] = did[d] /\ keys'[d] = keys[d] /\ id'[d] = id[d]
        /\ todo'[d] = todo[d] /\ slot'[d] = slot[d] /\ puts'[d] = puts[d]
        /\ seen'[d] = seen[d] /\ won'[d] = won[d] /\ got'[d] = got[d]
        /\ out'[d] = out[d] /\ held' = held /\ past' = past
    BY <1>1 DEF MakesNew, Others
  <2>2. CallerInTurn(d)
    BY DEF InTurn
  <2> QED
    BY <1>1, <2>1, <2>2 DEF CallerInTurn, Owns, Reaches, Refers, Finds, SlotValue
<1>3. CallerInTurn(c)'
  <2>1. Owns(c)'
    BY <1>1 DEF InTurn, CallerInTurn, Owns, Mutating, Busy
  <2>2. Reaches(c)'
    BY <1>1 DEF Reaches, MakesNew, InPhase, Conditional
  <2>3. Finds(c)'
    BY <1>1 DEF Finds
  <2>4. Refers(c)'
    BY <1>1 DEF Refers, Needed
  <2> QED
    BY <2>1, <2>2, <2>3, <2>4 DEF CallerInTurn
<1> QED
  BY <1>1, <1>2, <1>3, StillReferent DEF InTurn, MakesNew

-----------------------------------------------------------------------------
\* What is left to show of a step of c: its own keys, and the references.
MoverInTurn(c) ==
    /\ Reaches(c)'
    /\ Needed # {} => ReferentBeforeReference' /\ Refers(c)' /\ Finds(c)'

\* If the mover keeps its turn, all do.
LEMMA MovedInTurn ==
    ASSUME TypeOK, Told, InTurn, NEW c \in Client, Moved(c), MoverInTurn(c)
    PROVE  InTurn'
<1>1. \A d \in Client \ {c} : CallerInTurn(d)'
  BY OthersInTurn
<1>2. Owns(c)'
  BY DEF Moved, Kept, Owns, InTurn, CallerInTurn
<1> QED
  BY <1>1, <1>2 DEF MoverInTurn, InTurn, CallerInTurn

\* A call that is neither a set, a delete nor a get by parts has nothing to reach
\* or find.
LEMMA ReachesOther ==
    ASSUME TypeOK, Told, NEW c \in Client, Moved(c), op[c] \notin {"write", "delete"}
    PROVE  Reaches(c)'
<1>1. did' = did /\ op[c] \in Busy /\ InPhase(c)
  BY DEF Moved, Kept, Told, TypeOK
<1>2. did[c] \notin {"write", "delete"}
  BY <1>1 DEF InPhase, Busy, Conditional, Reading
<1> QED
  BY <1>1, <1>2 DEF Reaches

\* Of a call that changes keys, a reader learns nothing.
LEMMA FindsOther ==
    ASSUME TypeOK, Told, NEW c \in Client, Moved(c), op[c] \in Mutating
    PROVE  Finds(c)'
<1>1. did' = did /\ InPhase(c) /\ InPhase(c)'
  BY DEF Moved, Kept, Told
<1>2. did[c] # "get"
  BY <1>1 DEF InPhase, Busy, Conditional, Reading, Mutating
<1> QED
  BY <1>1, <1>2 DEF Finds, InPhase, Reading

\* A set, made or failed at a target.
LEMMA WriteInTurn ==
    ASSUME TypeOK, OnCourse, Told, InTurn, NEW c \in Client,
           WriteTarget(c) \/ WriteFails(c)
    PROVE  MoverInTurn(c)
<1>1. PICK t \in First(todo[c], CommitRank), S \in SUBSET keys[c] :
        /\ Store(t, S, SlotValue(c, t))
        /\ \/ S = keys[c] /\ Continue(c, "write", todo[c] \ {t})
           \/ t \in Committing /\ Finish(c, "uncommitted")
           \/ t \notin Committing /\ Settle(c, t, todo[c] \ {t})
  BY RaiseDoes DEF WriteTarget, WriteFails
<1>2. op[c] = "write" /\ InPhase(c) /\ CallerTold(c) /\ CallerInTurn(c)
  BY DEF WriteTarget, WriteFails, Told, InTurn
<1>3. keys' = keys /\ id' = id /\ slot' = slot /\ did' = did /\ did[c] = "write"
  BY <1>2 DEF WriteTarget, WriteFails, call, InPhase
<1>4. /\ t \in todo[c] /\ t \in Target
      /\ t \in Authority \cup Components \cup Dependents
      /\ keys[c] \in SUBSET Key
      /\ t \in Authority => (todo[c] \ {t}) \cap Committing = {}
  BY <1>2, WriteAt
<1>5. \/ S = keys[c] /\ ((todo[c] \ {t} = {} /\ Ends(c, "ok")) \/ GoesOn(c, "write", todo[c] \ {t}))
      \/ Ends(c, "uncommitted") \/ Ends(c, "partial")
      \/ /\ t \in Dependents \ Required
         /\ (todo[c] \ {t} = {} /\ Ends(c, "ok")) \/ GoesOn(c, "write", todo[c] \ {t})
  BY <1>1, <1>2, ContinueEither, FinishEnds, SettleEither
<1>6. \A u \in Target, k \in Key :
        held'[u][k] = IF u = t /\ k \in S THEN SlotValue(c, t) ELSE held[u][k]
  BY <1>1, <1>4, StoreDoes
<1>7. \A u : SlotValue(c, u)' = SlotValue(c, u)
  BY <1>3 DEF SlotValue
<1>8. t \in Needed => SlotValue(c, t) # Absent
  BY <1>2, <1>3, <1>4 DEF SlotValue, Needed, InPhase, CallerTold, Writes, Absent, Old
<1>9. Reaches(c)'
  <2>1. CASE out'[c] \notin {"ok"} /\ op'[c] = "idle"
    BY <1>3, <2>1 DEF Reaches
  <2>2. CASE /\ todo'[c] = todo[c] \ {t}
             /\ S = keys[c] \/ t \notin MustHave
    <3>1. Reaches(c)
      BY <1>2 DEF CallerInTurn
    <3>2. owner' = owner /\ MustHave \subseteq Target
      BY RolesPartition, MovingMoves DEF Moving, Moved, Kept, MustHave
    <3>3. ASSUME NEW k \in keys[c], owner[k] = c, NEW u \in MustHave \ todo'[c]
          PROVE  held'[u][k] = SlotValue(c, u)
      <4>1. CASE u = t
        BY <1>4, <1>6, <2>2, <3>2, <3>3, <4>1
      <4>2. CASE u # t
        BY <1>2, <1>3, <1>4, <1>6, <2>2, <3>1, <3>2, <3>3, <4>2 DEF Reaches
      <4> QED
        BY <4>1, <4>2
    <3> QED
      BY <1>3, <1>7, <3>2, <3>3 DEF Reaches
  <2> QED
    BY <1>5, <2>1, <2>2 DEF Ends, GoesOn, MustHave
<1>10. ASSUME Needed # {}
       PROVE  ReferentBeforeReference' /\ Refers(c)' /\ Finds(c)'
  <2>1. Refers(c) /\ ReferentBeforeReference
    BY <1>2, <1>10 DEF CallerInTurn, InTurn
  <2>2. \A u \in Needed, k \in Key : held[u][k] # Absent => held'[u][k] # Absent
    BY <1>6, <1>8, RolesPartition DEF Needed
  <2>3. t \in Authority => \A u \in Needed, k \in keys[c] : held[u][k] # Absent
    <3>1. ASSUME t \in Authority, NEW u \in Needed PROVE u \notin todo[c]
      BY <1>4, <3>1, Disjoint DEF Needed, Committing
    <3> QED
      BY <1>2, <2>1, <3>1 DEF Refers
  <2>4. ReferentBeforeReference'
    <3>1. ASSUME NEW a \in Authority, NEW u \in Needed, NEW k \in Key, held'[a][k] # Absent
          PROVE  held[u][k] # Absent
      <4>1. CASE held'[a][k] = held[a][k]
        BY <2>1, <3>1, <4>1 DEF ReferentBeforeReference, Needed
      <4>2. CASE held'[a][k] # held[a][k]
        BY <1>6, <2>3, <3>1, <4>2, RolesPartition
      <4> QED
        BY <4>1, <4>2
    <3> QED
      BY <2>2, <3>1 DEF ReferentBeforeReference, Needed
  <2>5. Refers(c)'
    <3>1. CASE op'[c] = "idle"
      BY <3>1 DEF Refers
    <3>2. CASE /\ GoesOn(c, "write", todo[c] \ {t})
               /\ S = keys[c] \/ t \in Dependents
      <4>1. op'[c] = "write" /\ todo'[c] = todo[c] \ {t}
        BY <3>2 DEF GoesOn
      <4>2. ASSUME NEW u \in Needed \ todo'[c], NEW k \in keys[c]
            PROVE  held'[u][k] # Absent
        <5>1. CASE u = t
          BY <1>4, <1>6, <1>8, <3>2, <4>2, <5>1, Disjoint DEF Needed
        <5>2. CASE u # t
          BY <1>2, <1>4, <2>1, <2>2, <4>1, <4>2, <5>2 DEF Refers
        <5> QED
          BY <5>1, <5>2
      <4> QED
        BY <1>3, <4>1, <4>2 DEF Refers
    <3> QED
      BY <1>5, <3>1, <3>2 DEF Ends
  <2>6. Finds(c)'
    BY <1>2, MovingMoves, FindsOther DEF Moving, Mutating, Busy
  <2> QED
    BY <2>4, <2>5, <2>6
<1> QED
  BY <1>9, <1>10 DEF MoverInTurn

\* A delete, made or failed at a target.
LEMMA DeleteInTurn ==
    ASSUME TypeOK, OnCourse, Told, InTurn, NEW c \in Client,
           DeleteTarget(c) \/ DeleteFails(c)
    PROVE  MoverInTurn(c)
<1>1. PICK t \in First(todo[c], RemovalRank), S \in SUBSET keys[c] :
        /\ Store(t, S, Absent)
        /\ \/ S = keys[c] /\ Continue(c, "delete", todo[c] \ {t})
           \/ t \in RemovedNow /\ Finish(c, "error")
           \/ t \notin RemovedNow /\ Settle(c, t, todo[c] \ {t})
  BY RaiseDoes DEF DeleteTarget, DeleteFails
<1>2. op[c] = "delete" /\ InPhase(c) /\ CallerInTurn(c)
  BY DEF DeleteTarget, DeleteFails, Told, InTurn
<1>3. keys' = keys /\ id' = id /\ slot' = slot /\ did' = did /\ did[c] = "delete"
  BY <1>2 DEF DeleteTarget, DeleteFails, call, InPhase
<1>4. /\ t \in todo[c] /\ t \in Target /\ keys[c] \in SUBSET Key
      /\ t \notin Authority => todo[c] \cap Authority = {}
  BY FirstIsIn, RemovalOrder DEF TypeOK
<1>5. \/ S = keys[c] /\ ((todo[c] \ {t} = {} /\ Ends(c, "ok")) \/ GoesOn(c, "delete", todo[c] \ {t}))
      \/ Ends(c, "error") \/ Ends(c, "partial")
      \/ /\ t \in Dependents \ Required
         /\ (todo[c] \ {t} = {} /\ Ends(c, "ok")) \/ GoesOn(c, "delete", todo[c] \ {t})
  BY <1>1, <1>2, ContinueEither, FinishEnds, SettleEither
<1>6. \A u \in Target, k \in Key :
        held'[u][k] = IF u = t /\ k \in S THEN Absent ELSE held[u][k]
  BY <1>1, <1>4, StoreDoes
<1>7. Reaches(c)'
  <2>1. CASE out'[c] \notin {"ok"} /\ op'[c] = "idle"
    BY <1>3, <2>1 DEF Reaches
  <2>2. CASE /\ todo'[c] = todo[c] \ {t}
             /\ S = keys[c] \/ t \notin MustHave
    <3>1. Reaches(c)
      BY <1>2 DEF CallerInTurn
    <3>2. owner' = owner /\ MustHave \subseteq Target
      BY RolesPartition, MovingMoves DEF Moving, Moved, Kept, MustHave
    <3>3. ASSUME NEW k \in keys[c], owner[k] = c, NEW u \in MustHave \ (Fill \cup todo'[c])
          PROVE  held'[u][k] = Absent
      <4>1. CASE u = t
        BY <1>4, <1>6, <2>2, <3>2, <3>3, <4>1
      <4>2. CASE u # t
        BY <1>2, <1>3, <1>4, <1>6, <2>2, <3>1, <3>2, <3>3, <4>2 DEF Reaches
      <4> QED
        BY <4>1, <4>2
    <3> QED
      BY <1>3, <3>2, <3>3 DEF Reaches
  <2> QED
    BY <1>5, <2>1, <2>2 DEF Ends, GoesOn, MustHave
<1>8. ASSUME Needed # {}
      PROVE  ReferentBeforeReference' /\ Refers(c)' /\ Finds(c)'
  <2>1. Refers(c) /\ ReferentBeforeReference
    BY <1>2, <1>8 DEF CallerInTurn, InTurn
  <2>2. t \notin Authority => \A a \in Authority, k \in keys[c] : held[a][k] = Absent
    BY <1>2, <1>4, <2>1 DEF Refers
  <2>3. ReferentBeforeReference'
    <3>1. ASSUME NEW a \in Authority, NEW u \in Components \ Optional, NEW k \in Key,
                 held'[a][k] # Absent
          PROVE  held'[u][k] # Absent
      <4>1. held[a][k] # Absent
        BY <1>6, <3>1, RolesPartition
      <4>2. held[u][k] # Absent
        BY <2>1, <4>1 DEF ReferentBeforeReference
      <4>3. ~ (u = t /\ k \in S)
        BY <2>2, <4>1, Disjoint
      <4> QED
        BY <1>6, <4>2, <4>3, RolesPartition
    <3> QED
      BY <3>1 DEF ReferentBeforeReference
  <2>4. Refers(c)'
    <3>1. CASE op'[c] = "idle"
      BY <3>1 DEF Refers
    <3>2. CASE GoesOn(c, "delete", todo[c] \ {t}) /\ (S = keys[c] \/ t \in Dependents)
      <4>1. ASSUME NEW a \in Authority, NEW k \in keys[c] PROVE held'[a][k] = Absent
        <5>1. CASE t \in Authority
          <6>1. a = t /\ S = keys[c]
            BY <3>2, <5>1, DeclarationAssumption, Disjoint DEF WellFormed
          <6> QED
            BY <1>4, <1>6, <4>1, <6>1
        <5>2. CASE t \notin Authority
          BY <1>4, <1>6, <2>2, <4>1, <5>2, RolesPartition
        <5> QED
          BY <5>1, <5>2
      <4> QED
        BY <1>3, <3>2, <4>1 DEF Refers, GoesOn
    <3> QED
      BY <1>5, <3>1, <3>2 DEF Ends
  <2>5. Finds(c)'
    BY <1>2, MovingMoves, FindsOther DEF Moving, Mutating, Busy
  <2> QED
    BY <2>3, <2>4, <2>5
<1> QED
  BY <1>7, <1>8 DEF MoverInTurn

\* A decision to do nothing, an error of a read, a crash: nothing was changed.
LEMMA QuietInTurn ==
    ASSUME TypeOK, OnCourse, Told, InTurn, NEW c \in Client,
           DecideNothing(c) \/ ReadFails(c) \/ Crash(c)
    PROVE  MoverInTurn(c)
<1>1. /\ Moved(c) /\ held' = held /\ op'[c] = "idle"
      /\ out'[c] = "ok" => op[c] = "decide"
  BY QuietMoves
<1>2. did' = did /\ InPhase(c) /\ did[c] \in OpNames
  BY <1>1 DEF Moved, Kept, Told, TypeOK
<1>3. out'[c] = "ok" => did[c] \in {"insert", "update"}
  BY <1>1, <1>2 DEF InPhase, Conditional
<1>4. Reaches(c)'
  BY <1>1, <1>2, <1>3 DEF Reaches, OpNames
<1>5. Refers(c)' /\ Finds(c)'
  BY <1>1, <1>2, <1>3 DEF Refers, Finds
<1> QED
  BY <1>1, <1>4, <1>5, StillReferent DEF MoverInTurn, InTurn

\* A whole record is read and filled only where no entry refers to another.
LEMMA ReadInTurn ==
    ASSUME TypeOK, OnCourse, Told, InTurn, NEW c \in Client,
           ReadTarget(c) \/ FillTarget(c) \/ FillFails(c)
    PROVE  MoverInTurn(c)
<1>1. Moved(c) /\ op[c] \in {"get", "fill"} /\ InPhase(c)
  BY ReadMoves, FillMoves DEF Told
<1>2. Needed = {}
  BY <1>1, PartsAssembled DEF InPhase, Needed
<1> QED
  BY <1>1, <1>2, ReachesOther DEF MoverInTurn

\* A reader by parts meets the authority first, and so every part its entry has.
LEMMA AssembleInTurn ==
    ASSUME TypeOK, OnCourse, Told, InTurn, NEW c \in Client, AssemblePart(c)
    PROVE  MoverInTurn(c)
<1>1. PICK t \in First(todo[c], AssemblyRank), k \in keys[c] :
        /\ got' = [got EXCEPT ![c][t] = held[t][k]]
        /\ IF t \in Authority /\ held[t][k] = Absent THEN Finish(c, "ok")
           ELSE Continue(c, "assemble", todo[c] \ {t})
  BY DEF AssemblePart
<1>2. /\ Moved(c) /\ held' = held /\ past' = past /\ keys' = keys
      /\ op[c] = "assemble" /\ InPhase(c) /\ CallerInTurn(c)
  BY AssembleMoves DEF AssemblePart, call, history, Told, InTurn
<1>3. /\ t \in todo[c] /\ t \in Target /\ keys[c] \in SUBSET Key /\ k \in Key
      /\ t \notin Authority => todo[c] \cap Authority = {}
      /\ \A l \in keys[c] : l = k
  BY <1>2, FirstIsIn, AssemblyOrder DEF TypeOK, InPhase, Reading
<1>4. \A u \in Target : got'[c][u] = IF u = t THEN held[t][k] ELSE got[c][u]
  BY <1>1, <1>3 DEF TypeOK
<1>5. \/ t \in Authority /\ held[t][k] = Absent /\ Ends(c, "ok")
      \/ /\ ~ (t \in Authority /\ held[t][k] = Absent)
         /\ todo'[c] = todo[c] \ {t}
  <2>1. CASE t \in Authority /\ held[t][k] = Absent
    BY <1>1, <2>1, FinishEnds
  <2>2. CASE ~ (t \in Authority /\ held[t][k] = Absent)
    BY <1>1, <2>2, ContinueEither DEF Ends, GoesOn
  <2> QED
    BY <2>1, <2>2
<1>6. ASSUME Needed # {} PROVE Finds(c)'
  <2>1. Finds(c) /\ ReferentBeforeReference
    BY <1>2, <1>6 DEF CallerInTurn, InTurn
  <2>2. SUFFICES ASSUME NEW a \in Authority
                 PROVE  /\ a \in todo'[c] => Components \subseteq todo'[c] /\ got'[c][a] = Absent
                        /\ got'[c][a] # Absent => got'[c][a] \in past[k] \cup {Old}
                        /\ got'[c][a] # Absent /\ got'[c][a] = held[a][k] =>
                             \A u \in Needed \ todo'[c] : got'[c][u] # Absent
    BY <1>2, <1>3 DEF Finds
  <2>3. /\ a \in todo[c] => Components \subseteq todo[c] /\ got[c][a] = Absent
        /\ got[c][a] # Absent => got[c][a] \in past[k] \cup {Old}
        /\ got[c][a] # Absent /\ got[c][a] = held[a][k] =>
             \A u \in Needed \ todo[c] : got[c][u] # Absent
    BY <1>2, <2>1 DEF Finds
  <2>4. a \in Target /\ Needed \subseteq Target /\ Components \subseteq Target
        /\ a \notin Needed
    BY RolesPartition, Disjoint DEF Needed
  <2>5. CASE t \in Authority
    <3>1. t = a
      BY <2>5, DeclarationAssumption DEF WellFormed
    <3>2. a \notin todo'[c]
      BY <1>5, <3>1 DEF Ends
    <3>3. got'[c][a] = held[a][k]
      BY <1>3, <1>4, <3>1
    <3>4. held[a][k] # Absent => held[a][k] \in past[k] \cup {Old}
      <4>1. /\ held[a][k] \in {last[k]} \cup FromFallback(k)
            /\ last[k] \in past[k]
        BY <1>3 DEF OnCourse, MediaOnCourse, AuthorityIsLastCommit
      <4>2. \A u \in Fallbacks : held[u][k] \in {Absent, Old}
        <5>1. \A u \in Fallbacks : held[u][k] \in Nat /\ held[u][k] <= Old
          BY <1>3, RolesPartition, BoundsAssumption DEF Told, ValuesApart, TypeOK, Val
        <5> QED
          BY <5>1 DEF Absent, Old
      <4> QED
        BY <4>1, <4>2 DEF FromFallback
    <3>5. held[a][k] # Absent => Components \subseteq todo'[c]
      BY <1>3, <1>5, <2>3, <2>4, <3>1, Disjoint
    <3> QED
      BY <3>2, <3>3, <3>4, <3>5 DEF Needed
  <2>6. CASE t \notin Authority
    <3>1. t # a /\ a \notin todo[c] /\ todo'[c] = todo[c] \ {t}
      BY <1>3, <1>5, <2>6
    <3>2. got'[c][a] = got[c][a]
      BY <1>4, <2>4, <3>1
    <3>3. held[a][k] # Absent => \A u \in Needed : held[u][k] # Absent
      BY <1>3, <2>1 DEF ReferentBeforeReference, Needed
    <3>4. ASSUME got[c][a] # Absent, got[c][a] = held[a][k], NEW u \in Needed \ todo'[c]
          PROVE  got'[c][u] # Absent
      BY <1>4, <2>3, <2>4, <3>1, <3>3, <3>4
    <3> QED
      BY <2>3, <3>1, <3>2, <3>4
  <2> QED
    BY <2>5, <2>6
<1>7. Refers(c)'
  <2>1. op'[c] \in {"idle", "assemble"}
    BY <1>1, FinishEnds, ContinueEither DEF Ends, GoesOn
  <2> QED
    BY <2>1 DEF Refers
<1>8. Reaches(c)'
  BY <1>2, ReachesOther
<1> QED
  BY <1>2, <1>6, <1>7, <1>8, StillReferent DEF MoverInTurn, InTurn

\* Components written, or written for some keys, take no referent away.
LEMMA PartsMayCome ==
    ASSUME TypeOK, Told, ReferentBeforeReference, NEW c \in Client, op[c] = "cond",
           NEW t \in Components, NEW S, Store(t, S, SlotValue(c, t))
    PROVE  /\ ReferentBeforeReference'
           /\ \A u \in Needed, k \in Key : held[u][k] # Absent => held'[u][k] # Absent
           /\ t \in Needed => \A k \in S \cap Key : held'[t][k] # Absent
<1>1. t \in Target /\ t \notin Authority /\ Needed \subseteq Target
  BY RolesPartition, Disjoint DEF Needed
<1>2. \A u \in Target, k \in Key :
        held'[u][k] = IF u = t /\ k \in S THEN SlotValue(c, t) ELSE held[u][k]
  BY <1>1, StoreDoes
<1>3. t \in Needed => SlotValue(c, t) # Absent
  BY <1>1 DEF SlotValue, Needed, Told, InPhase, CallerTold, Writes, Absent, Old
<1>4. \A a \in Authority, k \in Key : held'[a][k] = held[a][k]
  BY <1>1, <1>2, RolesPartition
<1>5. \A u \in Needed, k \in Key : held[u][k] # Absent => held'[u][k] # Absent
  BY <1>1, <1>2, <1>3
<1>6. ReferentBeforeReference'
  BY <1>4, <1>5 DEF ReferentBeforeReference, Needed
<1> QED
  BY <1>1, <1>2, <1>3, <1>5, <1>6

\* The authority takes only entries whose components are there: an insert came
\* after them, and a replaced entry had them.
LEMMA AuthorityMayRefer ==
    ASSUME TypeOK, ReferentBeforeReference, NEW c \in Client, op[c] = "cond", Refers(c),
           puts[c] \subseteq keys[c],
           NEW t \in First(todo[c], CommitRank) \cap Authority,
           NEW W \in SUBSET StillSeen(c, t), Apply(c, t, W)
    PROVE  ReferentBeforeReference'
<1>1. /\ t \in Target /\ t \notin Components /\ Needed \subseteq Target /\ Needed \subseteq Components
      /\ todo[c] \cap Components = {} /\ todo[c] \in SUBSET Target
  BY RolesPartition, Disjoint, CommitOrder DEF Needed, TypeOK
<1>2. \A u \in Target, k \in Key :
        held'[u][k] = IF u = t /\ k \in W
                      THEN IF k \in puts[c] THEN id[c] ELSE Absent
                      ELSE held[u][k]
  BY <1>1, ApplyDoes
<1>3. \A u \in Needed, k \in Key : held'[u][k] = held[u][k]
  BY <1>1, <1>2
<1>4. ASSUME NEW a \in Authority, NEW u \in Components \ Optional, NEW k \in Key,
             held'[a][k] # Absent
      PROVE  held[u][k] # Absent
  <2>1. CASE held[a][k] # Absent
    BY <1>4, <2>1 DEF ReferentBeforeReference
  <2>2. CASE held[a][k] = Absent
    <3>1. a = t /\ k \in W /\ k \in puts[c]
      BY <1>2, <1>4, <2>2, RolesPartition
    <3>2. seen[c][k] = Absent
      BY <2>2, <3>1 DEF StillSeen
    <3> QED
      BY <1>1, <1>4, <3>1, <3>2 DEF Refers, Needed
  <2> QED
    BY <2>1, <2>2
<1> QED
  BY <1>3, <1>4 DEF ReferentBeforeReference, Needed

\* A component of a conditional write.
LEMMA CondComponentInTurn ==
    ASSUME TypeOK, OnCourse, Told, InTurn, NEW c \in Client, CondComponent(c)
    PROVE  MoverInTurn(c)
<1>1. PICK t \in First(todo[c], CommitRank) \cap Components :
        /\ Store(t, Changed(c, t, puts[c]), SlotValue(c, t))
        /\ Continue(c, "cond", todo[c] \ {t})
  BY DEF CondComponent
<1>2. /\ Moved(c) /\ op[c] = "cond" /\ InPhase(c) /\ CallerInTurn(c)
      /\ keys[c] \in SUBSET Key /\ puts[c] \subseteq keys[c]
  BY CondComponentMoves DEF CondComponent, Told, InTurn, InPhase, TypeOK
<1>3. ASSUME Needed # {} PROVE ReferentBeforeReference' /\ Refers(c)'
  <2>1. Refers(c) /\ ReferentBeforeReference
    BY <1>2, <1>3 DEF CallerInTurn, InTurn
  <2>2. /\ ReferentBeforeReference'
        /\ \A u \in Needed, k \in Key : held[u][k] # Absent => held'[u][k] # Absent
        /\ t \in Needed => \A k \in Changed(c, t, puts[c]) \cap Key : held'[t][k] # Absent
    BY <1>1, <1>2, <2>1, PartsMayCome
  <2>3. CASE op'[c] = "idle"
    BY <2>2, <2>3 DEF Refers
  <2>4. CASE GoesOn(c, "cond", todo[c] \ {t})
    <3>1. /\ op'[c] = "cond" /\ todo'[c] = todo[c] \ {t}
          /\ puts'[c] = puts[c] /\ seen'[c] = seen[c]
      BY <2>4 DEF GoesOn
    <3>2. ASSUME NEW u \in Needed \ todo'[c], NEW k \in puts[c], seen[c][k] = Absent
          PROVE  held'[u][k] # Absent
      <4>1. CASE u = t
        BY <1>2, <2>2, <3>2, <4>1 DEF Changed
      <4>2. CASE u # t
        BY <1>2, <2>1, <2>2, <3>1, <3>2, <4>2 DEF Refers
      <4> QED
        BY <4>1, <4>2
    <3>3. Refers(c)'
      BY <3>1, <3>2 DEF Refers
    <3> QED
      BY <2>2, <3>3
  <2> QED
    BY <1>1, <2>3, <2>4, ContinueEither DEF Ends
<1> QED
  BY <1>2, <1>3, ReachesOther, FindsOther DEF MoverInTurn, Mutating, Busy

\* The authority's answer: what it refused to remove is not removed elsewhere.
LEMMA CondAuthorityInTurn ==
    ASSUME TypeOK, OnCourse, Told, InTurn, NEW c \in Client, CondAuthority(c)
    PROVE  MoverInTurn(c)
<1>1. PICK t \in First(todo[c], CommitRank) \cap Authority :
        /\ Apply(c, t, StillSeen(c, t))
        /\ won' = [won EXCEPT ![c] = StillSeen(c, t)]
        /\ AfterCommit(c, StillSeen(c, t))
  BY DEF CondAuthority
<1>2. /\ Moved(c) /\ op[c] = "cond" /\ CallerInTurn(c) /\ puts[c] \subseteq keys[c]
      /\ keys[c] \in SUBSET Key /\ t \in Target /\ won'[c] = StillSeen(c, t)
  <2>1. op[c] = "cond" /\ CallerInTurn(c) /\ puts[c] \subseteq keys[c]
    BY DEF CondAuthority, Told, InTurn, InPhase
  <2>2. keys[c] \in SUBSET Key /\ t \in Target /\ won'[c] = StillSeen(c, t)
    BY <1>1, RolesPartition DEF TypeOK
  <2> QED
    BY <2>1, <2>2, CondAuthorityMoves
<1>3. ASSUME Needed # {} PROVE ReferentBeforeReference' /\ Refers(c)'
  <2>1. Refers(c) /\ ReferentBeforeReference
    BY <1>2, <1>3 DEF CallerInTurn, InTurn
  <2>2. ReferentBeforeReference'
    BY <1>1, <1>2, <2>1, AuthorityMayRefer
  <2>3. \A a \in Authority, k \in StillSeen(c, t) \ puts[c] : held'[a][k] = Absent
    <3>1. \A a \in Authority : a = t
      BY DeclarationAssumption DEF WellFormed
    <3>2. StillSeen(c, t) \subseteq Key
      BY <1>2 DEF StillSeen
    <3> QED
      BY <1>1, <1>2, <3>1, <3>2, ApplyDoes
  <2>4. \/ Ends(c, "ok")
        \/ GoesOn(c, "condDelete", RemovedAfterCommit)
        \/ \E S \in SUBSET Dependents : GoesOn(c, "condSet", S)
    BY <1>1, AfterCommitEither
  <2>5. Refers(c)'
    BY <1>2, <2>3, <2>4 DEF Refers, Ends, GoesOn
  <2> QED
    BY <2>2, <2>5
<1> QED
  BY <1>2, <1>3, ReachesOther, FindsOther DEF MoverInTurn, Mutating, Busy

\* A conditional write that fails on or before its commit.
LEMMA CondFailsInTurn ==
    ASSUME TypeOK, OnCourse, Told, InTurn, NEW c \in Client, CondFails(c)
    PROVE  MoverInTurn(c)
<1>1. PICK t \in First(todo[c], CommitRank) :
        \/ /\ t \in Components
           /\ Raise(t, Changed(c, t, puts[c]), SlotValue(c, t))
        \/ /\ t \in Authority
           /\ \E W \in SUBSET StillSeen(c, t) : Apply(c, t, W)
  BY DEF CondFails
<1>2. /\ Moved(c) /\ op[c] = "cond" /\ CallerInTurn(c) /\ puts[c] \subseteq keys[c]
      /\ op'[c] = "idle"
  BY CondFailsMoves, FinishEnds DEF CondFails, Told, InTurn, InPhase, Ends
<1>3. ASSUME Needed # {} PROVE ReferentBeforeReference'
  <2>1. Refers(c) /\ ReferentBeforeReference
    BY <1>2, <1>3 DEF CallerInTurn, InTurn
  <2>2. CASE /\ t \in Components
             /\ Raise(t, Changed(c, t, puts[c]), SlotValue(c, t))
    <3>1. PICK S : Store(t, S, SlotValue(c, t))
      BY <2>2, RaiseDoes
    <3> QED
      BY <1>2, <2>1, <2>2, <3>1, PartsMayCome
  <2>3. CASE t \in Authority /\ \E W \in SUBSET StillSeen(c, t) : Apply(c, t, W)
    <3>1. PICK W \in SUBSET StillSeen(c, t) : Apply(c, t, W)
      BY <2>3
    <3>2. t \in First(todo[c], CommitRank) \cap Authority
      BY <2>3
    <3> QED
      BY <1>2, <2>1, <3>1, <3>2, AuthorityMayRefer
  <2> QED
    BY <1>1, <2>2, <2>3
<1>4. Refers(c)'
  BY <1>2 DEF Refers
<1> QED
  BY <1>2, <1>3, <1>4, ReachesOther, FindsOther DEF MoverInTurn, Mutating, Busy

\* A removal or a sync after a conditional commit: only entries the authority no
\* longer has lose their components, and only dependents are written.
LEMMA SyncInTurn ==
    ASSUME TypeOK, OnCourse, Told, InTurn, NEW c \in Client, Syncing(c)
    PROVE  MoverInTurn(c)
<1>1. /\ Moved(c) /\ op[c] \in {"condDelete", "condSet"} /\ InPhase(c) /\ CallerInTurn(c)
      /\ todo[c] \cap Authority = {} /\ todo[c] \in SUBSET Target
  BY SyncMoves
     DEF Syncing, CondDelete, CondSet, CondSyncFails, Told, InTurn, OnCourse,
         CallerOnCourse, TypeOK
<1>2. puts[c] \subseteq keys[c] /\ keys[c] \in SUBSET Key /\ won[c] \subseteq keys[c]
  BY <1>1 DEF InPhase, TypeOK
<1>3. PICK t, K, v :
        /\ t \in todo[c] /\ Store(t, K, v)
        /\ \/ op[c] = "condDelete" /\ K \subseteq won[c] \ puts[c] /\ v = Absent
           \/ op[c] = "condSet"
  <2>1. CASE CondDelete(c)
    BY <2>1, FirstIsIn DEF CondDelete
  <2>2. CASE CondSet(c)
    BY <2>2, FirstIsIn DEF CondSet
  <2>3. CASE /\ op[c] = "condDelete"
             /\ \E t \in First(todo[c], RemovalRank) : Raise(t, won[c] \ puts[c], Absent)
    BY <2>3, FirstIsIn, RaiseDoes
  <2>4. CASE /\ op[c] = "condSet"
             /\ \E t \in First(todo[c], CommitRank) :
                  Raise(t, Changed(c, t, won[c] \cap puts[c]), SlotValue(c, t))
    BY <2>4, FirstIsIn, RaiseDoes
  <2> QED
    BY <2>1, <2>2, <2>3, <2>4 DEF Syncing, CondSyncFails
<1>4. t \in Target /\ t \notin Authority
  BY <1>1, <1>3
<1>5. \A u \in Target, k \in Key :
        held'[u][k] = IF u = t /\ k \in K THEN v ELSE held[u][k]
  BY <1>3, <1>4, StoreDoes
<1>6. \A a \in Authority, k \in Key : held'[a][k] = held[a][k]
  BY <1>4, <1>5, RolesPartition
<1>7. ASSUME Needed # {} PROVE ReferentBeforeReference'
  <2>1. Refers(c) /\ ReferentBeforeReference
    BY <1>1, <1>7 DEF CallerInTurn, InTurn
  <2>2. SUFFICES ASSUME NEW a \in Authority, NEW u \in Components \ Optional, NEW k \in Key,
                        held[a][k] # Absent
                 PROVE  held'[u][k] # Absent
    BY <1>6 DEF ReferentBeforeReference
  <2>3. held[u][k] # Absent /\ u \in Target
    BY <2>1, <2>2, RolesPartition DEF ReferentBeforeReference
  <2>4. ~ (u = t /\ k \in K)
    <3>1. CASE op[c] = "condDelete"
      BY <1>3, <2>1, <2>2, <3>1 DEF Refers
    <3>2. CASE op[c] = "condSet"
      BY <1>1, <1>3, <2>2, <3>2, Disjoint DEF InPhase
    <3> QED
      BY <1>1, <3>1, <3>2
  <2> QED
    BY <1>5, <2>3, <2>4
<1>8. ASSUME Needed # {} PROVE Refers(c)'
  <2>1. Refers(c)
    BY <1>1, <1>8 DEF CallerInTurn
  <2>2. won' = won
    BY DEF Syncing, CondDelete, CondSet, CondSyncFails, call
  <2>3. \/ op'[c] \in {"idle", "condSet"}
        \/ op[c] = "condDelete" /\ op'[c] = "condDelete" /\ puts'[c] = puts[c]
    <3>1. \/ op[c] = "condDelete" /\ \E W : AfterCommit(c, W)
          \/ \E rest : Continue(c, op[c], rest)
          \/ \E rest, u : Settle(c, u, rest)
      <4>1. CASE CondDelete(c)
        BY <4>1 DEF CondDelete
      <4>2. CASE CondSet(c)
        BY <4>2 DEF CondSet
      <4>3. CASE CondSyncFails(c)
        BY <4>3 DEF CondSyncFails
      <4> QED
        BY <4>1, <4>2, <4>3 DEF Syncing
    <3>2. CASE \E W : AfterCommit(c, W) /\ op[c] = "condDelete"
      BY <3>2, AfterCommitEither DEF Ends, GoesOn
    <3>3. CASE \E rest : Continue(c, op[c], rest)
      BY <1>1, <3>3, ContinueEither DEF Ends, GoesOn
    <3>4. CASE \E rest, u : Settle(c, u, rest)
      BY <1>1, <3>4, SettleEither DEF Ends, GoesOn
    <3> QED
      BY <3>1, <3>2, <3>3, <3>4
  <2> QED
    BY <1>2, <1>6, <2>1, <2>2, <2>3 DEF Refers
<1> QED
  BY <1>1, <1>7, <1>8, ReachesOther, FindsOther DEF MoverInTurn, Mutating, Busy

\* Every step of a call keeps it in turn.
LEMMA MovingInTurn ==
    ASSUME TypeOK, OnCourse, Told, InTurn, NEW c \in Client, Moving(c)
    PROVE  MoverInTurn(c)
BY WriteInTurn, DeleteInTurn, QuietInTurn, ReadInTurn, AssembleInTurn,
   CondComponentInTurn, CondAuthorityInTurn, CondFailsInTurn, SyncInTurn
   DEF Moving, Syncing

\* Every step keeps the callers in turn.
LEMMA NextInTurn ==
    TypeOK /\ OnCourse /\ Told /\ InTurn /\ Exclusive /\ [Next]_vars => InTurn'
<1> SUFFICES ASSUME TypeOK, OnCourse, Told, InTurn, Exclusive, [Next]_vars PROVE InTurn'
  OBVIOUS
<1>1. CASE UNCHANGED vars
  <2>1. /\ held' = held /\ op' = op /\ did' = did /\ keys' = keys /\ id' = id /\ slot' = slot
        /\ won' = won /\ todo' = todo /\ puts' = puts /\ seen' = seen /\ got' = got
        /\ out' = out /\ past' = past /\ owner' = owner
    BY <1>1 DEF vars, call, history
  <2>2. \A c \in Client : CallerInTurn(c)'
    BY <2>1 DEF InTurn, CallerInTurn, Owns, Reaches, Refers, Finds, SlotValue
  <2> QED
    BY <2>1, <2>2, StillReferent DEF InTurn
<1>2. ASSUME NEW c \in Client, Start(c) PROVE InTurn'
  BY <1>2, StartInTurn
<1>3. ASSUME NEW c \in Client, Moving(c) PROVE InTurn'
  BY <1>3, MovingMoves, MovingInTurn, MovedInTurn
<1>4. ASSUME NEW c \in Client, NEW P \in SUBSET keys[c], NEW R \in SUBSET keys[c],
             Decide(c, P, R)
      PROVE  InTurn'
  BY <1>4, DecideInTurn
<1> QED
  BY <1>1, <1>2, <1>3, <1>4 DEF Next, Step, CondTarget, LookUp, Moving

\* The third inductive invariant: while callers take turns to change a key, what a
\* call wrote, found or removed there stays so until the call is done with it.
THEOREM StaysInTurn == Exclusive /\ Spec => []InTurn
<1>1. Init => InTurn
  <2> SUFFICES ASSUME Init PROVE InTurn
    OBVIOUS
  <2>1. /\ \A c \in Client : op[c] = "idle" /\ keys[c] = {} /\ out[c] = "none"
        /\ \A t \in Target \ Fallbacks : \A k \in Key : held[t][k] = Absent
    BY DEF Init
  <2>2. ReferentBeforeReference
    BY <2>1, RolesPartition, Disjoint DEF ReferentBeforeReference
  <2>3. \A c \in Client : CallerInTurn(c)
    BY <2>1 DEF CallerInTurn, Owns, Reaches, Refers, Finds, Mutating, Busy
  <2> QED
    BY <2>2, <2>3 DEF InTurn
<1>2. Exclusive \in BOOLEAN
  BY BoundsAssumption
<1>3. CASE Exclusive
  BY <1>1, <1>3, NextInTurn, StaysTold, StaysOnCourse, TypeCorrect, PTL DEF Spec
<1> QED
  BY <1>2, <1>3

\* Law 2, for every declaration and any number of callers that take turns to
\* change a key: whatever step a writer crashed at or a medium failed at, even
\* half done, an entry of the authority has every component it refers to.
THEOREM EveryReferenceHasItsReferent == Exclusive /\ Spec => []ReferentBeforeReference
<1>1. InTurn => ReferentBeforeReference
  BY DEF InTurn, Needed, ReferentBeforeReference
<1> QED
  BY <1>1, StaysInTurn, PTL

\* Law 6: a set that returned left its value in every target that must have it,
\* and no read's fill and no other caller has undone it since.
THEOREM SetsReachEveryTarget == Exclusive /\ Spec => []SetReachesEveryTarget
<1>1. Told /\ InTurn => SetReachesEveryTarget
  <2> SUFFICES ASSUME Told, InTurn, NEW c \in Client, NEW k \in Key, Settled(c, k, "write"),
                      NEW t \in Written \ (Dependents \ Required)
               PROVE  held[t][k] = SlotValue(c, t)
    BY DEF SetReachesEveryTarget
  <2>1. Reaches(c) /\ InPhase(c)
    BY DEF Told, InTurn, CallerInTurn
  <2>2. /\ op[c] = "idle" /\ out[c] = "ok" /\ did[c] = "write" /\ k \in keys[c]
        /\ owner[k] = c
    BY DEF Settled
  <2>3. todo[c] = {}
    BY <2>1, <2>2 DEF InPhase
  <2> QED
    BY <2>1, <2>2, <2>3 DEF Reaches, MustHave
<1> QED
  BY <1>1, StaysInTurn, StaysTold, PTL

\* Law 6 for a delete: one that returned left nothing in any target reads do not
\* fill, and nothing has come back there since.
THEOREM DeletesReachEveryTarget == Exclusive /\ Spec => []DeleteReachesEveryTarget
<1>1. Told /\ InTurn => DeleteReachesEveryTarget
  <2> SUFFICES ASSUME Told, InTurn, NEW c \in Client, NEW k \in Key, Settled(c, k, "delete"),
                      NEW t \in Written \ ((Dependents \ Required) \cup Fill)
               PROVE  held[t][k] = Absent
    BY DEF DeleteReachesEveryTarget
  <2>1. Reaches(c) /\ InPhase(c)
    BY DEF Told, InTurn, CallerInTurn
  <2>2. /\ op[c] = "idle" /\ out[c] = "ok" /\ did[c] = "delete" /\ k \in keys[c]
        /\ owner[k] = c
    BY DEF Settled
  <2>3. todo[c] = {}
    BY <2>1, <2>2 DEF InPhase
  <2> QED
    BY <2>1, <2>2, <2>3 DEF Reaches, MustHave
<1> QED
  BY <1>1, StaysInTurn, StaysTold, PTL

\* Law 2 for a reader of a zip: a read that found the authority's entry found
\* every component it refers to, if that entry is still the one there when it
\* returns -- however its reads of the parts and a writer's steps interleaved.
THEOREM ReadersFindParts == Exclusive /\ Spec => []ReaderFindsParts
<1>1. Told /\ InTurn => ReaderFindsParts
  <2> SUFFICES ASSUME Told, InTurn, NEW c \in Client, NEW a \in Authority,
                      NEW k \in keys[c], op[c] = "idle", did[c] = "get", out[c] = "ok",
                      got[c][a] # Absent, got[c][a] = held[a][k],
                      NEW t \in Components \ Optional
               PROVE  got[c][t] # Absent
    BY DEF ReaderFindsParts
  <2>1. Finds(c) /\ InPhase(c)
    BY DEF Told, InTurn, CallerInTurn, Needed
  <2>2. todo[c] = {}
    BY <2>1 DEF InPhase
  <2> QED
    BY <2>1, <2>2 DEF Finds, Needed
<1> QED
  BY <1>1, StaysInTurn, StaysTold, PTL

\* Law 2, all of it: what a row refers to is there, for the media and for
\* whoever reads the record part by part.
THEOREM ReferentsAreThere == Exclusive /\ Spec => []ReferentIsThere
<1>1. ReferentBeforeReference /\ ReaderFindsParts => ReferentIsThere
  BY DEF ReferentIsThere
<1> QED
  BY <1>1, EveryReferenceHasItsReferent, ReadersFindParts, PTL

\* Law 6 for sets and deletes: what a call that returned set or deleted, it set or
\* deleted everywhere, whatever failed that it tolerates.
THEOREM CallsReachAll == Exclusive /\ Spec => []ReachesAll
<1>1. SetReachesEveryTarget /\ DeleteReachesEveryTarget => ReachesAll
  BY DEF ReachesAll
<1> QED
  BY <1>1, SetsReachEveryTarget, DeletesReachEveryTarget, PTL
=============================================================================
