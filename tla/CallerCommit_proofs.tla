------------------------ MODULE CallerCommit_proofs ------------------------
(***************************************************************************)
(* Theorems about CallerCommit, for every declaration of a record, every   *)
(* choice of the targets that join the caller's transaction, every set of  *)
(* keys and every bound.                                                   *)
(***************************************************************************)
EXTENDS CallerCommit, SequenceTheorems, TLAPS

-----------------------------------------------------------------------------
(***************************************************************************)
(* The declaration: roles, and which target a traversal visits first.      *)
(***************************************************************************)

\* The targets visited next are among those left to visit.
LEMMA FirstIsIn == ASSUME NEW S, NEW rank PROVE First(S, rank) \subseteq S
BY DEF First

\* A target has one role, and there is at most one authority.
LEMMA RolesPartition ==
    /\ Written \subseteq Target /\ Dependents \subseteq Target
    /\ Authority \subseteq Committing /\ Components \subseteq Committing
    /\ RemovedNow \subseteq Committing /\ Committing \subseteq Written
    /\ Authority \subseteq RemovedNow
    /\ RemovedAfterCommit \subseteq Written
    /\ Dependents \cap Committing = {} /\ Authority \cap Components = {}
    /\ \A s, t \in Authority : s = t
BY DeclarationAssumption
   DEF WellFormed, Authority, Components, Dependents, ByRole, Committing, Written,
       RemovedNow, RemovedAfterCommit

\* A write comes to a dependent only when all it commits to has been written.
LEMMA DerivesLast ==
    ASSUME NEW S \in SUBSET Target, NEW t \in First(S, CommitRank), t \notin Committing
    PROVE  S \cap Committing = {}
<1> SUFFICES ASSUME NEW u \in S \cap Committing PROVE FALSE
  OBVIOUS
<1>1. CommitRank[t] = 2 /\ CommitRank[u] \in {0, 1}
  BY DEF First, CommitRank, Committing, Components, Authority, ByRole
<1>2. CommitRank[t] <= CommitRank[u]
  BY <1>1 DEF First
<1> QED
  BY <1>1, <1>2

\* A write comes to the authority only when the components have been written.
LEMMA AuthorityAfterComponents ==
    ASSUME NEW S \in SUBSET Target, NEW t \in First(S, CommitRank), t \in Authority
    PROVE  S \cap Components = {}
<1> SUFFICES ASSUME NEW u \in S \cap Components PROVE FALSE
  OBVIOUS
<1>1. CommitRank[t] = 1 /\ CommitRank[u] = 0
  BY DEF First, CommitRank, Components, Authority, ByRole
<1>2. CommitRank[t] <= CommitRank[u]
  BY <1>1 DEF First
<1> QED
  BY <1>1, <1>2

\* A delete comes to the rest only when what it removes on the spot is gone.
LEMMA RemovesNowFirst ==
    ASSUME NEW S \in SUBSET Target, NEW t \in First(S, RemovalRank), t \notin RemovedNow
    PROVE  S \cap RemovedNow = {}
<1> SUFFICES ASSUME NEW u \in S \cap RemovedNow PROVE FALSE
  OBVIOUS
<1>1. CASE Authority = {}
  <2>1. RemovalRank[t] = 2 /\ RemovalRank[u] = 1
    BY <1>1 DEF First, RemovalRank, RemovedNow, Components, Authority, ByRole
  <2> QED
    BY <2>1 DEF First
<1>2. CASE Authority # {}
  <2>1. RemovalRank[t] \in {1, 2} /\ RemovalRank[u] = 0
    BY <1>2 DEF First, RemovalRank, RemovedNow, Authority, ByRole
  <2> QED
    BY <2>1 DEF First
<1> QED
  BY <1>1, <1>2

-----------------------------------------------------------------------------
(***************************************************************************)
(* Types.                                                                  *)
(***************************************************************************)

\* No value is a value.
LEMMA AbsentIsVal == Absent \in Val
BY CommitAssumption DEF Absent, Val

\* A call to a target keeps the media and the history well typed.
LEMMA PutTypeOK ==
    ASSUME TypeOK, NEW t \in Target, NEW v \in Val, Put(t, v)
    PROVE  /\ disk' \in [Target -> [Key -> Val]]
           /\ work' \in [Target -> [Key -> Val]]
           /\ wrote' \in [Key -> SUBSET Val]
BY DEF TypeOK, Put

\* So does what is run now or queued after the commit point.
LEMMA SyncTypeOK ==
    ASSUME TypeOK, NEW t \in Target, NEW v \in Val, SyncOne(t, v)
    PROVE  /\ disk' \in [Target -> [Key -> Val]]
           /\ work' \in [Target -> [Key -> Val]]
           /\ wrote' \in [Key -> SUBSET Val]
           /\ queue' \in Seq(Queued)
<1>1. CASE t \in Deferred
  BY <1>1, PutTypeOK DEF SyncOne, TypeOK
<1>2. CASE t \notin Deferred
  <2>1. [target |-> t, key |-> key, value |-> v] \in Queued
    BY DEF TypeOK, Queued
  <2>2. queue' \in Seq(Queued)
    BY <1>2, <2>1, AppendProperties DEF SyncOne, TypeOK
  <2> QED
    BY <1>2, <2>2 DEF SyncOne, TypeOK
<1> QED
  BY <1>1, <1>2

\* A traversal that goes on, or ends, keeps the types.
LEMMA ContinueTypeOK ==
    ASSUME TypeOK, NEW rest \in SUBSET Target, Continue(rest)
    PROVE  op' \in Phases /\ todo' \in SUBSET Target
BY DEF TypeOK, Continue, Phases

\* The head of the queue is its first item, and the rest is a queue, one shorter.
LEMMA QueueTypeOK ==
    ASSUME TypeOK, queue # <<>>
    PROVE  /\ FlushItem \in Queued /\ FlushItem = queue[1]
           /\ Tail(queue) \in Seq(Queued)
           /\ Len(queue) \in Nat \ {0} /\ Len(Tail(queue)) = Len(queue) - 1
           /\ \A i \in 1..(Len(queue) - 1) : Tail(queue)[i] = queue[i + 1]
<1>1. queue \in Seq(Queued)
  BY DEF TypeOK
<1>2. Len(queue) \in Nat \ {0}
  BY <1>1
<1> QED
  BY <1>1, <1>2, HeadTailProperties DEF FlushItem

\* What is queued is for a target, of a key, with a value.
LEMMA QueueTypes == ASSUME TypeOK PROVE \A i \in 1..Len(queue) : queue[i] \in Queued
BY DEF TypeOK

\* A flush is under way only while something is queued.
FlushHasWork == op = "flush" => queue # <<>>

\* Every step keeps the types, and a flush ends with the queue.
LEMMA NextTypeOK == TypeOK /\ FlushHasWork /\ [Next]_vars => TypeOK' /\ FlushHasWork'
<1> SUFFICES ASSUME TypeOK, FlushHasWork, [Next]_vars PROVE TypeOK' /\ FlushHasWork'
  OBVIOUS
<1> USE AbsentIsVal
<1>0. /\ Written \in SUBSET Target /\ RemovedNow \cup RemovedAfterCommit \in SUBSET Target
      /\ \A rank : First(todo, rank) \subseteq Target
  BY RolesPartition, FirstIsIn DEF TypeOK
<1>1. ASSUME NEW k \in Key, StartWrite(k) \/ StartInsert(k) PROVE TypeOK' /\ FlushHasWork'
  <2>1. id' \in Val /\ nextId' \in Nat
    BY <1>1, CommitAssumption DEF StartWrite, StartInsert, NewValue, TypeOK, Val
  <2> QED
    BY <1>0, <1>1, <2>1 DEF StartWrite, StartInsert, Begin, TypeOK, Phases, FlushHasWork
<1>2. ASSUME NEW k \in Key, StartDelete(k) PROVE TypeOK' /\ FlushHasWork'
  BY <1>0, <1>2 DEF StartDelete, Begin, TypeOK, Phases, FlushHasWork
<1>3. CASE WriteTarget
  <2>1. PICK t \in First(todo, CommitRank) :
          IF op = "insert" /\ t \in Authority /\ work[t][key] # Absent
          THEN Continue({}) /\ UNCHANGED <<disk, work, queue, wrote>>
          ELSE /\ Continue(todo \ {t})
               /\ IF t \in Committing THEN Put(t, id) /\ UNCHANGED queue ELSE SyncOne(t, id)
    BY <1>3 DEF WriteTarget
  <2>2. t \in Target /\ id \in Val /\ todo \ {t} \in SUBSET Target
    BY <1>0 DEF TypeOK
  <2>3. op' \in Phases /\ todo' \in SUBSET Target /\ op' # "flush"
    BY <1>3, <2>1, <2>2, ContinueTypeOK DEF Continue, WriteTarget
  <2>4. /\ disk' \in [Target -> [Key -> Val]] /\ work' \in [Target -> [Key -> Val]]
        /\ wrote' \in [Key -> SUBSET Val] /\ queue' \in Seq(Queued)
    BY <2>1, <2>2, PutTypeOK, SyncTypeOK DEF TypeOK
  <2> QED
    BY <1>3, <2>3, <2>4 DEF WriteTarget, TypeOK, FlushHasWork, call, txn
<1>4. CASE DeleteTarget
  <2>1. PICK t \in First(todo, RemovalRank) :
          /\ Continue(todo \ {t})
          /\ IF t \in RemovedNow THEN Put(t, Absent) /\ UNCHANGED queue ELSE SyncOne(t, Absent)
    BY <1>4 DEF DeleteTarget
  <2>2. t \in Target /\ todo \ {t} \in SUBSET Target
    BY <1>0 DEF TypeOK
  <2>3. op' \in Phases /\ todo' \in SUBSET Target /\ op' # "flush"
    BY <1>4, <2>1, <2>2, ContinueTypeOK DEF Continue, DeleteTarget
  <2>4. /\ disk' \in [Target -> [Key -> Val]] /\ work' \in [Target -> [Key -> Val]]
        /\ wrote' \in [Key -> SUBSET Val] /\ queue' \in Seq(Queued)
    BY <2>1, <2>2, PutTypeOK, SyncTypeOK DEF TypeOK
  <2> QED
    BY <1>4, <2>3, <2>4 DEF DeleteTarget, TypeOK, FlushHasWork, call, txn
<1>5. CASE CallFails
  <2>1. PICK t \in Target :
          /\ \/ UNCHANGED <<disk, work, wrote>>
             \/ Put(t, IF op = "delete" THEN Absent ELSE id)
          /\ IF t \in Dependents \ Required THEN Continue(todo \ {t})
             ELSE op' = "failed" /\ todo' = {}
    BY <1>0, <1>5 DEF CallFails
  <2>2. (IF op = "delete" THEN Absent ELSE id) \in Val /\ todo \ {t} \in SUBSET Target
    BY DEF TypeOK
  <2>3. op' \in Phases /\ todo' \in SUBSET Target /\ op' # "flush"
    BY <1>5, <2>1, <2>2, ContinueTypeOK DEF Continue, CallFails, Phases
  <2>4. /\ disk' \in [Target -> [Key -> Val]] /\ work' \in [Target -> [Key -> Val]]
        /\ wrote' \in [Key -> SUBSET Val]
    BY <2>1, <2>2, PutTypeOK DEF TypeOK
  <2> QED
    BY <1>5, <2>3, <2>4 DEF CallFails, TypeOK, FlushHasWork, call, txn
<1>6. CASE Commit
  BY <1>6 DEF Commit, TypeOK, FlushHasWork, Phases, call
<1>7. CASE Rollback
  BY <1>7 DEF Rollback, Discarded, TypeOK, FlushHasWork, Phases, call
<1>8. CASE Flush \/ FlushFails
  <2>1. queue # <<>> /\ FlushItem \in Queued /\ Tail(queue) \in Seq(Queued)
    BY <1>8, QueueTypeOK DEF Flush, FlushFails, FlushHasWork
  <2>2. queue' = Tail(queue) /\ op' = IF Len(queue) = 1 THEN "idle" ELSE "flush"
    BY <1>8 DEF Flush, FlushFails, Flushed
  <2>a. FlushHasWork'
    <3>1. Len(queue) \in Nat \ {0} /\ Len(queue') = Len(queue) - 1
      BY <2>1, <2>2, QueueTypeOK
    <3>2. queue' = <<>> => Len(queue') = 0
      OBVIOUS
    <3> QED
      BY <2>2, <3>1, <3>2 DEF FlushHasWork
  <2>b. queue' \in Seq(Queued) /\ op' \in Phases
    BY <2>1, <2>2 DEF Phases
  <2>3. CASE Flush
    BY <2>1, <2>a, <2>b, <2>3 DEF Flush, TypeOK, Queued, call, txn
  <2>4. CASE FlushFails
    BY <2>1, <2>a, <2>b, <2>4 DEF FlushFails, TypeOK, Queued, call, txn
  <2> QED
    BY <1>8, <2>3, <2>4
<1>9. CASE Crash
  <2>1. \A i \in 1..Len(queue) : queue[i] \in Queued
    BY DEF TypeOK
  <2>2. missed' \in SUBSET (Target \X Key)
    BY <1>9, <2>1 DEF Crash, TypeOK, Queued
  <2> QED
    BY <1>9, <2>2 DEF Crash, TypeOK, FlushHasWork, Phases, call
<1>10. CASE UNCHANGED vars
  BY <1>10 DEF vars, call, txn, TypeOK, FlushHasWork
<1> QED
  BY <1>1, <1>2, <1>3, <1>4, <1>5, <1>6, <1>7, <1>8, <1>9, <1>10 DEF Next

\* The types of CallerCommit, of every behaviour.
THEOREM TypeCorrect == Spec => []TypeOK
<1>1. Init => TypeOK /\ FlushHasWork
  BY AbsentIsVal, CommitAssumption DEF Init, TypeOK, Nothing, Phases, FlushHasWork
<1> QED
  BY <1>1, NextTypeOK, PTL DEF Spec

-----------------------------------------------------------------------------
(***************************************************************************)
(* The steps of an operation, whichever it is: the target it has come to,  *)
(* and what becomes of it.                                                 *)
(***************************************************************************)
Busy == {"write", "insert", "delete"}
Value == IF op = "delete" THEN Absent ELSE id

Refuses(t) ==
    /\ op = "insert" /\ t \in Authority
    /\ op' = "idle" /\ todo' = {} /\ UNCHANGED <<disk, work, queue, wrote>>
PutsNow(t) ==
    /\ t \in Deferred \/ (IF op = "delete" THEN t \in RemovedNow ELSE t \in Committing)
    /\ Put(t, Value) /\ UNCHANGED queue
    /\ Continue(todo \ {t}) \/ (op' = "failed" /\ todo' = {})
Queues(t) ==
    /\ t \notin Deferred
    /\ IF op = "delete" THEN t \notin RemovedNow ELSE t \notin Committing
    /\ queue' = Append(queue, [target |-> t, key |-> key, value |-> Value])
    /\ Continue(todo \ {t}) /\ UNCHANGED <<disk, work, wrote>>
GivesUp(t) ==
    /\ \/ op' = "failed" /\ todo' = {}
       \/ t \in (Dependents \cap Deferred) \ Required /\ Continue(todo \ {t})
    /\ UNCHANGED <<disk, work, queue, wrote>>

\* What has been visited by the time a traversal comes to t.
InOrder(t) ==
    /\ op # "delete" => /\ t \notin Committing => todo \cap Committing = {}
                        /\ t \in Authority => todo \cap Components = {}
    /\ op = "delete" => (t \notin RemovedNow => todo \cap RemovedNow = {})

TargetStep(t) ==
    /\ t \in todo /\ op \in Busy /\ InOrder(t)
    /\ UNCHANGED <<key, id, touched, count, redone, nextId, committed, missed>>
    /\ Refuses(t) \/ PutsNow(t) \/ Queues(t) \/ GivesUp(t)

\* The three actions on a target are such steps.
LEMMA TargetSteps ==
    ASSUME TypeOK, WriteTarget \/ DeleteTarget \/ CallFails
    PROVE  \E t \in Target : TargetStep(t)
<1>1. CASE WriteTarget
  <2>1. PICK t \in First(todo, CommitRank) :
          IF op = "insert" /\ t \in Authority /\ work[t][key] # Absent
          THEN Continue({}) /\ UNCHANGED <<disk, work, queue, wrote>>
          ELSE /\ Continue(todo \ {t})
               /\ IF t \in Committing THEN Put(t, id) /\ UNCHANGED queue ELSE SyncOne(t, id)
    BY <1>1 DEF WriteTarget
  <2>2. t \in todo /\ t \in Target /\ op \in {"write", "insert"} /\ Value = id
    BY <1>1, <2>1, FirstIsIn DEF TypeOK, WriteTarget, Value
  <2>3. InOrder(t)
    BY <2>2, DerivesLast, AuthorityAfterComponents DEF InOrder, TypeOK
  <2>4. Refuses(t) \/ PutsNow(t) \/ Queues(t)
    BY <2>1, <2>2 DEF Refuses, PutsNow, Queues, Continue, SyncOne
  <2> QED
    BY <1>1, <2>2, <2>3, <2>4 DEF TargetStep, WriteTarget, call, txn, Busy
<1>2. CASE DeleteTarget
  <2>1. PICK t \in First(todo, RemovalRank) :
          /\ Continue(todo \ {t})
          /\ IF t \in RemovedNow THEN Put(t, Absent) /\ UNCHANGED queue ELSE SyncOne(t, Absent)
    BY <1>2 DEF DeleteTarget
  <2>2. t \in todo /\ t \in Target /\ op = "delete" /\ Value = Absent
    BY <1>2, <2>1, FirstIsIn DEF TypeOK, DeleteTarget, Value
  <2>3. InOrder(t)
    BY <2>2, RemovesNowFirst DEF InOrder, TypeOK
  <2>4. PutsNow(t) \/ Queues(t)
    BY <2>1, <2>2 DEF PutsNow, Queues, SyncOne
  <2> QED
    BY <1>2, <2>2, <2>3, <2>4 DEF TargetStep, DeleteTarget, call, txn, Busy
<1>3. CASE CallFails
  <2>1. PICK t \in First(todo, IF op = "delete" THEN RemovalRank ELSE CommitRank) :
          /\ t \in Deferred \cup (IF op = "delete" THEN RemovedNow ELSE Committing)
          /\ \/ UNCHANGED <<disk, work, wrote>>
             \/ Put(t, IF op = "delete" THEN Absent ELSE id)
          /\ IF t \in Dependents \ Required THEN Continue(todo \ {t})
             ELSE op' = "failed" /\ todo' = {}
    BY <1>3 DEF CallFails
  <2>2. t \in todo /\ t \in Target /\ op \in Busy
    BY <1>3, <2>1, FirstIsIn DEF TypeOK, CallFails, Busy
  <2>3. InOrder(t)
    BY <2>2, RemovesNowFirst, DerivesLast, AuthorityAfterComponents DEF InOrder, TypeOK
  <2>4. t \in Dependents => t \in Deferred
    BY <2>1, RolesPartition
  <2>5. PutsNow(t) \/ GivesUp(t)
    BY <1>3, <2>1, <2>4 DEF PutsNow, GivesUp, CallFails, Value
  <2> QED
    BY <1>3, <2>2, <2>3, <2>5 DEF TargetStep, CallFails, call, txn
<1> QED
  BY <1>1, <1>2, <1>3

\* What a call leaves in each place, and in the history of the record.
LEMMA PutEffect ==
    ASSUME TypeOK, NEW t \in Target, NEW v, Put(t, v)
    PROVE  /\ \A u \in Target, k \in Key :
                /\ work'[u][k] = IF u = t /\ k = key THEN v ELSE work[u][k]
                /\ disk'[u][k] = IF u = t /\ k = key /\ t \notin Deferred THEN v ELSE disk[u][k]
           /\ \A k \in Key : wrote'[k] = IF t \in RemovedNow /\ k = key
                                         THEN wrote[k] \cup {v} ELSE wrote[k]
BY DEF Put, TypeOK

\* What queueing a sync leaves in the queue.
LEMMA QueuesEffect ==
    ASSUME TypeOK, NEW t \in Target, Queues(t)
    PROVE  /\ Len(queue) \in Nat /\ Len(queue') = Len(queue) + 1
           /\ \A i \in 1..Len(queue') :
                \/ i \in 1..Len(queue) /\ queue'[i] = queue[i]
                \/ /\ i = Len(queue')
                   /\ queue'[i] = [target |-> t, key |-> key, value |-> Value]
           /\ \A i \in 1..Len(queue) : i \in 1..Len(queue') /\ queue'[i] = queue[i]
<1>1. [target |-> t, key |-> key, value |-> Value] \in Queued
  BY AbsentIsVal DEF TypeOK, Queued, Value
<1>2. queue \in Seq(Queued) /\ Len(queue) \in Nat
  BY DEF TypeOK
<1>3. /\ Len(queue') = Len(queue) + 1
      /\ \A i \in 1..Len(queue) : queue'[i] = queue[i]
      /\ queue'[Len(queue) + 1] = [target |-> t, key |-> key, value |-> Value]
  BY <1>1, <1>2, AppendProperties DEF Queues
<1> QED
  BY <1>2, <1>3

\* What taking the first sync leaves in the queue.
LEMMA FlushedEffect ==
    ASSUME TypeOK, FlushHasWork, Flush \/ FlushFails
    PROVE  /\ Len(queue) \in Nat \ {0} /\ Len(queue') = Len(queue) - 1
           /\ \A i \in 1..Len(queue') : queue'[i] = queue[i + 1]
           /\ FlushItem \in Queued /\ FlushItem = queue[1]
           /\ op = "flush" /\ op' \in {"idle", "flush"}
<1>1. queue # <<>> /\ queue' = Tail(queue) /\ op = "flush" /\ op' \in {"idle", "flush"}
  BY DEF Flush, FlushFails, Flushed, FlushHasWork
<1> QED
  BY <1>1, QueueTypeOK

(***************************************************************************)
(* The course of an operation and of a commit.                             *)
(***************************************************************************)

\* A write gives a new value, comes to the components before the authority and
\* to the dependents last; so does a delete, whatever else it visits.
InCourse ==
    /\ op \in {"write", "insert"} =>
         /\ id # Absent
         /\ todo \cap Components # {} => Authority \subseteq todo
    /\ op \in Busy => /\ Authority \cap todo # {} => Dependents \subseteq todo
                      /\ key \in touched /\ todo \subseteq Written
    /\ nextId # 0

\* Only what joins the transaction differs from what is durable, and nothing
\* does while the queue is flushed; what waits is for a target that does not join.
InPlace ==
    /\ \A t \in Target \ Deferred : work[t] = disk[t]
    /\ op = "flush" => work = disk /\ \A k \in Key : wrote[k] = {}
    /\ \A i \in 1..Len(queue) : queue[i].target \in Written \ Deferred

Course == TypeOK /\ FlushHasWork /\ InCourse /\ InPlace

\* Operations start, and visit their targets, in that course.
LEMMA NextInCourse == ASSUME Course, [Next]_vars PROVE InCourse'
<1> USE DEF Course
<1>1. ASSUME NEW k \in Key, StartWrite(k) \/ StartInsert(k) PROVE InCourse'
  <2>1. id' = nextId /\ nextId' = nextId + 1 /\ nextId \in Nat
    BY <1>1 DEF StartWrite, StartInsert, NewValue, TypeOK
  <2>2. /\ op' \in {"write", "insert"} /\ todo' = Written /\ key' \in touched'
        /\ Authority \subseteq Written /\ Dependents \subseteq Written
    BY <1>1, RolesPartition DEF StartWrite, StartInsert, Begin, Written
  <2> QED
    BY <2>1, <2>2 DEF InCourse, Absent
<1>2. ASSUME NEW k \in Key, StartDelete(k) PROVE InCourse'
  <2>1. /\ op' = "delete" /\ Dependents \subseteq todo' /\ todo' \subseteq Written
        /\ key' \in touched' /\ nextId' = nextId
    BY <1>2, RolesPartition DEF StartDelete, Begin, RemovedAfterCommit
  <2> QED
    BY <2>1 DEF InCourse, Busy
<1>3. ASSUME NEW t \in Target, TargetStep(t) PROVE InCourse'
  <2>1. \/ op' = op /\ op \in Busy /\ todo' = todo \ {t}
        \/ op' \notin Busy
    BY <1>3 DEF TargetStep, Refuses, PutsNow, Queues, GivesUp, Continue, Busy
  <2>2. CASE op' \notin Busy
    BY <1>3, <2>2 DEF InCourse, TargetStep, Busy
  <2>3. CASE op' = op /\ op \in Busy /\ todo' = todo \ {t}
    <3>1. op # "delete" /\ todo' \cap Components # {} => Authority \subseteq todo'
      BY <1>3, <2>3 DEF TargetStep, InOrder, InCourse, Busy
    <3>2. Authority \cap todo' # {} => Dependents \subseteq todo'
      BY <1>3, <2>3, RolesPartition DEF TargetStep, InOrder, InCourse
    <3> QED
      BY <1>3, <2>3, <3>1, <3>2 DEF TargetStep, InCourse
  <2> QED
    BY <2>1, <2>2, <2>3
<1>4. CASE Commit \/ Rollback \/ Crash
  BY <1>4 DEF Commit, Rollback, Crash, InCourse, Busy, call
<1>5. CASE Flush \/ FlushFails
  BY <1>5, FlushedEffect DEF Flush, FlushFails, InCourse, Busy, call, txn
<1>6. CASE UNCHANGED vars
  BY <1>6 DEF vars, call, txn, InCourse
<1> QED
  BY <1>1, <1>2, <1>3, <1>4, <1>5, <1>6, TargetSteps DEF Next

\* Every step leaves what is durable at once the same in and out of the transaction.
LEMMA NextInPlace == ASSUME Course, [Next]_vars PROVE InPlace'
<1> USE DEF Course
<1>1. ASSUME NEW k \in Key, StartWrite(k) \/ StartInsert(k) \/ StartDelete(k) PROVE InPlace'
  BY <1>1 DEF StartWrite, StartInsert, StartDelete, Begin, InPlace
<1>2. ASSUME NEW t \in Target, TargetStep(t) PROVE InPlace'
  <2>1. op' # "flush"
    BY <1>2 DEF TargetStep, Refuses, PutsNow, Queues, GivesUp, Continue, Busy
  <2>2. CASE Refuses(t) \/ GivesUp(t)
    BY <2>1, <2>2 DEF InPlace, Refuses, GivesUp
  <2>3. CASE PutsNow(t)
    <3>1. \A u \in Target \ Deferred : work'[u] = disk'[u]
      BY <2>3 DEF PutsNow, Put, InPlace, TypeOK
    <3> QED
      BY <2>1, <2>3, <3>1 DEF PutsNow, InPlace
  <2>4. CASE Queues(t)
    <3>1. t \in Written \ Deferred
      BY <1>2, <2>4 DEF TargetStep, Queues, InCourse
    <3>2. \A i \in 1..Len(queue') : queue'[i].target \in Written \ Deferred
      <4> SUFFICES ASSUME NEW i \in 1..Len(queue')
                   PROVE  queue'[i].target \in Written \ Deferred
        OBVIOUS
      <4>1. \/ i \in 1..Len(queue) /\ queue'[i] = queue[i]
            \/ queue'[i] = [target |-> t, key |-> key, value |-> Value]
        BY <2>4, QueuesEffect
      <4> QED
        BY <3>1, <4>1 DEF InPlace
    <3> QED
      BY <2>1, <2>4, <3>2 DEF Queues, InPlace
  <2> QED
    BY <1>2, <2>2, <2>3, <2>4 DEF TargetStep
<1>3. CASE Commit
  <2>1. disk' = work
    BY <1>3 DEF Commit, InPlace, TypeOK
  <2> QED
    BY <1>3, <2>1 DEF Commit, InPlace, TypeOK
<1>4. CASE Rollback \/ Crash
  BY <1>4 DEF Rollback, Discarded, Crash, InPlace
<1>5. CASE Flush \/ FlushFails
  <2>1. \A i \in 1..Len(queue') : queue'[i].target \in Written \ Deferred
    BY <1>5, FlushedEffect DEF InPlace
  <2>2. work' = disk' /\ \A k \in Key : wrote'[k] = {}
    BY <1>5, FlushedEffect DEF InPlace, Flush, FlushFails
  <2> QED
    BY <2>1, <2>2 DEF InPlace
<1>6. CASE UNCHANGED vars
  BY <1>6 DEF vars, InPlace
<1> QED
  BY <1>1, <1>2, <1>3, <1>4, <1>5, <1>6, TargetSteps DEF Next

\* The course is kept by every behaviour.
LEMMA StaysInCourse == Spec => []Course
<1>1. Init => Course
  <2>1. Init => TypeOK /\ FlushHasWork
    BY AbsentIsVal, CommitAssumption DEF Init, TypeOK, Nothing, Phases, FlushHasWork
  <2> QED
    BY <2>1 DEF Init, Course, InCourse, InPlace, Busy
<1>2. Course /\ [Next]_vars => Course'
  BY NextTypeOK, NextInCourse, NextInPlace DEF Course
<1> QED
  BY <1>1, <1>2, PTL DEF Spec

-----------------------------------------------------------------------------
(***************************************************************************)
(* Law 1: a dependent on a medium of its own holds only what a committed   *)
(* transaction gave the record.                                            *)
(***************************************************************************)

\* Every value that waits is one the record was given: by a committed transaction
\* or by the open one, whose commit comes before the flush.
QueueTraced ==
    \A i \in 1..Len(queue) :
        queue[i].value \in committed[queue[i].key] \cup wrote[queue[i].key]

\* A write that has come past all it commits to has given the record its value.
GivenByNow ==
    op \in {"write", "insert"} /\ todo \cap Committing = {} => id \in wrote[key]

Traced ==
    /\ DerivedOnlyFromCommits
    /\ QueueTraced
    /\ GivenByNow
    /\ \A k \in Key : Absent \in committed[k]

\* A visit to a target keeps every value traced.
LEMMA TargetTraced ==
    ASSUME Course, Traced, NEW t \in Target, TargetStep(t) PROVE Traced'
<1> USE DEF Course
<1>0. /\ key \in Key /\ key' = key /\ id' = id /\ committed' = committed
      /\ op \in Busy /\ t \in todo /\ InOrder(t)
  BY DEF TargetStep, TypeOK
<1>1. op' = op \/ op' \in {"idle", "failed"}
  BY DEF TargetStep, Refuses, PutsNow, Queues, GivesUp, Continue
<1>2. CASE Refuses(t)
  BY <1>0, <1>2 DEF Refuses, Traced, DerivedOnlyFromCommits, QueueTraced, GivenByNow
<1>3. CASE GivesUp(t)
  <2>1. GivenByNow'
    BY <1>0, <1>3, RolesPartition
       DEF GivesUp, GivenByNow, Continue, Traced, InOrder
  <2> QED
    BY <1>0, <1>3, <2>1 DEF GivesUp, Traced, DerivedOnlyFromCommits, QueueTraced
<1>4. CASE PutsNow(t)
  <2>1. \A k \in Key : wrote[k] \subseteq wrote'[k]
    BY <1>4, PutEffect DEF PutsNow
  <2>2. QueueTraced'
    <3> SUFFICES ASSUME NEW i \in 1..Len(queue)
                 PROVE  queue[i].value \in committed[queue[i].key] \cup wrote'[queue[i].key]
      BY <1>0, <1>4 DEF PutsNow, QueueTraced
    <3>1. queue[i].key \in Key
      BY QueueTypes DEF Queued
    <3> QED
      BY <2>1, <3>1 DEF Traced, QueueTraced
  <2>3. DerivedOnlyFromCommits'
    <3> SUFFICES ASSUME NEW u \in Dependents \ Deferred, NEW k \in Key
                 PROVE  disk'[u][k] \in committed[k]
      BY <1>0 DEF DerivedOnlyFromCommits
    <3>1. u \in Target /\ (u = t => t \in Deferred)
      BY <1>4, RolesPartition DEF PutsNow
    <3>2. disk'[u][k] = disk[u][k]
      BY <1>4, <3>1, PutEffect DEF PutsNow
    <3> QED
      BY <3>2 DEF Traced, DerivedOnlyFromCommits
  <2>4. GivenByNow'
    <3> SUFFICES ASSUME op' \in {"write", "insert"}, todo' \cap Committing = {}
                 PROVE  id \in wrote'[key]
      BY <1>0 DEF GivenByNow
    <3>1. op' = op /\ todo' = todo \ {t} /\ Value = id
      BY <1>1, <1>4 DEF PutsNow, Continue, Value
    <3>2. CASE t \notin Committing
      BY <1>0, <2>1, <3>1, <3>2 DEF InOrder, Traced, GivenByNow
    <3>3. CASE t \in Committing
      <4>1. t \in RemovedNow
        BY <1>0, <3>1, <3>3 DEF InCourse, Committing, RemovedNow
      <4>2. Put(t, id)
        BY <1>4, <3>1 DEF PutsNow
      <4>3. wrote'[key] = wrote[key] \cup {id}
        BY <1>0, <4>1, <4>2, PutEffect
      <4> QED
        BY <4>3
    <3> QED
      BY <3>2, <3>3
  <2> QED
    BY <1>0, <2>2, <2>3, <2>4 DEF Traced
<1>5. CASE Queues(t)
  <2>1. Value \in committed[key] \cup wrote[key]
    BY <1>0, <1>5 DEF Queues, Value, InOrder, Traced, GivenByNow, Busy
  <2>2. QueueTraced'
    <3> SUFFICES ASSUME NEW i \in 1..Len(queue')
                 PROVE  queue'[i].value \in committed[queue'[i].key] \cup wrote[queue'[i].key]
      BY <1>0, <1>5 DEF Queues, QueueTraced
    <3>1. \/ i \in 1..Len(queue) /\ queue'[i] = queue[i]
          \/ queue'[i] = [target |-> t, key |-> key, value |-> Value]
      BY <1>5, QueuesEffect
    <3> QED
      BY <2>1, <3>1 DEF Traced, QueueTraced
  <2>3. GivenByNow'
    BY <1>0, <1>1, <1>5 DEF Queues, Continue, GivenByNow, InOrder, Traced, Busy
  <2> QED
    BY <1>0, <1>5, <2>2, <2>3 DEF Queues, Traced, DerivedOnlyFromCommits
<1> QED
  BY <1>2, <1>3, <1>4, <1>5 DEF TargetStep

\* So does every other step: a commit makes its values committed before the flush.
LEMMA NextTraced == ASSUME Course, Traced, [Next]_vars PROVE Traced'
<1> USE DEF Course
<1>1. ASSUME NEW k \in Key, StartWrite(k) \/ StartInsert(k) PROVE Traced'
  <2>1. todo' \cap Committing # {}
    BY <1>1, RolesPartition, CommitAssumption DEF StartWrite, StartInsert, Begin, Written
  <2> QED
    BY <1>1, <2>1
       DEF StartWrite, StartInsert, Traced, DerivedOnlyFromCommits, QueueTraced, GivenByNow
<1>2. ASSUME NEW k \in Key, StartDelete(k) PROVE Traced'
  BY <1>2 DEF StartDelete, Begin, Traced, DerivedOnlyFromCommits, QueueTraced, GivenByNow
<1>3. ASSUME NEW t \in Target, TargetStep(t) PROVE Traced'
  BY <1>3, TargetTraced
<1>4. CASE Commit
  <2>1. /\ op' \notin {"write", "insert"} /\ queue' = queue
        /\ \A k \in Key : committed'[k] = committed[k] \cup wrote[k]
        /\ \A t \in Dependents \ Deferred : disk'[t] = disk[t]
    BY <1>4, RolesPartition DEF Commit
  <2>2. \A i \in 1..Len(queue) : queue[i].key \in Key
    BY QueueTypes DEF Queued
  <2> QED
    BY <2>1, <2>2 DEF Traced, DerivedOnlyFromCommits, QueueTraced, GivenByNow
<1>5. CASE Rollback \/ Crash
  <2>1. op' = "idle" /\ queue' = <<>> /\ committed' = committed /\ disk' = disk
    BY <1>5 DEF Rollback, Discarded, Crash
  <2> QED
    BY <2>1 DEF Traced, DerivedOnlyFromCommits, QueueTraced, GivenByNow
<1>6. CASE Flush \/ FlushFails
  <2>1. /\ op = "flush" /\ op' \in {"idle", "flush"} /\ Len(queue) \in Nat \ {0}
        /\ Len(queue') = Len(queue) - 1
        /\ \A i \in 1..Len(queue') : queue'[i] = queue[i + 1]
        /\ FlushItem \in Queued /\ FlushItem = queue[1]
    BY <1>6, FlushedEffect
  <2>2. committed' = committed /\ wrote' = wrote /\ key' = key /\ id' = id
    BY <1>6 DEF Flush, FlushFails, call
  <2>3. QueueTraced'
    <3> SUFFICES ASSUME NEW i \in 1..Len(queue')
                 PROVE  queue'[i].value \in committed[queue'[i].key] \cup wrote[queue'[i].key]
      BY <2>2 DEF QueueTraced
    <3>1. i + 1 \in 1..Len(queue) /\ queue'[i] = queue[i + 1]
      BY <2>1
    <3> QED
      BY <3>1 DEF Traced, QueueTraced
  <2>4. FlushItem.value \in committed[FlushItem.key]
    <3>1. 1 \in 1..Len(queue) /\ FlushItem.key \in Key
      BY <2>1 DEF Queued
    <3>2. wrote[FlushItem.key] = {}
      BY <2>1, <3>1 DEF InPlace
    <3> QED
      BY <2>1, <3>1, <3>2 DEF Traced, QueueTraced
  <2>5. DerivedOnlyFromCommits'
    <3> SUFFICES ASSUME NEW t \in Dependents \ Deferred, NEW k \in Key
                 PROVE  disk'[t][k] \in committed[k]
      BY <2>2 DEF DerivedOnlyFromCommits
    <3>1. \/ disk'[t][k] = disk[t][k]
          \/ k = FlushItem.key /\ disk'[t][k] = FlushItem.value
      BY <1>6, RolesPartition DEF Flush, FlushFails, TypeOK
    <3> QED
      BY <2>4, <3>1 DEF Traced, DerivedOnlyFromCommits
  <2> QED
    BY <2>1, <2>2, <2>3, <2>5 DEF Traced, GivenByNow
<1>7. CASE UNCHANGED vars
  BY <1>7 DEF vars, call, txn, Traced, DerivedOnlyFromCommits, QueueTraced, GivenByNow
<1> QED
  BY <1>1, <1>2, <1>3, <1>4, <1>5, <1>6, <1>7, TargetSteps DEF Next

\* Law 1 with the caller's commit as the commit point, for every composition: an index
\* or a copy on a medium of its own (queued by _sync_one, run by flush) never holds a
\* value but one of a committed transaction.
THEOREM DerivesOnlyFromCommits == Spec => []DerivedOnlyFromCommits
<1>1. Init => Traced
  BY RolesPartition
     DEF Init, Nothing, Traced, DerivedOnlyFromCommits, QueueTraced, GivenByNow
<1>2. Course /\ Traced /\ [Next]_vars => Traced'
  BY NextTraced
<1>3. Traced => DerivedOnlyFromCommits
  BY DEF Traced
<1> QED
  BY <1>1, <1>2, <1>3, StaysInCourse, PTL DEF Spec

-----------------------------------------------------------------------------
(***************************************************************************)
(* Law 12: the body of a durable record.  The authority joins the caller's *)
(* transaction: the law is about records whose commit is the caller's.     *)
(***************************************************************************)

\* An entry of the authority has its components, durably and in the transaction.
HasBody(place) ==
    \A a \in Authority, t \in Components, k \in Key \ redone :
        place[a][k] # Absent => place[t][k] # Absent

\* A write has given the components it has come past; a delete has removed the
\* authority once it has come past it.
BodyFirst ==
    /\ op \in {"write", "insert"} => \A t \in Components \ todo : work[t][key] # Absent
    /\ op = "delete" => \A a \in Authority \ todo : work[a][key] = Absent

\* A component waits only for its removal, behind the authority's, by a transaction
\* that leaves the key alone afterwards.
Unneeded(item) ==
    /\ item.value = Absent
    /\ \A a \in Authority : work[a][item.key] = Absent
    /\ op # "flush" => item.key \in touched
    /\ op \in {"write", "insert"} => item.key # key

BodyQueue ==
    \A i \in 1..Len(queue) :
        queue[i].target \in Components /\ queue[i].key \notin redone => Unneeded(queue[i])

Bodies == HasBody(disk) /\ HasBody(work) /\ BodyFirst /\ BodyQueue

\* A visit to a target takes no component from under its authority.
LEMMA TargetBodies ==
    ASSUME Authority \subseteq Deferred,
           Course, Bodies, NEW t \in Target, TargetStep(t)
    PROVE  Bodies'
<1> USE DEF Course
<1>0. /\ key \in Key /\ key' = key /\ id' = id /\ redone' = redone /\ touched' = touched
      /\ op \in Busy /\ t \in todo /\ InOrder(t) /\ key \in touched
      /\ (op # "delete" => id # Absent)
  BY DEF TargetStep, TypeOK, InCourse, Busy
<1>1. op' = op \/ op' \in {"idle", "failed"}
  BY DEF TargetStep, Refuses, PutsNow, Queues, GivesUp, Continue
<1>2. op' = op => todo' = todo \ {t}
  BY <1>0 DEF TargetStep, Refuses, PutsNow, Queues, GivesUp, Continue, Busy
<1>3. CASE Refuses(t) \/ GivesUp(t)
  <2>1. disk' = disk /\ work' = work /\ queue' = queue
    BY <1>3 DEF Refuses, GivesUp
  <2>2. op' = op => t \in Dependents
    BY <1>0, <1>3 DEF Refuses, GivesUp, Busy
  <2>3. BodyFirst'
    BY <1>0, <1>1, <1>2, <2>1, <2>2, RolesPartition DEF Bodies, BodyFirst
  <2>4. BodyQueue'
    BY <1>0, <1>1, <2>1 DEF Bodies, BodyQueue, Unneeded, Busy
  <2> QED
    BY <1>0, <2>1, <2>3, <2>4 DEF Bodies, HasBody
<1>4. CASE PutsNow(t)
  <2>1. \A u \in Target, k \in Key :
          /\ work'[u][k] = IF u = t /\ k = key THEN Value ELSE work[u][k]
          /\ disk'[u][k] = IF u = t /\ k = key /\ t \notin Deferred THEN Value ELSE disk[u][k]
    BY <1>4, PutEffect DEF PutsNow
  <2>2. Value = IF op = "delete" THEN Absent ELSE id
    BY DEF Value
  <2>3. ASSUME op = "delete", t \in Components, Authority # {}
        PROVE  t \in Deferred /\ \A a \in Authority : work[a][key] = Absent
    <3>1. t \notin RemovedNow
      BY <2>3, RolesPartition DEF RemovedNow
    <3> QED
      BY <1>0, <1>4, <2>3, <3>1, RolesPartition DEF PutsNow, InOrder, Bodies, BodyFirst
  <2>4. ASSUME op # "delete", t \in Authority
        PROVE  \A u \in Components : work[u][key] # Absent
    BY <1>0, <2>4 DEF InOrder, Bodies, BodyFirst, Busy
  <2>5. HasBody(work)'
    <3> SUFFICES ASSUME NEW a \in Authority, NEW u \in Components, NEW k \in Key \ redone,
                        work'[a][k] # Absent
                 PROVE  work'[u][k] # Absent
      BY <1>0 DEF HasBody
    <3>1. a \in Target /\ u \in Target /\ a # u
      BY RolesPartition
    <3>2. CASE k # key \/ (t # a /\ t # u)
      BY <2>1, <3>1, <3>2 DEF Bodies, HasBody
    <3>3. CASE k = key /\ t = a
      BY <1>0, <2>1, <2>2, <2>4, <3>1, <3>3
    <3>4. CASE k = key /\ t = u
      BY <1>0, <2>1, <2>2, <2>3, <3>1, <3>4
    <3> QED
      BY <3>2, <3>3, <3>4
  <2>6. HasBody(disk)'
    <3> SUFFICES ASSUME NEW a \in Authority, NEW u \in Components, NEW k \in Key \ redone,
                        disk'[a][k] # Absent
                 PROVE  disk'[u][k] # Absent
      BY <1>0 DEF HasBody
    <3>1. a \in Target /\ u \in Target /\ disk'[a][k] = disk[a][k]
      BY <2>1, RolesPartition
    <3>2. disk'[u][k] = disk[u][k] \/ (op # "delete" /\ disk'[u][k] = id)
      BY <2>1, <2>2, <2>3, <3>1
    <3> QED
      BY <1>0, <3>1, <3>2 DEF Bodies, HasBody
  <2>7. BodyFirst'
    <3>1. ASSUME op' \in {"write", "insert"}, NEW u \in Components \ todo'
          PROVE  work'[u][key] # Absent
      BY <1>0, <1>1, <1>2, <2>1, <2>2, <3>1, RolesPartition DEF Bodies, BodyFirst
    <3>2. ASSUME op' = "delete", NEW a \in Authority \ todo'
          PROVE  work'[a][key] = Absent
      BY <1>0, <1>1, <1>2, <2>1, <2>2, <3>2, RolesPartition DEF Bodies, BodyFirst
    <3> QED
      BY <1>0, <3>1, <3>2 DEF BodyFirst
  <2>8. BodyQueue'
    <3> SUFFICES ASSUME NEW i \in 1..Len(queue), queue[i].target \in Components,
                        queue[i].key \notin redone
                 PROVE  Unneeded(queue[i])'
      BY <1>0, <1>4 DEF BodyQueue, PutsNow, Unneeded
    <3>1. Unneeded(queue[i]) /\ queue[i].key \in Key
      BY QueueTypes DEF Bodies, BodyQueue, Queued
    <3>2. \A a \in Authority : work'[a][queue[i].key] = Absent
      BY <1>0, <2>1, <2>2, <3>1, RolesPartition DEF Unneeded, Busy
    <3>3. queue' = queue
      BY <1>4 DEF PutsNow
    <3> QED
      BY <1>0, <1>1, <3>1, <3>2, <3>3 DEF Unneeded, Busy
  <2> QED
    BY <2>5, <2>6, <2>7, <2>8 DEF Bodies
<1>5. CASE Queues(t)
  <2>1. disk' = disk /\ work' = work
    BY <1>5 DEF Queues
  <2>2. t \notin Authority /\ (op # "delete" => t \notin Components)
    BY <1>5 DEF Queues, Committing
  <2>3. BodyFirst'
    BY <1>0, <1>1, <1>2, <2>1, <2>2 DEF Bodies, BodyFirst
  <2>4. BodyQueue'
    <3> SUFFICES ASSUME NEW i \in 1..Len(queue'), queue'[i].target \in Components,
                        queue'[i].key \notin redone
                 PROVE  Unneeded(queue[i])'
      BY <1>0 DEF BodyQueue, Unneeded
    <3>1. CASE i \in 1..Len(queue) /\ queue'[i] = queue[i]
      BY <1>0, <1>1, <2>1, <3>1 DEF Bodies, BodyQueue, Unneeded, Busy
    <3>2. CASE queue'[i] = [target |-> t, key |-> key, value |-> Value]
      <4>1. op = "delete" /\ Value = Absent
        BY <2>2, <3>2 DEF Value
      <4>2. \A a \in Authority : work[a][key] = Absent
        BY <1>0, <1>5, <4>1, RolesPartition DEF Queues, InOrder, Bodies, BodyFirst
      <4> QED
        BY <1>0, <1>1, <2>1, <3>2, <4>1, <4>2 DEF Unneeded
    <3> QED
      BY <1>5, <3>1, <3>2, QueuesEffect
  <2> QED
    BY <1>0, <2>1, <2>3, <2>4 DEF Bodies, HasBody
<1> QED
  BY <1>3, <1>4, <1>5 DEF TargetStep

\* Nor does any other step: the flush removes only what has no authority left.
LEMMA NextBodies ==
    ASSUME Authority \subseteq Deferred, Course, Bodies, [Next]_vars PROVE Bodies'
<1> USE DEF Course
<1>1. ASSUME NEW k \in Key, StartWrite(k) \/ StartInsert(k) \/ StartDelete(k) PROVE Bodies'
  <2>1. /\ op = "idle" /\ key' = k /\ touched' = touched \cup {k}
        /\ redone' = redone \cup (touched \cap {k})
        /\ disk' = disk /\ work' = work /\ queue' = queue
    BY <1>1 DEF StartWrite, StartInsert, StartDelete, Begin
  <2>2. \/ op' \in {"write", "insert"} /\ todo' = Written
        \/ op' = "delete" /\ todo' = RemovedNow \cup RemovedAfterCommit
    BY <1>1 DEF StartWrite, StartInsert, StartDelete, Begin
  <2>3. BodyFirst'
    BY <2>2, RolesPartition DEF BodyFirst
  <2>4. BodyQueue'
    <3> SUFFICES ASSUME NEW i \in 1..Len(queue), queue[i].target \in Components,
                        queue[i].key \notin redone'
                 PROVE  Unneeded(queue[i])'
      BY <2>1 DEF BodyQueue
    <3>1. Unneeded(queue[i]) /\ queue[i].key \notin redone'
      BY <2>1 DEF Bodies, BodyQueue
    <3> QED
      BY <2>1, <2>2, <3>1 DEF Unneeded
  <2> QED
    BY <2>1, <2>3, <2>4 DEF Bodies, HasBody
<1>2. ASSUME NEW t \in Target, TargetStep(t) PROVE Bodies'
  BY <1>2, TargetBodies
<1>3. CASE Commit
  <2>1. /\ disk' = work /\ work' = work /\ queue' = queue /\ redone' = redone /\ op = "idle"
        /\ op' = IF queue = <<>> THEN "idle" ELSE "flush"
    BY <1>3 DEF Commit, InPlace, TypeOK
  <2>2. BodyQueue'
    <3> SUFFICES ASSUME NEW i \in 1..Len(queue), queue[i].target \in Components,
                        queue[i].key \notin redone
                 PROVE  Unneeded(queue[i])'
      BY <2>1 DEF BodyQueue
    <3>1. op' = "flush" /\ Unneeded(queue[i])
      BY <2>1 DEF Bodies, BodyQueue
    <3> QED
      BY <2>1, <3>1 DEF Unneeded
  <2> QED
    BY <2>1, <2>2 DEF Bodies, HasBody, BodyFirst
<1>4. CASE Rollback \/ Crash
  <2>1. op' = "idle" /\ queue' = <<>> /\ redone' = redone /\ disk' = disk /\ work' = disk
    BY <1>4 DEF Rollback, Discarded, Crash
  <2> QED
    BY <2>1 DEF Bodies, HasBody, BodyFirst, BodyQueue
<1>5. CASE Flush \/ FlushFails
  <2>1. /\ op = "flush" /\ op' \in {"idle", "flush"} /\ Len(queue) \in Nat \ {0}
        /\ Len(queue') = Len(queue) - 1
        /\ \A i \in 1..Len(queue') : queue'[i] = queue[i + 1]
        /\ FlushItem \in Queued /\ FlushItem = queue[1]
    BY <1>5, FlushedEffect
  <2>2. redone' = redone /\ touched' = touched /\ work = disk /\ work' = disk'
    BY <1>5, <2>1 DEF Flush, FlushFails, txn, InPlace
  <2>3. \A u \in Target, k \in Key :
          \/ work'[u][k] = work[u][k]
          \/ u = FlushItem.target /\ k = FlushItem.key /\ work'[u][k] = FlushItem.value
    BY <1>5 DEF Flush, FlushFails, TypeOK
  <2>4. 1 \in 1..Len(queue) /\ FlushItem.target \notin Authority
    BY <2>1 DEF InPlace
  <2>5. \A a \in Authority, k \in Key : work'[a][k] = work[a][k]
    BY <2>3, <2>4, RolesPartition
  <2>6. HasBody(work)'
    <3> SUFFICES ASSUME NEW a \in Authority, NEW u \in Components, NEW k \in Key \ redone,
                        work'[a][k] # Absent
                 PROVE  work'[u][k] # Absent
      BY <2>2 DEF HasBody
    <3>1. work[a][k] # Absent /\ u \in Target
      BY <2>5, RolesPartition
    <3>2. ~ (u = FlushItem.target /\ k = FlushItem.key)
      BY <2>1, <2>4, <3>1 DEF Bodies, BodyQueue, Unneeded
    <3>3. work'[u][k] = work[u][k]
      BY <2>3, <3>1, <3>2
    <3> QED
      BY <3>1, <3>3 DEF Bodies, HasBody
  <2>7. BodyQueue'
    <3> SUFFICES ASSUME NEW i \in 1..Len(queue'), queue'[i].target \in Components,
                        queue'[i].key \notin redone
                 PROVE  Unneeded(queue[i])'
      BY <2>2 DEF BodyQueue
    <3>1. i + 1 \in 1..Len(queue) /\ queue'[i] = queue[i + 1]
      BY <2>1
    <3>2. Unneeded(queue[i + 1]) /\ queue[i + 1].key \in Key
      BY <3>1, QueueTypes DEF Bodies, BodyQueue, Queued
    <3>3. op' = "flush"
      BY <1>5, <2>1 DEF Flush, FlushFails, Flushed
    <3> QED
      BY <2>2, <2>5, <3>1, <3>2, <3>3 DEF Unneeded
  <2>8. HasBody(disk)'
    BY <2>2, <2>6 DEF HasBody
  <2> QED
    BY <2>1, <2>6, <2>7, <2>8 DEF Bodies, BodyFirst
<1>6. CASE UNCHANGED vars
  BY <1>6 DEF vars, call, txn, Bodies, HasBody, BodyFirst, BodyQueue, Unneeded
<1> QED
  BY <1>1, <1>2, <1>3, <1>4, <1>5, <1>6, TargetSteps DEF Next

\* Law 12, for every composition whose authority joins the caller's transaction: a
\* rollback, a refusal, a failed flush or a crash never leaves a durable record
\* without its body, for the keys no transaction changed more than once.
THEOREM BodyKept ==
    ASSUME Authority \subseteq Deferred
    PROVE  Spec => []CommittedRecordKeepsItsBody
<1>1. Init => Bodies
  BY RolesPartition DEF Init, Nothing, Bodies, HasBody, BodyFirst, BodyQueue
<1>2. Course /\ Bodies /\ [Next]_vars => Bodies'
  BY NextBodies
<1>3. Bodies => CommittedRecordKeepsItsBody
  BY DEF Bodies, HasBody, CommittedRecordKeepsItsBody
<1> QED
  BY <1>1, <1>2, <1>3, StaysInCourse, PTL DEF Spec

-----------------------------------------------------------------------------
(***************************************************************************)
(* Between transactions the dependents are in step with the authority.     *)
(***************************************************************************)

\* The syncs of t and k that wait, and the last of them.
For(t, k, i) == i \in 1..Len(queue) /\ queue[i].target = t /\ queue[i].key = k
Waiting(t, k) == \E i \in 1..Len(queue) : For(t, k, i)
LastFor(t, k, i) == For(t, k, i) /\ \A j \in 1..Len(queue) : For(t, k, j) => j <= i

\* The operation under way has changed the authority and has yet to come to t.
Pending(t, k) == op \in Busy /\ k = key /\ t \in todo /\ Authority \cap todo = {}

\* A dependent outside the transaction has what is durable, or the last sync that
\* waits will bring it; one that joins it has what the authority has.
Follows(a, t, k) ==
    /\ (op = "flush" => ~ Waiting(t, k)) /\ <<t, k>> \notin missed
         => disk[t][k] = disk[a][k]
    /\ op \notin {"failed", "flush"} /\ ~ Waiting(t, k) /\ ~ Pending(t, k)
         => work[a][k] = disk[a][k]
    /\ op # "failed" /\ ~ Pending(t, k)
         => \A i \in 1..Len(queue) : LastFor(t, k, i) => queue[i].value = work[a][k]

Joins(a, t, k) ==
    /\ disk[t][k] = disk[a][k]
    /\ op # "failed" /\ ~ Pending(t, k) => work[t][k] = work[a][k]

Reached ==
    op \in Busy /\ Authority \cap todo = {} => \A a \in Authority : work[a][key] = Value

InStepByNow ==
    /\ Reached
    /\ \A a \in Authority, k \in Key :
         /\ \A t \in Dependents \ Deferred : Follows(a, t, k)
         /\ \A t \in Dependents \cap Deferred \cap Required : Joins(a, t, k)

\* Queueing a sync makes it the last of its target and key, and no other.
LEMMA QueuesWaiting ==
    ASSUME TypeOK, NEW t \in Target, Queues(t), NEW u, NEW k
    PROVE  /\ u = t /\ k = key =>
                /\ Waiting(u, k)'
                /\ \A i \in 1..Len(queue') : LastFor(u, k, i)' => queue'[i].value = Value
           /\ ~ (u = t /\ k = key) =>
                /\ Waiting(u, k)' <=> Waiting(u, k)
                /\ \A i \in 1..Len(queue') : LastFor(u, k, i)' =>
                     /\ i \in 1..Len(queue) /\ queue'[i] = queue[i] /\ LastFor(u, k, i)
<1>1. /\ Len(queue) \in Nat /\ Len(queue') = Len(queue) + 1
      /\ \A i \in 1..Len(queue') :
           \/ i \in 1..Len(queue) /\ queue'[i] = queue[i]
           \/ i = Len(queue') /\ queue'[i] = [target |-> t, key |-> key, value |-> Value]
      /\ \A i \in 1..Len(queue) : i \in 1..Len(queue') /\ queue'[i] = queue[i]
  BY QueuesEffect
<1>2. /\ Len(queue') \in 1..Len(queue')
      /\ queue'[Len(queue')] = [target |-> t, key |-> key, value |-> Value]
  BY <1>1
<1>3. ASSUME u = t, k = key
      PROVE  /\ Waiting(u, k)'
             /\ \A i \in 1..Len(queue') : LastFor(u, k, i)' => queue'[i].value = Value
  <2>1. For(u, k, Len(queue))'
    BY <1>2, <1>3 DEF For
  <2>2. Waiting(u, k)'
    BY <1>2, <2>1 DEF Waiting
  <2>3. ASSUME NEW i \in 1..Len(queue'), LastFor(u, k, i)' PROVE queue'[i].value = Value
    <3>1. Len(queue') <= i
      BY <1>2, <2>1, <2>3 DEF LastFor
    <3>2. i = Len(queue')
      BY <1>1, <3>1
    <3> QED
      BY <1>2, <3>2
  <2> QED
    BY <2>2, <2>3
<1>4. ASSUME ~ (u = t /\ k = key)
      PROVE  /\ Waiting(u, k)' <=> Waiting(u, k)
             /\ \A i \in 1..Len(queue') : LastFor(u, k, i)' =>
                  /\ i \in 1..Len(queue) /\ queue'[i] = queue[i] /\ LastFor(u, k, i)
  <2>1. ASSUME NEW i \in 1..Len(queue'), For(u, k, i)'
        PROVE  i \in 1..Len(queue) /\ queue'[i] = queue[i] /\ For(u, k, i)
    BY <1>1, <1>4, <2>1 DEF For
  <2>2. ASSUME NEW i \in 1..Len(queue), For(u, k, i)
        PROVE  i \in 1..Len(queue') /\ For(u, k, i)'
    BY <1>1, <2>2 DEF For
  <2>3. Waiting(u, k)' <=> Waiting(u, k)
    BY <2>1, <2>2 DEF Waiting
  <2>4. ASSUME NEW i \in 1..Len(queue'), LastFor(u, k, i)'
        PROVE  i \in 1..Len(queue) /\ queue'[i] = queue[i] /\ LastFor(u, k, i)
    BY <2>1, <2>2, <2>4 DEF LastFor
  <2> QED
    BY <2>3, <2>4
<1> QED
  BY <1>3, <1>4

\* Taking the first sync leaves the others of its target and key, and of every other.
LEMMA FlushedWaiting ==
    ASSUME TypeOK, FlushHasWork, Flush \/ FlushFails, NEW u, NEW k
    PROVE  /\ ~ Waiting(u, k)' =>
                \/ ~ Waiting(u, k)
                \/ u = FlushItem.target /\ k = FlushItem.key /\ LastFor(u, k, 1)
           /\ \A i \in 1..Len(queue') : LastFor(u, k, i)' =>
                /\ i + 1 \in 1..Len(queue) /\ queue'[i] = queue[i + 1]
                /\ LastFor(u, k, i + 1)
<1>1. /\ Len(queue) \in Nat \ {0} /\ Len(queue') = Len(queue) - 1
      /\ \A i \in 1..Len(queue') : queue'[i] = queue[i + 1]
      /\ FlushItem = queue[1]
  BY FlushedEffect
<1>2. ASSUME NEW i \in 1..Len(queue')
      PROVE  /\ i + 1 \in 1..Len(queue) /\ queue'[i] = queue[i + 1]
             /\ For(u, k, i)' <=> For(u, k, i + 1)
  BY <1>1, <1>2 DEF For
<1>3. ASSUME NEW j \in 1..Len(queue)
      PROVE  j = 1 \/ (j - 1 \in 1..Len(queue') /\ (j - 1) + 1 = j)
  BY <1>1
<1>4. ASSUME ~ Waiting(u, k)'
      PROVE  \A j \in 1..Len(queue) : For(u, k, j) => j = 1
  <2> SUFFICES ASSUME NEW j \in 1..Len(queue), For(u, k, j), j # 1 PROVE FALSE
    OBVIOUS
  <2>1. j - 1 \in 1..Len(queue') /\ For(u, k, (j - 1) + 1)
    BY <1>3
  <2>2. For(u, k, j - 1)'
    BY <1>2, <2>1
  <2> QED
    BY <1>4, <2>1, <2>2 DEF Waiting
<1>5. ~ Waiting(u, k)' =>
        \/ ~ Waiting(u, k)
        \/ u = FlushItem.target /\ k = FlushItem.key /\ LastFor(u, k, 1)
  BY <1>1, <1>4 DEF Waiting, LastFor, For
<1>6. ASSUME NEW i \in 1..Len(queue'), LastFor(u, k, i)'
      PROVE  /\ i + 1 \in 1..Len(queue) /\ queue'[i] = queue[i + 1] /\ LastFor(u, k, i + 1)
  <2>1. For(u, k, i + 1) /\ i + 1 \in 1..Len(queue) /\ queue'[i] = queue[i + 1]
    BY <1>2, <1>6 DEF LastFor
  <2>2. ASSUME NEW j \in 1..Len(queue), For(u, k, j) PROVE j <= i + 1
    <3>1. CASE j = 1
      BY <3>1, <1>1
    <3>2. CASE j # 1
      <4>1. j - 1 \in 1..Len(queue') /\ For(u, k, (j - 1) + 1)
        BY <1>3, <2>2, <3>2
      <4>2. For(u, k, j - 1)'
        BY <1>2, <4>1
      <4>3. j - 1 <= i
        BY <1>6, <4>1, <4>2 DEF LastFor
      <4> QED
        BY <1>1, <4>3
    <3> QED
      BY <3>1, <3>2
  <2> QED
    BY <2>1, <2>2 DEF LastFor
<1> QED
  BY <1>5, <1>6

\* A visit to a target leaves what it has come past in step.
LEMMA TargetInStep ==
    ASSUME Authority \subseteq Deferred,
           Course, InStepByNow, NEW t \in Target, TargetStep(t)
    PROVE  InStepByNow'
<1> USE DEF Course
<1>0. /\ key \in Key /\ key' = key /\ id' = id /\ missed' = missed
      /\ op \in Busy /\ t \in todo /\ InOrder(t) /\ op # "flush" /\ op # "failed"
  BY DEF TargetStep, TypeOK, Busy
<1>1. \/ op' = op /\ todo' = todo \ {t}
      \/ op' = "idle" /\ todo \ {t} = {} /\ todo' = {}
      \/ op' = "idle" /\ Refuses(t)
      \/ op' = "failed"
  BY <1>0 DEF TargetStep, Refuses, PutsNow, Queues, GivesUp, Continue, Busy
<1>2. op' = op => Value' = Value
  BY <1>0 DEF Value
<1>3. t \in Dependents => Authority \cap todo = {}
  BY <1>0, RolesPartition DEF InOrder
<1>4. ASSUME NEW u \in Dependents, NEW k \in Key, u # t, t \notin Authority,
             Pending(u, k)
      PROVE  op' = "failed" \/ Pending(u, k)'
  BY <1>0, <1>1, <1>4 DEF Pending, Busy, Refuses
<1>5. CASE Refuses(t) \/ GivesUp(t)
  <2>1. disk' = disk /\ work' = work /\ queue' = queue
    BY <1>5 DEF Refuses, GivesUp
  <2>2. ASSUME NEW u \in Dependents, NEW k \in Key, u \notin Deferred \ Required,
               op' # "failed", Pending(u, k)
        PROVE  Pending(u, k)'
    <3>1. CASE t \in Authority
      BY <1>0, <2>2, <3>1 DEF Pending
    <3>2. CASE t \notin Authority
      <4>1. t \in (Dependents \cap Deferred) \ Required
        BY <1>5, <2>2, <3>2 DEF Refuses, GivesUp
      <4> QED
        BY <1>4, <2>2, <3>2, <4>1
    <3> QED
      BY <3>1, <3>2
  <2>3. Reached'
    <3> SUFFICES ASSUME op' \in Busy, Authority \cap todo' = {}, NEW a \in Authority
                 PROVE  work'[a][key'] = Value'
      BY DEF Reached
    <3>1. op' = op /\ todo' = todo \ {t} /\ t \notin Authority
      BY <1>0, <1>1, <1>5, RolesPartition DEF Refuses, GivesUp, Busy
    <3> QED
      BY <1>0, <1>2, <2>1, <3>1 DEF Reached, InStepByNow
  <2>4. ASSUME NEW a \in Authority, NEW k \in Key, NEW u \in Dependents \ Deferred
        PROVE  Follows(a, u, k)'
    <3>1. Follows(a, u, k)
      BY <2>4 DEF InStepByNow
    <3>2. op' # "failed" /\ ~ Pending(u, k)' => ~ Pending(u, k)
      BY <2>2, <2>4
    <3>3. /\ Waiting(u, k)' = Waiting(u, k)
          /\ \A i \in 1..Len(queue) : LastFor(u, k, i)' = LastFor(u, k, i)
      BY <2>1 DEF Waiting, LastFor, For
    <3> QED
      BY <1>0, <2>1, <3>1, <3>2, <3>3 DEF Follows
  <2>5. ASSUME NEW a \in Authority, NEW k \in Key,
               NEW u \in Dependents \cap Deferred \cap Required
        PROVE  Joins(a, u, k)'
    BY <1>0, <2>1, <2>2, <2>5 DEF InStepByNow, Joins
  <2> QED
    BY <2>3, <2>4, <2>5 DEF InStepByNow
<1>6. CASE Queues(t)
  <2>1. disk' = disk /\ work' = work /\ t \notin Authority /\ t \notin Deferred
    BY <1>6, RolesPartition DEF Queues
  <2>2. op' # "failed"
    BY <1>0, <1>6 DEF Queues, Continue, Busy
  <2>3. Reached'
    BY <1>0, <1>1, <1>2, <2>1 DEF Reached, InStepByNow, Busy, Refuses
  <2>4. ASSUME NEW a \in Authority, NEW k \in Key, NEW u \in Dependents \ Deferred
        PROVE  Follows(a, u, k)'
    <3>1. Follows(a, u, k)
      BY <2>4 DEF InStepByNow
    <3>2. CASE u = t /\ k = key
      <4>1. /\ Waiting(u, k)'
            /\ \A i \in 1..Len(queue') : LastFor(u, k, i)' => queue'[i].value = Value
        BY <1>6, <3>2, QueuesWaiting
      <4>2. work[a][k] = Value
        BY <1>0, <1>3, <2>4, <3>2 DEF InStepByNow, Reached
      <4> QED
        BY <1>0, <2>1, <3>1, <4>1, <4>2 DEF Follows
    <3>3. CASE ~ (u = t /\ k = key)
      <4>1. /\ Waiting(u, k)' <=> Waiting(u, k)
            /\ \A i \in 1..Len(queue') : LastFor(u, k, i)' =>
                 /\ i \in 1..Len(queue) /\ queue'[i] = queue[i] /\ LastFor(u, k, i)
        BY <1>6, <3>3, QueuesWaiting
      <4>2. Pending(u, k) => Pending(u, k)'
        BY <1>0, <1>4, <2>1, <2>2, <2>4, <3>3 DEF Pending
      <4> QED
        BY <1>0, <2>1, <2>2, <3>1, <4>1, <4>2 DEF Follows
    <3> QED
      BY <3>2, <3>3
  <2>5. ASSUME NEW a \in Authority, NEW k \in Key,
               NEW u \in Dependents \cap Deferred \cap Required
        PROVE  Joins(a, u, k)'
    <3>1. Joins(a, u, k) /\ u # t
      BY <2>1, <2>5 DEF InStepByNow
    <3>2. Pending(u, k) => Pending(u, k)'
      BY <1>4, <2>1, <2>2, <3>1
    <3> QED
      BY <1>0, <2>1, <3>1, <3>2 DEF Joins
  <2> QED
    BY <2>3, <2>4, <2>5 DEF InStepByNow
<1>7. CASE PutsNow(t)
  <2>1. \A u \in Target, k \in Key :
          /\ work'[u][k] = IF u = t /\ k = key THEN Value ELSE work[u][k]
          /\ disk'[u][k] = IF u = t /\ k = key /\ t \notin Deferred THEN Value ELSE disk[u][k]
    BY <1>7, PutEffect DEF PutsNow
  <2>2. queue' = queue /\ (t \notin Deferred => t \in Committing)
    BY <1>7, RolesPartition DEF PutsNow
  <2>3. \A u \in Authority \cup Dependents, k \in Key : u \in Target /\ disk'[u][k] = disk[u][k]
    BY <2>1, <2>2, RolesPartition DEF Committing
  <2>4. ASSUME t \in Authority, NEW u \in Dependents, op' # "failed"
        PROVE  Pending(u, key)'
    <3>1. u \in todo \ {t} /\ Authority \cap (todo \ {t}) = {}
      BY <1>0, <2>4, RolesPartition DEF InCourse
    <3>2. op' = op /\ todo' = todo \ {t}
      BY <1>0, <1>1, <1>7, <2>4, <3>1 DEF PutsNow, Continue, Busy
    <3> QED
      BY <1>0, <3>1, <3>2 DEF Pending
  <2>5. Reached'
    <3> SUFFICES ASSUME op' \in Busy, Authority \cap todo' = {}, NEW a \in Authority
                 PROVE  work'[a][key] = Value'
      BY <1>0 DEF Reached
    <3>1. op' = op /\ todo' = todo \ {t}
      BY <1>1 DEF Busy
    <3>2. CASE t = a
      BY <1>0, <1>2, <2>1, <3>1, <3>2
    <3>3. CASE t # a
      <4>1. Authority \cap todo = {} /\ a \in Target
        BY <3>1, <3>3, RolesPartition
      <4> QED
        BY <1>0, <1>2, <2>1, <3>1, <3>3, <4>1 DEF Reached, InStepByNow
    <3> QED
      BY <3>2, <3>3
  <2>6. ASSUME NEW a \in Authority, NEW k \in Key, NEW u \in Dependents \ Deferred
        PROVE  Follows(a, u, k)'
    <3>1. Follows(a, u, k) /\ u # t
      BY <2>2, <2>6, RolesPartition DEF InStepByNow
    <3>2. /\ Waiting(u, k)' = Waiting(u, k)
          /\ \A i \in 1..Len(queue) : LastFor(u, k, i)' = LastFor(u, k, i)
      BY <2>2 DEF Waiting, LastFor, For
    <3>3. CASE op' = "failed" \/ (t \in Authority /\ k = key)
      BY <1>0, <2>2, <2>3, <2>4, <3>1, <3>2, <3>3 DEF Follows
    <3>4. CASE op' # "failed" /\ ~ (t \in Authority /\ k = key)
      <4>1. Pending(u, k) => Pending(u, k)'
        BY <1>0, <1>4, <3>1, <3>4 DEF Pending
      <4>2. work'[a][k] = work[a][k]
        BY <2>1, <2>3, <3>4
      <4> QED
        BY <1>0, <2>2, <2>3, <3>1, <3>2, <3>4, <4>1, <4>2 DEF Follows
    <3> QED
      BY <3>3, <3>4
  <2>7. ASSUME NEW a \in Authority, NEW k \in Key,
               NEW u \in Dependents \cap Deferred \cap Required
        PROVE  Joins(a, u, k)'
    <3>1. Joins(a, u, k) /\ disk'[u][k] = disk'[a][k]
      BY <2>3, <2>7 DEF InStepByNow, Joins
    <3> SUFFICES ASSUME op' # "failed", ~ Pending(u, k)' PROVE work'[u][k] = work'[a][k]
      BY <3>1 DEF Joins
    <3>2. CASE t \in Authority
      <4>1. k # key
        BY <1>0, <2>4, <3>2 DEF Pending
      <4>2. ~ Pending(u, k)
        BY <4>1 DEF Pending
      <4> QED
        BY <1>0, <2>1, <2>3, <3>1, <4>1, <4>2 DEF Joins
    <3>3. CASE t \notin Authority /\ u = t /\ k = key
      <4>1. work[a][k] = Value
        BY <1>0, <1>3, <3>3 DEF InStepByNow, Reached
      <4> QED
        BY <2>1, <2>3, <3>3, <4>1
    <3>4. CASE t \notin Authority /\ ~ (u = t /\ k = key)
      <4>1. ~ Pending(u, k)
        BY <1>4, <3>4 DEF Pending
      <4> QED
        BY <1>0, <2>1, <2>3, <3>1, <3>4, <4>1 DEF Joins
    <3> QED
      BY <3>2, <3>3, <3>4
  <2> QED
    BY <2>5, <2>6, <2>7 DEF InStepByNow
<1> QED
  BY <1>5, <1>6, <1>7 DEF TargetStep

\* So does every other step: the flush brings each dependent the last of its syncs.
LEMMA NextInStep ==
    ASSUME Authority \subseteq Deferred, Course, InStepByNow, [Next]_vars PROVE InStepByNow'
<1> USE DEF Course
<1>1. ASSUME NEW n \in Key, StartWrite(n) \/ StartInsert(n) \/ StartDelete(n)
      PROVE  InStepByNow'
  <2>1. /\ op = "idle" /\ op' \in Busy
        /\ UNCHANGED <<disk, work, queue, missed>>
        /\ Authority \subseteq todo'
    BY <1>1, RolesPartition DEF StartWrite, StartInsert, StartDelete, Begin, Busy
  <2>2. Reached'
    BY <2>1 DEF Reached
  <2>3. ASSUME NEW a \in Authority, NEW k \in Key, NEW u \in Dependents
        PROVE  /\ ~ Pending(u, k) /\ Waiting(u, k)' = Waiting(u, k)
               /\ \A i \in 1..Len(queue) : LastFor(u, k, i)' = LastFor(u, k, i)
    BY <2>1 DEF Pending, Waiting, LastFor, For, Busy
  <2>4. ASSUME NEW a \in Authority, NEW k \in Key, NEW u \in Dependents \ Deferred
        PROVE  Follows(a, u, k)'
    BY <2>1, <2>3, <2>4 DEF InStepByNow, Follows, Busy
  <2>5. ASSUME NEW a \in Authority, NEW k \in Key,
               NEW u \in Dependents \cap Deferred \cap Required
        PROVE  Joins(a, u, k)'
    BY <2>1, <2>3, <2>5 DEF InStepByNow, Joins
  <2> QED
    BY <2>2, <2>4, <2>5 DEF InStepByNow
<1>2. ASSUME NEW t \in Target, TargetStep(t) PROVE InStepByNow'
  BY <1>2, TargetInStep
<1>3. CASE Commit
  <2>1. /\ disk' = work /\ work' = work /\ queue' = queue /\ missed' = missed /\ op = "idle"
        /\ op' = IF queue = <<>> THEN "idle" ELSE "flush"
    BY <1>3 DEF Commit, InPlace, TypeOK
  <2>2. ASSUME NEW a \in Authority, NEW k \in Key, NEW u \in Dependents \ Deferred
        PROVE  Follows(a, u, k)'
    <3>1. Follows(a, u, k) /\ ~ Pending(u, k) /\ u \in Target
      BY <2>1, <2>2, RolesPartition DEF InStepByNow, Pending, Busy
    <3>2. /\ Waiting(u, k)' = Waiting(u, k)
          /\ \A i \in 1..Len(queue) : LastFor(u, k, i)' = LastFor(u, k, i)
      BY <2>1 DEF Waiting, LastFor, For
    <3>3. work[u] = disk[u] /\ (queue = <<>> => ~ Waiting(u, k))
      BY <2>2, <3>1 DEF InPlace, Waiting
    <3> QED
      BY <2>1, <3>1, <3>2, <3>3 DEF Follows
  <2>3. ASSUME NEW a \in Authority, NEW k \in Key,
               NEW u \in Dependents \cap Deferred \cap Required
        PROVE  Joins(a, u, k)'
    BY <2>1, <2>3 DEF InStepByNow, Joins, Pending, Busy
  <2>4. Reached'
    BY <2>1 DEF Reached, Busy
  <2> QED
    BY <2>2, <2>3, <2>4 DEF InStepByNow
<1>4. CASE Rollback \/ Crash
  <2>1. op' = "idle" /\ queue' = <<>> /\ disk' = disk /\ work' = disk
    BY <1>4 DEF Rollback, Discarded, Crash
  <2>2. ASSUME NEW a \in Authority, NEW k \in Key, NEW u \in Dependents \ Deferred
        PROVE  Follows(a, u, k)'
    <3>1. Follows(a, u, k)
      BY <2>2 DEF InStepByNow
    <3>2. <<u, k>> \notin missed' => <<u, k>> \notin missed /\ (op = "flush" => ~ Waiting(u, k))
      BY <1>4 DEF Rollback, Crash, Waiting, For
    <3>3. \A i \in 1..Len(queue') : FALSE
      BY <2>1
    <3> QED
      BY <2>1, <3>1, <3>2, <3>3 DEF Follows
  <2>3. ASSUME NEW a \in Authority, NEW k \in Key,
               NEW u \in Dependents \cap Deferred \cap Required
        PROVE  Joins(a, u, k)'
    BY <2>1, <2>3 DEF InStepByNow, Joins
  <2>4. Reached'
    BY <2>1 DEF Reached, Busy
  <2> QED
    BY <2>2, <2>3, <2>4 DEF InStepByNow
<1>5. CASE Flush \/ FlushFails
  <2>1. /\ op = "flush" /\ op' \in {"idle", "flush"} /\ Len(queue) \in Nat \ {0}
        /\ FlushItem \in Queued /\ FlushItem = queue[1] /\ 1 \in 1..Len(queue)
        /\ Len(queue') = Len(queue) - 1
    BY <1>5, FlushedEffect
  <2>2. FlushItem.target \notin Deferred /\ work = disk /\ work' = disk'
    BY <1>5, <2>1 DEF InPlace, Flush, FlushFails
  <2>3. \A u \in Target, k \in Key :
          \/ /\ disk'[u][k] = disk[u][k]
             /\ <<u, k>> \notin missed' => <<u, k>> \notin missed
             /\ u = FlushItem.target /\ k = FlushItem.key => <<u, k>> \in missed'
          \/ u = FlushItem.target /\ k = FlushItem.key /\ disk'[u][k] = FlushItem.value
    BY <1>5 DEF Flush, FlushFails, TypeOK
  <2>4. \A u \in Target \cap Deferred, k \in Key : disk'[u][k] = disk[u][k]
    BY <2>2, <2>3
  <2>5. ASSUME NEW a \in Authority, NEW k \in Key, NEW u \in Dependents \ Deferred
        PROVE  Follows(a, u, k)'
    <3>1. Follows(a, u, k) /\ ~ Pending(u, k) /\ a \in Target \cap Deferred /\ u \in Target
      BY <2>1, <2>5, RolesPartition DEF InStepByNow, Pending, Busy
    <3>2. /\ ~ Waiting(u, k)' =>
                \/ ~ Waiting(u, k)
                \/ u = FlushItem.target /\ k = FlushItem.key /\ LastFor(u, k, 1)
          /\ \A i \in 1..Len(queue') : LastFor(u, k, i)' =>
                i + 1 \in 1..Len(queue) /\ queue'[i] = queue[i + 1] /\ LastFor(u, k, i + 1)
      BY <1>5, FlushedWaiting
    <3>3. work'[a][k] = work[a][k] /\ disk'[a][k] = disk[a][k] /\ disk[a][k] = work[a][k]
      BY <2>2, <2>4, <3>1
    <3>4. \A i \in 1..Len(queue') : LastFor(u, k, i)' => queue'[i].value = work'[a][k]
      BY <2>1, <3>1, <3>2, <3>3 DEF Follows
    <3>5. op' = "idle" => ~ Waiting(u, k)'
      BY <1>5, <2>1 DEF Flush, FlushFails, Flushed, Waiting
    <3>6. ~ Waiting(u, k)' /\ <<u, k>> \notin missed' => disk'[u][k] = disk'[a][k]
      <4> SUFFICES ASSUME ~ Waiting(u, k)', <<u, k>> \notin missed'
                   PROVE  disk'[u][k] = disk[a][k]
        BY <3>3
      <4>1. CASE u = FlushItem.target /\ k = FlushItem.key
        <5>1. disk'[u][k] = FlushItem.value
          BY <2>3, <3>1, <4>1
        <5>2. LastFor(u, k, 1)
          BY <2>1, <3>2, <4>1 DEF Waiting, For
        <5>3. queue[1].value = work[a][k]
          BY <2>1, <3>1, <5>2 DEF Follows
        <5> QED
          BY <2>1, <3>3, <5>1, <5>3
      <4>2. CASE ~ (u = FlushItem.target /\ k = FlushItem.key)
        <5>1. disk'[u][k] = disk[u][k] /\ <<u, k>> \notin missed
          BY <2>3, <3>1, <4>2
        <5>2. ~ Waiting(u, k)
          BY <3>2, <4>2
        <5> QED
          BY <2>1, <3>1, <5>1, <5>2 DEF Follows
      <4> QED
        BY <4>1, <4>2
    <3> QED
      BY <2>1, <2>2, <3>3, <3>4, <3>5, <3>6 DEF Follows
  <2>6. ASSUME NEW a \in Authority, NEW k \in Key,
               NEW u \in Dependents \cap Deferred \cap Required
        PROVE  Joins(a, u, k)'
    BY <2>2, <2>4, <2>6, RolesPartition DEF InStepByNow, Joins
  <2>7. Reached'
    BY <2>1 DEF Reached, Busy
  <2> QED
    BY <2>5, <2>6, <2>7 DEF InStepByNow
<1>6. CASE UNCHANGED vars
  <2>1. UNCHANGED <<disk, work, queue, op, key, id, todo, missed>>
    BY <1>6 DEF vars, call
  <2>2. Reached'
    BY <2>1 DEF InStepByNow, Reached, Value
  <2>3. ASSUME NEW a \in Authority, NEW k \in Key, NEW u \in Dependents
        PROVE  (Follows(a, u, k)' <=> Follows(a, u, k)) /\ (Joins(a, u, k)' <=> Joins(a, u, k))
    BY <2>1 DEF Follows, Joins, Pending, Waiting, LastFor, For
  <2> QED
    BY <2>2, <2>3 DEF InStepByNow
<1> QED
  BY <1>1, <1>2, <1>3, <1>4, <1>5, <1>6, TargetSteps DEF Next

\* For every composition whose authority joins the caller's transaction, whatever was
\* rolled back, refused, failed, flushed or crashed: between transactions a dependent
\* (queued by DependentSyncs or in the transaction itself) holds what the authority
\* holds, but for the syncs a failed flush or a crash lost.
THEOREM StaysInStep ==
    ASSUME Authority \subseteq Deferred
    PROVE  Spec => []InStep
<1>1. Init => InStepByNow
  <2> SUFFICES ASSUME Init PROVE InStepByNow
    OBVIOUS
  <2>1. \A t \in Target, k \in Key : disk[t][k] = Absent /\ work[t][k] = Absent
    BY DEF Init, Nothing
  <2>2. op = "idle" /\ queue = <<>>
    BY DEF Init
  <2> QED
    BY <2>1, <2>2, RolesPartition DEF InStepByNow, Reached, Follows, Joins, Busy
<1>2. Course /\ InStepByNow /\ [Next]_vars => InStepByNow'
  BY NextInStep
<1>3. Course /\ InStepByNow => InStep
  BY DEF InStepByNow, InStep, Course, SyncedBetweenTransactions, Follows, Joins
<1> QED
  BY <1>1, <1>2, <1>3, StaysInCourse, PTL DEF Spec
=============================================================================
