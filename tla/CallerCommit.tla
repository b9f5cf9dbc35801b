---------------------------- MODULE CallerCommit ----------------------------
(***************************************************************************)
(* A record written inside a transaction the caller owns.                  *)
(*                                                                         *)
(* When a target the record is committed to joins the caller's transaction *)
(* (an SQL adapter with autocommit off), the commit point is the caller's  *)
(* commit.  Targets that join it are written in the transaction; the other *)
(* targets before the commit point are written at once; what follows the   *)
(* commit point on a medium that is durable at once is queued by           *)
(* DependentSyncs until flush_index_syncs, or dropped by                   *)
(* discard_index_syncs.  The caller follows the README: operations, commit,*)
(* flush; on an error roll back and discard.  The process may die anywhere.*)
(***************************************************************************)
EXTENDS Topology, Sequences, FiniteSets

CONSTANTS
    Key,
    Deferred,      \* targets whose writes join the caller's transaction
    MaxId,         \* bound: values written in a behaviour
    MaxOps,        \* bound: operations of a transaction
    MaxFails       \* bound: calls that raise

Absent == 0
Val == 0..MaxId

ASSUME CommitAssumption ==
    /\ Deferred \subseteq Target
    /\ Deferred \cap Committing # {}
    /\ MaxId \in Nat /\ MaxOps \in Nat /\ MaxFails \in Nat

VARIABLES
    disk,       \* what each target holds durably
    work,       \* the same as the caller's transaction sees it
    queue,      \* DependentSyncs._queue: what waits for the commit
    op,         \* what the caller is doing
    key,        \* the key its operation is about
    id,         \* the value its operation writes
    todo,       \* the targets the operation has yet to visit
    touched,    \* the keys the open transaction has changed
    count,      \* the operations it has made
    nextId,
    fails,
    wrote,      \* history: the values the open transaction gave the record
    committed,  \* history: those of every transaction that was committed
    missed,     \* history: the syncs lost to a crash or a failed flush
    redone      \* history: the keys some transaction changed more than once

call == <<key, id>>
txn == <<touched, count, redone>>
vars == <<disk, work, queue, op, call, todo, txn, nextId, fails, wrote, committed, missed>>

Phases == {"idle", "write", "insert", "delete", "failed", "flush"}
Queued == [target : Target, key : Key, value : Val]

\* The types of the state: the media, the caller's transaction and the queued syncs.
TypeOK ==
    /\ disk \in [Target -> [Key -> Val]]
    /\ work \in [Target -> [Key -> Val]]
    /\ queue \in Seq(Queued)
    /\ op \in Phases
    /\ key \in Key /\ id \in Val
    /\ todo \in SUBSET Target
    /\ touched \in SUBSET Key /\ count \in Nat
    /\ nextId \in Nat /\ fails \in Nat
    /\ wrote \in [Key -> SUBSET Val] /\ committed \in [Key -> SUBSET Val]
    /\ missed \in SUBSET (Target \X Key)
    /\ redone \in SUBSET Key

Nothing == [t \in Target |-> [k \in Key |-> Absent]]

Init ==
    /\ disk = Nothing /\ work = Nothing
    /\ queue = <<>>
    /\ op = "idle" /\ key \in Key /\ id = Absent /\ todo = {}
    /\ touched = {} /\ count = 0
    /\ nextId = 1 /\ fails = 0
    /\ wrote = [k \in Key |-> {}] /\ committed = [k \in Key |-> {Absent}]
    /\ missed = {} /\ redone = {}

-----------------------------------------------------------------------------
\* A call to t now: in the transaction if it joins it, durable otherwise.  What the
\* targets hold that a delete removes on the spot is what the record is.
Put(t, v) ==
    /\ work' = [work EXCEPT ![t][key] = v]
    /\ disk' = IF t \in Deferred THEN disk ELSE [disk EXCEPT ![t][key] = v]
    /\ wrote' = IF t \in RemovedNow THEN [wrote EXCEPT ![key] = @ \cup {v}] ELSE wrote

\* Variants with an error: components, or dependents, changed at once.
SyncComponentsNow(t, v) ==
    IF t \in Deferred \cup Components THEN Put(t, v) /\ UNCHANGED queue
    ELSE /\ queue' = Append(queue, [target |-> t, key |-> key, value |-> v])
         /\ UNCHANGED <<disk, work, wrote>>

SyncDependentsNow(t, v) ==
    IF t \in Deferred \cup Dependents THEN Put(t, v) /\ UNCHANGED queue
    ELSE /\ queue' = Append(queue, [target |-> t, key |-> key, value |-> v])
         /\ UNCHANGED <<disk, work, wrote>>

\* _sync_one: what joins the commit runs now, the rest waits for it.
SyncOne(t, v) ==
    IF t \in Deferred THEN Put(t, v) /\ UNCHANGED queue
    ELSE /\ queue' = Append(queue, [target |-> t, key |-> key, value |-> v])
         /\ UNCHANGED <<disk, work, wrote>>

Continue(rest) ==
    /\ todo' = rest
    /\ op' = IF rest = {} THEN "idle" ELSE op

Begin(what, k, targets) ==
    /\ op = "idle" /\ count < MaxOps
    /\ op' = what /\ key' = k /\ todo' = targets
    /\ touched' = touched \cup {k}
    /\ count' = count + 1
    /\ redone' = redone \cup (touched \cap {k})

NewValue ==
    /\ nextId <= MaxId
    /\ id' = nextId
    /\ nextId' = nextId + 1

StartWrite(k) ==
    /\ Begin("write", k, Written)
    /\ NewValue
    /\ UNCHANGED <<disk, work, queue, fails, wrote, committed, missed>>

StartInsert(k) ==
    /\ Authority # {}
    /\ Begin("insert", k, Written)
    /\ NewValue
    /\ UNCHANGED <<disk, work, queue, fails, wrote, committed, missed>>

StartDelete(k) ==
    /\ Begin("delete", k, RemovedNow \cup RemovedAfterCommit)
    /\ UNCHANGED <<disk, work, queue, id, nextId, fails, wrote, committed, missed>>

\* set and set_if_absent, whose authority refuses where it holds something.
WriteTarget ==
    /\ op \in {"write", "insert"}
    /\ \E t \in First(todo, CommitRank) :
         IF op = "insert" /\ t \in Authority /\ work[t][key] # Absent
         THEN Continue({}) /\ UNCHANGED <<disk, work, queue, wrote>>
         ELSE /\ Continue(todo \ {t})
              /\ IF t \in Committing THEN Put(t, id) /\ UNCHANGED queue
                 ELSE SyncOne(t, id)
    /\ UNCHANGED <<call, txn, nextId, fails, committed, missed>>

DeleteTarget ==
    /\ op = "delete"
    /\ \E t \in First(todo, RemovalRank) :
         /\ Continue(todo \ {t})
         /\ IF t \in RemovedNow THEN Put(t, Absent) /\ UNCHANGED queue
            ELSE SyncOne(t, Absent)
    /\ UNCHANGED <<call, txn, nextId, fails, committed, missed>>

(***************************************************************************)
(* A call made now raises, with or without effect.  A best-effort          *)
(* dependent's is logged; any other is before the commit point             *)
(* (_committing, or _settle with before_commit), and the caller rolls back.*)
(***************************************************************************)
CallFails ==
    /\ op \in {"write", "insert", "delete"}
    /\ fails < MaxFails /\ fails' = fails + 1
    /\ \E t \in First(todo, IF op = "delete" THEN RemovalRank ELSE CommitRank) :
         /\ t \in Deferred \cup (IF op = "delete" THEN RemovedNow ELSE Committing)
         /\ \/ UNCHANGED <<disk, work, wrote>>
            \/ Put(t, IF op = "delete" THEN Absent ELSE id)
         /\ IF t \in Dependents \ Required THEN Continue(todo \ {t})
            ELSE op' = "failed" /\ todo' = {}
    /\ UNCHANGED <<queue, call, txn, nextId, committed, missed>>

-----------------------------------------------------------------------------
\* The caller's commit makes the transaction durable; then it flushes.
Commit ==
    /\ op = "idle" /\ touched # {}
    /\ disk' = [t \in Target |-> IF t \in Deferred THEN work[t] ELSE disk[t]]
    /\ committed' = [k \in Key |-> committed[k] \cup wrote[k]]
    /\ wrote' = [k \in Key |-> {}]
    /\ op' = IF queue = <<>> THEN "idle" ELSE "flush"
    /\ touched' = {} /\ count' = 0
    /\ UNCHANGED <<work, queue, call, todo, redone, nextId, fails, missed>>

\* discard_index_syncs: what rolling back leaves in the queue.
Discarded == <<>>

Rollback ==
    /\ op \in {"idle", "failed"} /\ touched # {}
    /\ work' = disk
    /\ queue' = Discarded
    /\ op' = "idle" /\ touched' = {} /\ count' = 0
    /\ wrote' = [k \in Key |-> {}]
    /\ UNCHANGED <<disk, call, todo, redone, nextId, fails, committed, missed>>

\* DependentSyncs.flush runs the queue in order, past failures, and clears it.
FlushItem == Head(queue)
Flushed ==
    /\ queue' = Tail(queue)
    /\ op' = IF Len(queue) = 1 THEN "idle" ELSE "flush"

Flush ==
    /\ op = "flush"
    /\ LET item == FlushItem
       IN /\ disk' = [disk EXCEPT ![item.target][item.key] = item.value]
          /\ work' = [work EXCEPT ![item.target][item.key] = item.value]
          /\ missed' = missed \ {<<item.target, item.key>>}
    /\ Flushed
    /\ UNCHANGED <<call, todo, txn, nextId, fails, wrote, committed>>

\* A variant that stops at the first failure, clearing the queue.
FlushStops ==
    /\ op = "flush"
    /\ fails < MaxFails /\ fails' = fails + 1
    /\ missed' = missed \cup {<<FlushItem.target, FlushItem.key>>}
    /\ queue' = <<>> /\ op' = "idle"
    /\ UNCHANGED <<disk, work, call, todo, txn, nextId, wrote, committed>>

FlushFails ==
    /\ op = "flush"
    /\ fails < MaxFails /\ fails' = fails + 1
    /\ missed' = missed \cup {<<FlushItem.target, FlushItem.key>>}
    /\ Flushed
    /\ UNCHANGED <<disk, work, call, todo, txn, nextId, wrote, committed>>

\* The process dies: its transaction and its queue are gone.
Crash ==
    /\ op # "idle" \/ touched # {}
    /\ work' = disk
    /\ queue' = <<>>
    /\ op' = "idle" /\ todo' = {} /\ touched' = {} /\ count' = 0
    /\ wrote' = [k \in Key |-> {}]
    /\ missed' = IF op # "flush" THEN missed
                 ELSE missed \cup {<<queue[i].target, queue[i].key>> : i \in 1..Len(queue)}
    /\ UNCHANGED <<disk, call, redone, nextId, fails, committed>>

Next ==
    \/ \E k \in Key : StartWrite(k) \/ StartInsert(k) \/ StartDelete(k)
    \/ WriteTarget \/ DeleteTarget \/ CallFails
    \/ Commit \/ Rollback \/ Flush \/ FlushFails \/ Crash

Spec == Init /\ [][Next]_vars

-----------------------------------------------------------------------------
(***************************************************************************)
(* Properties.                                                             *)
(***************************************************************************)

\* Law 1 with the caller's commit as the commit point: a copy or an index on a
\* medium of its own never shows a value but one of a transaction that was
\* committed, whatever was rolled back, refused, failed or crashed.
DerivedOnlyFromCommits ==
    \A t \in Dependents \ Deferred, k \in Key : disk[t][k] \in committed[k]

\* Law 12: "A rollback therefore never leaves a record whose body is already
\* gone": whatever is rolled back, refused, failed or crashed, a durable entry
\* of the authority has every component it refers to, for the keys that no
\* transaction changed more than once.
CommittedRecordKeepsItsBody ==
    \A a \in Authority, t \in Components, k \in Key \ redone :
        disk[a][k] # Absent => disk[t][k] # Absent

\* Between transactions every dependent holds what the authority holds, but for
\* the syncs a crash or a failed flush lost (which are never retried).
SyncedBetweenTransactions ==
    op = "idle" /\ touched = {} =>
        \A a \in Authority, t \in Dependents \ (Deferred \ Required), k \in Key :
            <<t, k>> \notin missed => disk[t][k] = disk[a][k]

\* Between transactions the dependents are in step with the authority, but for syncs
\* lost to a failed flush or a crash, in every well-typed state (DependentSyncs).
InStep == TypeOK /\ SyncedBetweenTransactions
=============================================================================
