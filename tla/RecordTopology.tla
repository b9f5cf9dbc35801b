--------------------------- MODULE RecordTopology ---------------------------
(***************************************************************************)
(* The operations of keymap_algebra/topology.py, run by concurrent callers *)
(* over media that may fail.                                               *)
(*                                                                         *)
(* A call to one target is one step: nothing orders two callers' calls, so *)
(* they interleave between any two targets.  A caller may crash between    *)
(* two calls.  Every write carries a fresh identifier, which stands for    *)
(* the value and for the medium's version of it; a target holds, per key,  *)
(* the identifier of the write whose part it has, or Absent.               *)
(***************************************************************************)
EXTENDS Topology

CONSTANTS
    Client,        \* callers
    Key,
    Ops,           \* the operations each caller issues
    Optional,      \* parts a written record may leave None
    Exclusive,     \* callers take turns: one mutation of a key at a time
    PartialCalls,  \* a call that raises may have taken effect on some keys
    MaxId,         \* bound: identifiers, so writes, of a behaviour
    MaxFails       \* bound: calls that raise

Absent == 0
Old == 1           \* the value a fallback may hold from the start
Val == 0..MaxId
OpNames == {"write", "delete", "insert", "update", "get"}

ASSUME BoundsAssumption ==
    /\ MaxId \in Nat /\ MaxId >= Old
    /\ MaxFails \in Nat
    /\ Exclusive \in BOOLEAN /\ PartialCalls \in BOOLEAN
    /\ Ops \in [Client -> SUBSET OpNames]
    /\ Optional \subseteq (Components \cup (Dependents \cap Parts))

VARIABLES
    held,     \* held[t][k]: what target t holds for key k
    op,       \* what a caller is doing
    did,      \* the operation it last began
    keys,     \* the keys its call is about
    id,       \* the write it makes, or the value it is filling
    todo,     \* the targets its traversal has yet to visit
    slot,     \* what its write is to each target: "put", "none" or "same"
    puts,     \* the keys a conditional write puts; it removes the others
    seen,     \* the versions a conditional write is made against
    won,      \* the keys its authority accepted
    got,      \* what a read of an assembled record found in each part
    out,      \* how its last call ended
    nextId,   \* the next fresh identifier
    fails,    \* calls that have raised
    last,     \* history: the last value committed, Absent once deleted
    past,     \* history: every value the record was ever committed with
    owner     \* history: the caller that last began to change the key

call == <<did, keys, id, slot, won>>
history == <<last, past, owner>>
vars == <<held, op, call, todo, puts, seen, got, out, nextId, fails, history>>

Busy == {"write", "delete", "decide", "cond", "condDelete", "condSet",
         "get", "fill", "assemble"}
Mutating == Busy \ {"get", "fill", "assemble"}
Outcomes == {"none", "ok", "uncommitted", "partial", "error", "crashed"}

\* The types of the state: what each target holds and what each call has still to do.
TypeOK ==
    /\ held \in [Target -> [Key -> Val]]
    /\ op \in [Client -> Busy \cup {"idle"}]
    /\ did \in [Client -> OpNames]
    /\ keys \in [Client -> SUBSET Key]
    /\ id \in [Client -> Val]
    /\ todo \in [Client -> SUBSET Target]
    /\ slot \in [Client -> [Target -> {"put", "none", "same"}]]
    /\ puts \in [Client -> SUBSET Key]
    /\ seen \in [Client -> [Key -> Val]]
    /\ won \in [Client -> SUBSET Key]
    /\ got \in [Client -> [Target -> Val]]
    /\ out \in [Client -> Outcomes]
    /\ nextId \in Nat
    /\ fails \in Nat
    /\ last \in [Key -> Val]
    /\ past \in [Key -> SUBSET Val]
    /\ owner \in [Key -> Client]

\* Nothing is stored but what a fallback was given before.
Init ==
    /\ held \in {h \in [Target -> [Key -> {Absent, Old}]] :
                   \A t \in Target \ Fallbacks : \A k \in Key : h[t][k] = Absent}
    /\ op = [c \in Client |-> "idle"]
    /\ did = [c \in Client |-> "get"]
    /\ keys = [c \in Client |-> {}]
    /\ id = [c \in Client |-> Absent]
    /\ todo = [c \in Client |-> {}]
    /\ slot = [c \in Client |-> [t \in Target |-> "put"]]
    /\ puts = [c \in Client |-> {}]
    /\ seen = [c \in Client |-> [k \in Key |-> Absent]]
    /\ won = [c \in Client |-> {}]
    /\ got = [c \in Client |-> [t \in Target |-> Absent]]
    /\ out = [c \in Client |-> "none"]
    /\ nextId = Old + 1
    /\ fails = 0
    /\ last = [k \in Key |-> Absent]
    /\ past = [k \in Key |-> {Absent}]
    /\ owner \in [Key -> Client]

-----------------------------------------------------------------------------
(***************************************************************************)
(* Steps every operation is made of.                                       *)
(***************************************************************************)

\* One call to the medium of t: it holds v for the keys K.
Store(t, K, v) ==
    held' = [held EXCEPT ![t] = [k \in Key |-> IF k \in K THEN v ELSE @[k]]]

\* History of it: what the authority holds is what is committed.
Record(t, K, v) ==
    /\ last' = [k \in Key |-> IF t \in Authority /\ k \in K THEN v ELSE last[k]]
    /\ past' = [k \in Key |-> IF t \in Authority /\ k \in K THEN past[k] \cup {v}
                              ELSE past[k]]
    /\ UNCHANGED owner

\* With no authority the record is committed once its last component is.
RecordParts(rest, K, v) ==
    /\ past' = [k \in Key |-> IF rest \cap Committing = {} /\ k \in K
                              THEN past[k] \cup {v} ELSE past[k]]
    /\ UNCHANGED <<last, owner>>

\* The call returns, or the traversal goes on to the targets of rest.
Finish(c, outcome) ==
    /\ op' = [op EXCEPT ![c] = "idle"]
    /\ todo' = [todo EXCEPT ![c] = {}]
    /\ puts' = [puts EXCEPT ![c] = {}]
    /\ seen' = [seen EXCEPT ![c] = [k \in Key |-> Absent]]
    /\ out' = [out EXCEPT ![c] = outcome]

Continue(c, what, rest) ==
    IF rest = {} THEN Finish(c, "ok")
    ELSE /\ op' = [op EXCEPT ![c] = what]
         /\ todo' = [todo EXCEPT ![c] = rest]
         /\ UNCHANGED <<puts, seen, out>>

Begin(c, name, what, K, targets) ==
    /\ name \in Ops[c]
    /\ op[c] = "idle"
    /\ K # {}
    /\ op' = [op EXCEPT ![c] = what]
    /\ did' = [did EXCEPT ![c] = name]
    /\ keys' = [keys EXCEPT ![c] = K]
    /\ todo' = [todo EXCEPT ![c] = targets]
    /\ won' = [won EXCEPT ![c] = {}]
    /\ got' = [got EXCEPT ![c] = [t \in Target |-> Absent]]
    /\ out' = [out EXCEPT ![c] = "none"]

\* A mutation of K begins; Exclusive callers wait for one another.
Own(c, K) ==
    /\ Exclusive => \A d \in Client : op[d] \in Mutating => keys[d] \cap K = {}
    /\ owner' = [k \in Key |-> IF k \in K THEN c ELSE owner[k]]
    /\ UNCHANGED <<last, past>>

\* A variant that hands out identifiers past the last one.
NewValueUnbounded(c) ==
    /\ nextId' = nextId
    /\ id' = [id EXCEPT ![c] = nextId + MaxId]
    /\ slot' = [slot EXCEPT ![c] = [t \in Target |-> "put"]]

\* A fresh value, some of whose optional parts are None.
NewValue(c) ==
    /\ nextId <= MaxId
    /\ nextId' = nextId + 1
    /\ id' = [id EXCEPT ![c] = nextId]
    /\ \E none \in SUBSET Optional :
         slot' = [slot EXCEPT ![c] =
                    [t \in Target |-> IF t \in none THEN "none" ELSE "put"]]

SlotValue(c, t) == IF slot[c][t] = "none" THEN Absent ELSE id[c]

\* A call raises: nothing happened, or it took effect on some of its keys.
Raise(t, K, v) ==
    /\ fails < MaxFails
    /\ fails' = fails + 1
    /\ \E S \in IF PartialCalls THEN SUBSET K ELSE {{}} :
         Store(t, S, v) /\ Record(t, S, v)

(***************************************************************************)
(* _settle: what a failure after the authority's write means.  Best effort *)
(* is logged and the traversal goes on; a required one ends the call.      *)
(***************************************************************************)
\* A variant that tolerates every failure, required or not.
SettleQuietly(c, t, rest) == Continue(c, op[c], rest)

Settle(c, t, rest) ==
    IF t \in Dependents \ Required THEN Continue(c, op[c], rest)
    ELSE Finish(c, "partial")

-----------------------------------------------------------------------------
(***************************************************************************)
(* set, batch_set: components, then the authority, then dependents.        *)
(***************************************************************************)
StartWrite(c, K) ==
    /\ Begin(c, "write", "write", K, Written)
    /\ Own(c, K)
    /\ NewValue(c)
    /\ UNCHANGED <<held, puts, seen, fails>>

WriteTarget(c) ==
    /\ op[c] = "write"
    /\ \E t \in First(todo[c], CommitRank) :
         /\ Store(t, keys[c], SlotValue(c, t))
         /\ IF Authority = {} /\ t \in Components
            THEN RecordParts(todo[c] \ {t}, keys[c], id[c])
            ELSE Record(t, keys[c], id[c])
         /\ Continue(c, "write", todo[c] \ {t})
    /\ UNCHANGED <<call, got, nextId, fails>>

\* _committing: a failure on or before the commit point is uncommitted.
WriteFails(c) ==
    /\ op[c] = "write"
    /\ \E t \in First(todo[c], CommitRank) :
         /\ Raise(t, keys[c], SlotValue(c, t))
         /\ IF t \in Committing THEN Finish(c, "uncommitted")
            ELSE Settle(c, t, todo[c] \ {t})
    /\ UNCHANGED <<call, got, nextId>>

-----------------------------------------------------------------------------
(***************************************************************************)
(* delete, batch_delete: the authority, then everything else.              *)
(***************************************************************************)
StartDelete(c, K) ==
    /\ Begin(c, "delete", "delete", K, RemovedNow \cup RemovedAfterCommit)
    /\ Own(c, K)
    /\ UNCHANGED <<held, id, slot, puts, seen, nextId, fails>>

DeleteTarget(c) ==
    /\ op[c] = "delete"
    /\ \E t \in First(todo[c], RemovalRank) :
         /\ Store(t, keys[c], Absent)
         /\ Record(t, keys[c], Absent)
         /\ Continue(c, "delete", todo[c] \ {t})
    /\ UNCHANGED <<call, got, nextId, fails>>

\* On or before the commit point the error is the medium's own.
DeleteFails(c) ==
    /\ op[c] = "delete"
    /\ \E t \in First(todo[c], RemovalRank) :
         /\ Raise(t, keys[c], Absent)
         /\ IF t \in RemovedNow THEN Finish(c, "error")
            ELSE Settle(c, t, todo[c] \ {t})
    /\ UNCHANGED <<call, got, nextId>>

-----------------------------------------------------------------------------
(***************************************************************************)
(* The conditional write (batch_read_versioned, batch_write_if_unchanged): *)
(* set_if_absent makes it against nothing stored, update against the       *)
(* versions it read.  Components whose part changed come first, then the   *)
(* authority, which decides per key; then the removals that follow the     *)
(* commit point, then the dependents whose part changed.                   *)
(***************************************************************************)

\* _changed: all of an insert; of a replace, where the part differs.
Changed(c, t, K) == {k \in K : seen[c][k] = Absent \/ slot[c][t] # "same"}

\* set_if_absent needs a target that decides existence.
StartInsert(c, K) ==
    /\ Authority # {}
    /\ Begin(c, "insert", "cond", K, Committing)
    /\ Own(c, K)
    /\ NewValue(c)
    /\ puts' = [puts EXCEPT ![c] = K]
    /\ UNCHANGED <<held, seen, fails>>

\* update, first half: the authority's versions; a cache is not asked.
StartUpdate(c, K) ==
    /\ Begin(c, "update", "decide", K, {})
    /\ Own(c, K)
    /\ \E t \in Authority : seen' = [seen EXCEPT ![c] = held[t]]
    /\ UNCHANGED <<held, id, slot, puts, nextId, fails>>

(***************************************************************************)
(* What decide returned: Put for P, Remove for the stored keys R, Keep for *)
(* the rest.  A component whose part a replace would change is refused     *)
(* before anything is written, so here components change for inserts only. *)
(***************************************************************************)
Decide(c, P, R) ==
    /\ op[c] = "decide"
    /\ P \cap R = {} /\ P \cup R # {}
    /\ \A k \in R : seen[c][k] # Absent
    /\ nextId <= MaxId
    /\ nextId' = nextId + 1
    /\ id' = [id EXCEPT ![c] = nextId]
    /\ keys' = [keys EXCEPT ![c] = P \cup R]
    /\ puts' = [puts EXCEPT ![c] = P]
    /\ \E same \in SUBSET (Dependents \cap Parts) :
         slot' = [slot EXCEPT ![c] = [t \in Target |->
                    IF t \in same \cup Components THEN "same" ELSE "put"]]
    /\ op' = [op EXCEPT ![c] = "cond"]
    /\ todo' = [todo EXCEPT ![c] = Authority \cup
                  {t \in Components : \E k \in P : seen[c][k] = Absent}]
    /\ UNCHANGED <<held, did, seen, won, got, out, fails, history>>

\* decide kept every key, or a changed component was refused.
DecideNothing(c) ==
    /\ op[c] = "decide"
    /\ \/ Finish(c, "ok")
       \/ /\ Components # {} /\ \E k \in keys[c] : seen[c][k] # Absent
          /\ Finish(c, "error")
    /\ UNCHANGED <<held, call, got, nextId, fails, history>>

CondComponent(c) ==
    /\ op[c] = "cond"
    /\ \E t \in First(todo[c], CommitRank) \cap Components :
         /\ Store(t, Changed(c, t, puts[c]), SlotValue(c, t))
         /\ Continue(c, "cond", todo[c] \ {t})
    /\ UNCHANGED <<call, got, nextId, fails, history>>

\* The removals the authority's answer calls for, then the dependents.
AfterCommit(c, W) ==
    IF W \ puts[c] # {} /\ RemovedAfterCommit # {}
    THEN Continue(c, "condDelete", RemovedAfterCommit)
    ELSE Continue(c, "condSet",
           {t \in Dependents : Changed(c, t, W \cap puts[c]) # {}})

\* The medium's own test, made with the write: is the entry still as seen?
StillSeen(c, t) == {k \in keys[c] : held[t][k] = seen[c][k]}

\* The authority makes the changes of the keys W.
Apply(c, t, W) ==
    LET new == [k \in Key |-> IF k \notin W THEN held[t][k]
                              ELSE IF k \in puts[c] THEN id[c] ELSE Absent]
    IN /\ held' = [held EXCEPT ![t] = new]
       /\ last' = [k \in Key |-> IF k \in W THEN new[k] ELSE last[k]]
       /\ past' = [k \in Key |-> IF k \in W THEN past[k] \cup {new[k]} ELSE past[k]]
       /\ UNCHANGED owner

CondAuthority(c) ==
    /\ op[c] = "cond"
    /\ \E t \in First(todo[c], CommitRank) \cap Authority :
         LET W == StillSeen(c, t)
         IN /\ Apply(c, t, W)
            /\ won' = [won EXCEPT ![c] = W]
            /\ AfterCommit(c, W)
    /\ UNCHANGED <<did, keys, id, slot, got, nextId, fails>>

\* Components and the authority fail on or before the commit point.
CondFails(c) ==
    /\ op[c] = "cond"
    /\ \E t \in First(todo[c], CommitRank) :
         \/ /\ t \in Components
            /\ Raise(t, Changed(c, t, puts[c]), SlotValue(c, t))
         \/ /\ t \in Authority
            /\ fails < MaxFails /\ fails' = fails + 1
            /\ \E W \in IF PartialCalls THEN SUBSET StillSeen(c, t) ELSE {{}} :
                 Apply(c, t, W)
    /\ Finish(c, "uncommitted")
    /\ UNCHANGED <<call, got, nextId>>

CondDelete(c) ==
    /\ op[c] = "condDelete"
    /\ \E t \in First(todo[c], RemovalRank) :
         /\ Store(t, won[c] \ puts[c], Absent)
         /\ IF todo[c] = {t} THEN AfterCommit(c, won[c] \cap puts[c])
            ELSE Continue(c, "condDelete", todo[c] \ {t})
    /\ UNCHANGED <<call, got, nextId, fails, history>>

\* A variant that syncs every put, accepted by the authority or refused.
CondSetRefused(c) ==
    /\ op[c] = "condSet"
    /\ \E t \in First(todo[c], CommitRank) :
         /\ Store(t, Changed(c, t, puts[c]), SlotValue(c, t))
         /\ Continue(c, "condSet", todo[c] \ {t})
    /\ UNCHANGED <<call, got, nextId, fails, history>>

CondSet(c) ==
    /\ op[c] = "condSet"
    /\ \E t \in First(todo[c], CommitRank) :
         /\ Store(t, Changed(c, t, won[c] \cap puts[c]), SlotValue(c, t))
         /\ Continue(c, "condSet", todo[c] \ {t})
    /\ UNCHANGED <<call, got, nextId, fails, history>>

CondSyncFails(c) ==
    /\ \/ /\ op[c] = "condDelete"
          /\ \E t \in First(todo[c], RemovalRank) :
               /\ Raise(t, won[c] \ puts[c], Absent)
               /\ IF todo[c] = {t} /\ t \in Dependents \ Required
                  THEN AfterCommit(c, won[c] \cap puts[c])
                  ELSE Settle(c, t, todo[c] \ {t})
       \/ /\ op[c] = "condSet"
          /\ \E t \in First(todo[c], CommitRank) :
               /\ Raise(t, Changed(c, t, won[c] \cap puts[c]), SlotValue(c, t))
               /\ Settle(c, t, todo[c] \ {t})
    /\ UNCHANGED <<call, got, nextId>>

-----------------------------------------------------------------------------
(***************************************************************************)
(* get of a whole record: the first target in lookup order that holds the  *)
(* key, then a fill of those it passed that ask for one.                   *)
(***************************************************************************)
StartGet(c, k) ==
    /\ Begin(c, "get", IF Assembled THEN "assemble" ELSE "get", {k},
             IF Assembled THEN Parts \cup Authority ELSE Consulted)
    /\ id' = [id EXCEPT ![c] = Absent]
    /\ UNCHANGED <<held, slot, puts, seen, nextId, fails, history>>

ReadTarget(c) ==
    /\ op[c] = "get"
    /\ \E t \in First(todo[c], LookupRank), k \in keys[c] :
         LET v == held[t][k]
         IN IF v = Absent
            THEN UNCHANGED id /\ Continue(c, "get", todo[c] \ {t})
            ELSE /\ id' = [id EXCEPT ![c] = v]
                 /\ Continue(c, "fill", Fillable(t, Consulted \ todo[c]))
    /\ UNCHANGED <<held, did, keys, slot, won, got, nextId, fails, history>>

\* A variant whose fill replaces what was written since the miss.
MissingOnce(c, t) == keys[c]

\* A fill is a conditional insert: a value written since the miss is kept.
Missing(c, t) == {k \in keys[c] : held[t][k] = Absent}

FillTarget(c) ==
    /\ op[c] = "fill"
    /\ \E t \in First(todo[c], LookupRank) :
         /\ Store(t, Missing(c, t), id[c])
         /\ Continue(c, "fill", todo[c] \ {t})
    /\ UNCHANGED <<call, got, nextId, fails, history>>

\* A read that raises ends the call; a fill that raises is logged.
ReadFails(c) ==
    /\ op[c] \in {"get", "assemble"}
    /\ fails < MaxFails /\ fails' = fails + 1
    /\ Finish(c, "error")
    /\ UNCHANGED <<held, call, got, nextId, history>>

FillFails(c) ==
    /\ op[c] = "fill"
    /\ fails < MaxFails /\ fails' = fails + 1
    /\ \E t \in First(todo[c], LookupRank) : Continue(c, "fill", todo[c] \ {t})
    /\ UNCHANGED <<held, call, got, nextId, history>>

\* get of an assembled record: the authority, then the other parts.
AssemblePart(c) ==
    /\ op[c] = "assemble"
    /\ \E t \in First(todo[c], AssemblyRank), k \in keys[c] :
         /\ got' = [got EXCEPT ![c][t] = held[t][k]]
         /\ IF t \in Authority /\ held[t][k] = Absent THEN Finish(c, "ok")
            ELSE Continue(c, "assemble", todo[c] \ {t})
    /\ UNCHANGED <<held, call, nextId, fails, history>>

-----------------------------------------------------------------------------
\* The caller's process dies between two calls.
Crash(c) ==
    /\ op[c] # "idle"
    /\ Finish(c, "crashed")
    /\ UNCHANGED <<held, call, got, nextId, fails, history>>

\* The next target of a conditional write, and of a read, by what it is to the
\* record: which of the two steps it is depends on the composition alone.
CondTarget(c) == op[c] = "cond" /\ (CondComponent(c) \/ CondAuthority(c))
LookUp(c) == op[c] \in {"get", "assemble"} /\ (ReadTarget(c) \/ AssemblePart(c))

Step(c) ==
    \/ WriteTarget(c) \/ WriteFails(c)
    \/ DeleteTarget(c) \/ DeleteFails(c)
    \/ DecideNothing(c) \/ CondTarget(c) \/ CondFails(c)
    \/ CondDelete(c) \/ CondSet(c) \/ CondSyncFails(c)
    \/ LookUp(c) \/ FillTarget(c) \/ ReadFails(c) \/ FillFails(c)
    \/ \E P, R \in SUBSET keys[c] : Decide(c, P, R)

Start(c) ==
    \/ \E K \in SUBSET Key : \/ StartWrite(c, K) \/ StartDelete(c, K)
                             \/ StartInsert(c, K) \/ StartUpdate(c, K)
    \/ \E k \in Key : StartGet(c, k)

Next == \E c \in Client : Start(c) \/ Step(c) \/ Crash(c)

Spec == Init /\ [][Next]_vars

-----------------------------------------------------------------------------
(***************************************************************************)
(* Properties.                                                             *)
(***************************************************************************)

\* Where a value may come from without having been committed: a fallback.
FromFallback(k) == {held[t][k] : t \in Fallbacks}

\* Law 1, commit before derive (and law 7, downstream only): whatever races,
\* fails or crashes, a dependent -- a copy, a cache, an index -- never holds a
\* value the record was not committed with, unless a fallback holds it.
CommitBeforeDerive ==
    \A t \in Dependents, k \in Key : held[t][k] \in past[k] \cup FromFallback(k)

\* Laws 6 and 7: the authority holds the last value committed; reads change it
\* only by promoting a fallback's value where nothing is committed, so no fill
\* undoes a write and no stale copy is written back.
AuthorityIsLastCommit ==
    \A t \in Authority, k \in Key :
        \/ held[t][k] = last[k]
        \/ last[k] = Absent /\ held[t][k] \in FromFallback(k)

(***************************************************************************)
(* The inductive invariant behind the two properties above.  History: the  *)
(* last value committed is one of those ever committed.  A caller past the *)
(* commit point carries a committed value; a fill carries a committed      *)
(* value or a fallback's, and only a fallback's into the authority; and    *)
(* nobody is about to write a fallback.                                    *)
(***************************************************************************)
MediaOnCourse ==
    /\ CommitBeforeDerive
    /\ AuthorityIsLastCommit
    /\ \A k \in Key : last[k] \in past[k] /\ Absent \in past[k]

CallerOnCourse(c) ==
    /\ \A a \in Authority : slot[c][a] # "none"
    /\ op[c] \notin {"get", "assemble"} => todo[c] \cap Fallbacks = {}
    /\ op[c] = "write" =>
         /\ todo[c] \cap Components # {} => Authority \subseteq todo[c]
         /\ todo[c] \cap Committing = {} => \A k \in keys[c] : id[c] \in past[k]
    /\ op[c] \in {"condDelete", "condSet"} =>
         /\ todo[c] \cap Authority = {}
         /\ \A k \in won[c] \cap puts[c] : id[c] \in past[k]
    /\ op[c] = "get" => /\ todo[c] \subseteq Consulted
                        /\ \A k, l \in keys[c] : k = l
    /\ op[c] = "fill" => \A k \in keys[c] :
         /\ id[c] \in past[k] \cup FromFallback(k)
         /\ todo[c] \cap Authority # {} => id[c] \in FromFallback(k)

OnCourse == MediaOnCourse /\ \A c \in Client : CallerOnCourse(c)

\* Law 2, referent before reference: while callers take turns to change a key,
\* an entry of the authority has every component it refers to, whatever step a
\* writer crashed at or a medium failed at.
ReferentBeforeReference ==
    \A a \in Authority, t \in Components \ Optional, k \in Key :
        held[a][k] # Absent => held[t][k] # Absent

\* Law 8, failures carry their side of the commit point: a set that raised
\* UncommittedWriteError committed nothing, and one that raised
\* PartialSyncError, or returned, did commit.
OutcomeTellsTheCommit ==
    \A c \in Client : \A k \in keys[c] :
        op[c] = "idle" /\ did[c] = "write" =>
            /\ out[c] = "uncommitted" => id[c] \notin past[k]
            /\ out[c] \in {"ok", "partial"} => id[c] \in past[k]

\* The caller's last call was the last to change k, and it returned.
Settled(c, k, name) ==
    op[c] = "idle" /\ out[c] = "ok" /\ did[c] = name /\ k \in keys[c] /\ owner[k] = c

\* A set that returned left its value in every target that must have it, and
\* no concurrent read's fill has replaced or undone it since (law 6).
SetReachesEveryTarget ==
    \A c \in Client, k \in Key : Settled(c, k, "write") =>
        \A t \in Written \ (Dependents \ Required) : held[t][k] = SlotValue(c, t)

\* A delete that returned left nothing in any target reads do not fill.
DeleteReachesEveryTarget ==
    \A c \in Client, k \in Key : Settled(c, k, "delete") =>
        \A t \in Written \ ((Dependents \ Required) \cup Fill) : held[t][k] = Absent

\* Law 2 for a reader of a zip: while callers take turns to change a key, a
\* read that found the authority's entry found every component it refers to,
\* if the entry it found is still the one there when it returns.
ReaderFindsParts ==
    \A c \in Client, a \in Authority : \A k \in keys[c] :
        op[c] = "idle" /\ did[c] = "get" /\ out[c] = "ok"
            /\ got[c][a] # Absent /\ got[c][a] = held[a][k]
            => \A t \in Components \ Optional : got[c][t] # Absent

\* Law 2, for the media and for whoever reads the record part by part.
ReferentIsThere == ReferentBeforeReference /\ ReaderFindsParts

\* What a call that returned set or deleted, it set or deleted everywhere,
\* whatever failed that it tolerates (Topology.write, delete, _settle).
ReachesAll == SetReachesEveryTarget /\ DeleteReachesEveryTarget
=============================================================================
