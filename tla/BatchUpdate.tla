---------------------------- MODULE BatchUpdate ----------------------------
(***************************************************************************)
(* KeyMap.batch_update over a medium that writes conditionally.            *)
(*                                                                         *)
(* A call reads its pending keys with their versions, decides, and writes  *)
(* each change only if the entry still has the version it saw; the keys    *)
(* that lost are read and decided again, for at most `attempts' rounds.    *)
(* Keys are read and written one request each, in any order, as an object  *)
(* store does (map_concurrent); a memory map does all of a round's reads,  *)
(* and all of its writes, at once, which is a special case.  Every write   *)
(* gives the entry a version it never had: a memory entry is a new object, *)
(* and changed[k] counts them.                                             *)
(***************************************************************************)
EXTENDS Integers, KeyValue

CONSTANTS Call, Nothing, Decide,
    Attempts,   \* the rounds of a call
    MaxChanges, \* bound: changes of a key before other writers rest
    MaxFails    \* bound: calls that raise

Shown == Value \cup {Nothing}
Decision == [do : {"keep", "put", "remove"}, value : Shown]

ASSUME BatchAssumption ==
    /\ Nothing \notin Value
    /\ Decide \subseteq [Shown -> Decision]
    /\ \A d \in Decide, v \in Shown : d[v].do = "put" => d[v].value \in Value
    /\ Attempts \in Nat \ {0} /\ MaxChanges \in Nat /\ MaxFails \in Nat

VARIABLES
    value,     \* per key: what the medium stores, Nothing if it has no entry
    expired,   \* per key: the entry is past its time
    version,   \* per key: the entry's version, 0 if there is none
    changed,   \* per key: how often the medium has changed it
    pc,        \* per call: where batch_update is
    decide,    \* per call: the caller's pure function
    keys,      \* per call: the keys asked for
    pending,   \* per call: the keys not settled
    todo,      \* per call: the pending keys this half of the round has left
    round,
    seen,      \* per call and key: Versioned, as read this round
    held,      \* per call and key: what the call returns
    began,     \* history: changed[k] when the call began
    fails

medium == <<value, expired, version, changed>>
vars == <<medium, pc, decide, keys, pending, todo, round, seen, held, began, fails>>

Versioned == [value : Shown, version : Nat]
Stages == {"idle", "reading", "writing", "returned", "conflict", "raised"}

\* The types of the state: the entries, and each call's round and pending keys.
TypeOK ==
    /\ value \in [Key -> Shown] /\ expired \in [Key -> BOOLEAN]
    /\ version \in [Key -> Nat] /\ changed \in [Key -> Nat]
    /\ pc \in [Call -> Stages] /\ decide \in [Call -> Decide]
    /\ keys \in [Call -> SUBSET Key] /\ pending \in [Call -> SUBSET Key]
    /\ todo \in [Call -> SUBSET Key] /\ round \in [Call -> 1..Attempts]
    /\ seen \in [Call -> [Key -> Versioned]]
    /\ held \in [Call -> [Key -> Shown]]
    /\ began \in [Call -> [Key -> Nat]]
    /\ fails \in Nat

Unread == [value |-> Nothing, version |-> 0]

Init ==
    /\ value = [k \in Key |-> Nothing] /\ expired = [k \in Key |-> FALSE]
    /\ version = [k \in Key |-> 0] /\ changed = [k \in Key |-> 0]
    /\ pc = [c \in Call |-> "idle"] /\ decide \in [Call -> Decide]
    /\ keys = [c \in Call |-> {}] /\ pending = [c \in Call |-> {}]
    /\ todo = [c \in Call |-> {}] /\ round = [c \in Call |-> 1]
    /\ seen = [c \in Call |-> [k \in Key |-> Unread]]
    /\ held = [c \in Call |-> [k \in Key |-> Nothing]]
    /\ began = [c \in Call |-> [k \in Key |-> 0]]
    /\ fails = 0

-----------------------------------------------------------------------------
(* The medium.                                                             *)

Live(k) == IF expired[k] THEN Nothing ELSE value[k]

Store(k, v) ==
    /\ value' = [value EXCEPT ![k] = v]
    /\ expired' = [expired EXCEPT ![k] = FALSE]
    /\ version' = [version EXCEPT ![k] = changed[k] + 1]
    /\ changed' = [changed EXCEPT ![k] = @ + 1]

Drop(k) ==
    /\ value' = [value EXCEPT ![k] = Nothing]
    /\ expired' = [expired EXCEPT ![k] = FALSE]
    /\ version' = [version EXCEPT ![k] = 0]
    /\ changed' = [changed EXCEPT ![k] = @ + 1]

ReadVersioned(k) == [value |-> Live(k), version |-> version[k]]

\* A variant whose write asks only whether there is an entry.
StillThere(c, k) == (version[k] = 0) = (seen[c][k].version = 0)

Unchanged(c, k) == version[k] = seen[c][k].version

-----------------------------------------------------------------------------
(* batch_update.                                                           *)

Start(c, S) ==
    /\ pc[c] = "idle"
    /\ pc' = [pc EXCEPT ![c] = "reading"]
    /\ keys' = [keys EXCEPT ![c] = S]
    /\ pending' = [pending EXCEPT ![c] = S]
    /\ todo' = [todo EXCEPT ![c] = S]
    /\ began' = [began EXCEPT ![c] = changed]
    /\ UNCHANGED <<medium, decide, round, seen, held, fails>>

\* A key kept, or to be removed where nothing is stored, needs no write.
NeedsWrite(d, s) ==
    /\ d.do # "keep"
    /\ d.do = "remove" => s.version # 0

Read(c, k) ==
    LET s == ReadVersioned(k)
        d == decide[c][s.value]
    IN /\ pc[c] = "reading" /\ k \in todo[c]
       /\ seen' = [seen EXCEPT ![c][k] = s]
       /\ held' = IF d.do = "keep" THEN [held EXCEPT ![c][k] = s.value] ELSE held
       /\ pending' = IF NeedsWrite(d, s) THEN pending
                     ELSE [pending EXCEPT ![c] = @ \ {k}]
       /\ todo' = [todo EXCEPT ![c] = @ \ {k}]
       /\ UNCHANGED <<medium, pc, decide, keys, round, began, fails>>

\* All read and decided: write what is left, or return.
TurnToWrites(c) ==
    /\ pc[c] = "reading" /\ todo[c] = {}
    /\ pc' = [pc EXCEPT ![c] = IF pending[c] = {} THEN "returned" ELSE "writing"]
    /\ todo' = [todo EXCEPT ![c] = pending[c]]
    /\ UNCHANGED <<medium, decide, keys, pending, round, seen, held, began, fails>>

Apply(c, k) ==
    LET d == decide[c][seen[c][k].value] IN
    /\ \/ d.do = "put"    /\ Store(k, d.value)
       \/ d.do = "remove" /\ Drop(k)
    /\ held' = IF d.do = "put" THEN [held EXCEPT ![c][k] = d.value] ELSE held
    /\ pending' = [pending EXCEPT ![c] = @ \ {k}]

WriteIfUnchanged(c, k) ==
    /\ pc[c] = "writing" /\ k \in todo[c]
    /\ \/ Unchanged(c, k) /\ Apply(c, k)
       \/ ~Unchanged(c, k) /\ UNCHANGED <<medium, held, pending>>
    /\ todo' = [todo EXCEPT ![c] = @ \ {k}]
    /\ UNCHANGED <<pc, decide, keys, round, seen, began, fails>>

\* A variant that gives up with a round to spare.
GiveUpEarly(c) ==
    /\ pc[c] = "writing" /\ todo[c] = {}
    /\ pc' = [pc EXCEPT ![c] =
                 IF pending[c] = {} THEN "returned"
                 ELSE IF round[c] + 1 < Attempts THEN "reading" ELSE "conflict"]
    /\ todo' = [todo EXCEPT ![c] = pending[c]]
    /\ round' = [round EXCEPT ![c] = IF @ < Attempts THEN @ + 1 ELSE @]
    /\ UNCHANGED <<medium, decide, keys, pending, seen, held, began, fails>>

\* A variant where the refused writes are tried again as they were decided.
RetryWrites(c) ==
    /\ pc[c] = "writing" /\ todo[c] = {}
    /\ pc' = [pc EXCEPT ![c] = IF pending[c] = {} THEN "returned" ELSE "writing"]
    /\ todo' = [todo EXCEPT ![c] = pending[c]]
    /\ UNCHANGED <<medium, decide, keys, pending, round, seen, held, began, fails>>

\* All written: return, or read the keys that lost again, or give up on them.
EndRound(c) ==
    /\ pc[c] = "writing" /\ todo[c] = {}
    /\ \/ /\ pending[c] = {}
          /\ pc' = [pc EXCEPT ![c] = "returned"] /\ UNCHANGED <<todo, round>>
       \/ /\ pending[c] # {} /\ round[c] < Attempts
          /\ pc' = [pc EXCEPT ![c] = "reading"]
          /\ todo' = [todo EXCEPT ![c] = pending[c]]
          /\ round' = [round EXCEPT ![c] = @ + 1]
       \/ /\ pending[c] # {} /\ round[c] = Attempts
          /\ pc' = [pc EXCEPT ![c] = "conflict"] /\ UNCHANGED <<todo, round>>
    /\ UNCHANGED <<medium, decide, keys, pending, seen, held, began, fails>>

\* A read, decide or a write raised, and so does the call.  The write that
\* raised may have been made: that is WriteIfUnchanged followed by this.
Raise(c) ==
    /\ pc[c] \in {"reading", "writing"} /\ fails < MaxFails
    /\ pc' = [pc EXCEPT ![c] = "raised"]
    /\ fails' = fails + 1
    /\ UNCHANGED <<medium, decide, keys, pending, todo, round, seen, held, began>>

-----------------------------------------------------------------------------
(* Other callers of the same map, and time.                                *)

calls == <<pc, decide, keys, pending, todo, round, seen, held, began, fails>>

\* set; where nothing is stored, set_if_absent too.
Set(k) ==
    /\ changed[k] < MaxChanges
    /\ \E v \in Value : Store(k, v)
    /\ UNCHANGED calls

Delete(k) ==
    /\ changed[k] < MaxChanges /\ version[k] # 0
    /\ Drop(k)
    /\ UNCHANGED calls

Expire(k) ==
    /\ changed[k] < MaxChanges /\ version[k] # 0 /\ ~expired[k]
    /\ expired' = [expired EXCEPT ![k] = TRUE]
    /\ UNCHANGED <<value, version, changed, calls>>

\* A get that finds an expired entry pops it (ExpiryGc.LAZY_DELETE).
LazyDelete(k) ==
    /\ version[k] # 0 /\ expired[k]
    /\ Drop(k)
    /\ UNCHANGED calls

-----------------------------------------------------------------------------
Step(c) ==
    \/ \E k \in Key : Read(c, k) \/ WriteIfUnchanged(c, k)
    \/ TurnToWrites(c)
    \/ EndRound(c)

Next ==
    \/ \E c \in Call : (\E S \in SUBSET Key : Start(c, S)) \/ Step(c) \/ Raise(c)
    \/ \E k \in Key : Set(k) \/ Delete(k) \/ Expire(k) \/ LazyDelete(k)

\* A call that has begun runs on: its thread is scheduled and the medium answers.
Fairness == \A c \in Call : WF_vars(Step(c))

Spec == Init /\ [][Next]_vars /\ Fairness
-----------------------------------------------------------------------------
(* What batch_update promises.                                             *)

Status == [c \in Call |-> [k \in Key |->
    IF k \notin keys[c] THEN "none"
    ELSE IF k \notin pending[c] THEN "settled"
    ELSE IF pc[c] \in {"conflict", "raised"} THEN "lost" ELSE "open"]]

Atomic == INSTANCE AtomicUpdate WITH status <- Status

\* update "decides what to do with the entry from what it holds, atomically":
\* reading, deciding and writing with retries, against every other writer of
\* the map, is a call whose keys are each settled in one step or given up
\* having written nothing, and what it returns is what that step left.
UpdateIsAtomic == Atomic!Spec

\* A call gives up on a key only after losing `attempts' races for it: since it
\* began, the key was changed at least that often.  An entry that merely
\* expired, or one nobody else touches, never raises KvStoreConflict.
ConflictMeansContention ==
    \A c \in Call, k \in Key :
        pc[c] = "conflict" /\ k \in pending[c] => changed[k] - began[c][k] >= Attempts

\* A call ends however often it loses: the loop of batch_update is bounded by
\* its attempts, not by the other writers' patience.
EveryCallEnds ==
    \A c \in Call : pc[c] = "reading" ~> pc[c] \in {"returned", "conflict", "raised"}
=============================================================================
