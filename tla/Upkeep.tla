------------------------------- MODULE Upkeep -------------------------------
(***************************************************************************)
(* The operations of a store of whole records that read in one place and   *)
(* write in another: set_stream and read_stream (keymap_algebra/           *)
(* topology.py), gc of every target, fill_missing (store/logical.py) and   *)
(* the set of a group of rows (store/compose/grouped.py), against each     *)
(* other, plain writers and time.                                          *)
(*                                                                         *)
(* One action per call to a target.  A target's own call is one step here; *)
(* ObjectStore, FileDriver, SqlTable and LeafEntries open it.  All targets *)
(* keep a write clock, share one TTL and remove what they read as expired. *)
(***************************************************************************)
EXTENDS Topology, FiniteSetsExt

CONSTANTS
    Key,         \* the keys, numbered in the order a target lists them
    Client,
    Ops,         \* the operations each caller makes
    Touches,     \* the keys it writes, deletes or reads one at a time
    Contents,    \* what the targets may hold at first
    Nothing,
    Ttl,         \* the life of an entry, from its clock
    FillArgs,    \* page_size and limit of a fill_missing
    GcLimit,     \* max_entries of gc
    MaxTime, MaxCalls, MaxFaults, MaxId    \* bounds

Entry == [id : 1..MaxId, clock : 0..MaxTime]
Entries == Entry \cup {Nothing}
Operations == {"set", "delete", "stream", "read", "group", "gc", "fill"}

\* An id names one value of a key, which has one clock wherever an older store's value is.
OneLife(h) ==
    \A t \in Target, f \in Fallbacks, k \in Key :
        Nothing \notin {h[t][k], h[f][k]} /\ h[t][k].id = h[f][k].id
            => h[t][k].clock = h[f][k].clock

ASSUME UpkeepAssumption ==
    /\ Parts = {} /\ Authority # {} /\ Dependents # {}
    /\ Key \subseteq Nat \ {0} /\ IsFiniteSet(Key)
    /\ Nothing \notin Nat /\ Nothing \notin Target /\ Nothing \notin [id : Nat, clock : Nat]
    /\ Ops \in [Client -> SUBSET Operations] /\ Touches \in [Client -> SUBSET Key]
    /\ Contents \subseteq [Target -> [Key -> Entries]] /\ \A h \in Contents : OneLife(h)
    /\ {Ttl, GcLimit} \subseteq Nat \ {0} /\ FillArgs \subseteq (Nat \ {0}) \X (Nat \ {0})
    /\ {MaxTime, MaxCalls, MaxFaults, MaxId} \subseteq Nat

VARIABLES
    held,       \* per target and key: the entry stored, [id, clock], or Nothing
    now,
    call,       \* the call of each client
    calls,      \* how many calls each client began
    lastId,     \* the id of the newest value
    old,        \* history: per key, the entries the fallbacks began with
    redated,    \* history: values copied under a clock that may not be theirs
    faults

vars == <<held, now, call, calls, lastId, old, redated, faults>>

Main == CHOOSE t \in Target : t \in Authority
Older == Fallbacks \cap Consulted    \* the stores that answer what the record lacks

Expired(t, k) == held[t][k] # Nothing /\ now >= held[t][k].clock + Ttl
Live(t, k) == IF Expired(t, k) THEN Nothing ELSE held[t][k]
LiveKeys(t) == {k \in Key : Live(t, k) # Nothing}
ExpiredKeys(t) == {k \in Key : Expired(t, k)}
\* A variant with an error: a copy that begins a life of its own.
WriteNow(given) == now

WriteClock(given) == IF given = Nothing THEN now ELSE given

\* What the targets hold once keys K of target t are written, removed or looked up.
Put(t, K, id, clock) ==
    [held EXCEPT ![t] = [k \in Key |-> IF k \in K THEN [id |-> id[k], clock |-> clock[k]]
                                       ELSE @[k]]]
Without(t, K) == [held EXCEPT ![t] = [k \in Key |-> IF k \in K THEN Nothing ELSE @[k]]]
LookedUp(t, K) == Without(t, K \cap ExpiredKeys(t))
Of(x) == [k \in Key |-> x]

Counts == [scanned |-> 0, missing |-> 0, written |-> 0, lost |-> 0, miss |-> 0]
Idle == [op |-> "none", step |-> "idle", keys |-> {}, stale |-> {}, id |-> 0, todo |-> {},
         src |-> {}, missed |-> {}, val |-> 0, clock |-> Nothing, filled |-> Nothing,
         size |-> 0, limit |-> 0, after |-> 0, page |-> {}, want |-> {}, found |-> <<>>, clocks |-> <<>>, left |-> {},
         n |-> Counts, raised |-> FALSE,
         \* history: keys touched by others, keys others gave the authority since
         \* they were checked, keys copied, keys lost to nobody, targets that failed,
         \* and what was there to find when the call began
         raced |-> {}, met |-> {}, mine |-> {}, unfair |-> {}, failed |-> {}, due |-> <<>>]

AllHeld == {held[t][k] : t \in Target, k \in Key} \ {Nothing}

Init ==
    /\ held \in Contents
    /\ now = Max({0} \cup {e.clock : e \in AllHeld}) /\ faults = 0 /\ redated = {}
    /\ call = [c \in Client |-> Idle] /\ calls = [c \in Client |-> 0]
    /\ old = [k \in Key |-> {held[t][k] : t \in Fallbacks} \ {Nothing}]
    /\ lastId = Max({0} \cup {e.id : e \in AllHeld})

-----------------------------------------------------------------------------
At(c, step) == call[c].step = step
Still == UNCHANGED <<now, calls, lastId, old, redated, faults>>

\* The targets hold new and client c's call is cl; the other calls are raced.
Becomes(c, new, cl) ==
    LET touched == {k \in Key : \E t \in Target : held[t][k] # new[t][k]}
        given == {k \in touched : new[Main][k] # Nothing /\ new[Main][k] # held[Main][k]}
    IN /\ held' = new
       /\ call' = [d \in Client |->
              IF d = c THEN cl
              ELSE IF At(d, "idle") THEN Idle
              ELSE [call[d] EXCEPT !.raced = @ \cup touched, !.met = @ \cup given]]
Goes(c, cl) == Becomes(c, held, cl)

Done(cl) == [cl EXCEPT !.step = "done"]
Raised(cl) == [cl EXCEPT !.step = "done", !.raised = TRUE]

\* What follows when a write or delete has reached all the targets it goes to.
Onward(cl) ==
    CASE cl.op = "group" /\ cl.step = "set" /\ cl.stale # {} ->
              [cl EXCEPT !.step = "remove", !.todo = {Main}]
      [] cl.op = "fill" -> [cl EXCEPT !.step = "copy"]
      [] cl.op = "gc" /\ cl.step = "forget" -> [cl EXCEPT !.step = "collect", !.todo = Dependents]
      [] OTHER -> Done(cl)

\* The call is done with target t: after the commit, the dependents follow.
Past(cl, t) ==
    LET rest == IF t = Main THEN Dependents ELSE cl.todo \ {t}
        cl2 == [cl EXCEPT !.todo = rest]
    IN IF rest = {} THEN Onward(cl2) ELSE cl2

-----------------------------------------------------------------------------
(***************************************************************************)
(* Time, and the owners of the fallbacks.                                  *)
(***************************************************************************)
Tick ==
    /\ now < MaxTime
    /\ now' = now + 1
    /\ LET flips == {k \in Key : \E t \in Target :
                        held[t][k] # Nothing /\ held[t][k].clock + Ttl = now + 1}
       IN call' = [c \in Client |-> IF At(c, "idle") THEN Idle
                                    ELSE [call[c] EXCEPT !.raced = @ \cup flips]]
    /\ UNCHANGED <<held, calls, lastId, old, redated, faults>>

Vanish(t, k) ==
    /\ t \in Fallbacks /\ held[t][k] # Nothing /\ faults < MaxFaults
    /\ faults' = faults + 1
    /\ held' = Without(t, {k})
    /\ call' = [c \in Client |-> IF At(c, "idle") THEN Idle
                                 ELSE [call[c] EXCEPT !.raced = @ \cup {k}]]
    /\ UNCHANGED <<now, calls, lastId, old, redated>>

(***************************************************************************)
(* Calls begin and return.                                                 *)
(***************************************************************************)
Begin(c, op, cl) ==
    /\ At(c, "idle") /\ op \in Ops[c] /\ calls[c] < MaxCalls
    /\ calls' = [calls EXCEPT ![c] = @ + 1]
    /\ Goes(c, [cl EXCEPT !.op = op])
    /\ UNCHANGED <<now, lastId, old, redated, faults>>

StartSet(c, k) == Begin(c, "set", [Idle EXCEPT !.step = "set", !.keys = {k}, !.todo = {Main}])
StartDelete(c, k) ==
    Begin(c, "delete", [Idle EXCEPT !.step = "remove", !.stale = {k}, !.todo = {Main}])
StartGroup(c, K) == Begin(c, "group", [Idle EXCEPT !.step = "list", !.keys = K])
StartStream(c, k) == Begin(c, "stream", [Idle EXCEPT !.step = "stream", !.keys = {k}])
StartRead(c, k) ==
    Begin(c, "read", [Idle EXCEPT !.step = "look", !.keys = {k}, !.todo = Consulted,
                                  !.due = {t \in Consulted : k \in LiveKeys(t)}])
StartGc(c) ==
    Begin(c, "gc", [Idle EXCEPT !.step = "gc", !.due = [t \in Target |-> ExpiredKeys(t)]])
StartFill(c, size, limit) ==
    LET Owner(k) == IF k \in LiveKeys(Main) THEN {Main}
                    ELSE First({t \in Older : k \in LiveKeys(t)}, LookupRank)
    IN Begin(c, "fill", [Idle EXCEPT !.step = IF Older = {} THEN "done" ELSE "page",
                                     !.size = size, !.limit = limit,
                                     !.src = First(Older, LookupRank),
                                     !.due = [k \in Key |-> Owner(k)]])

Return(c) == At(c, "done") /\ Goes(c, Idle) /\ Still

-----------------------------------------------------------------------------
(***************************************************************************)
(* Writes and deletes: the authority, then each dependent.                 *)
(***************************************************************************)

\* GroupedKvStore._members: what the group holds decides what is stale.
ListGroup(c) ==
    LET cl == [call[c] EXCEPT !.stale = LiveKeys(Main) \ call[c].keys, !.todo = {Main}]
    IN /\ At(c, "list")
       /\ Becomes(c, LookedUp(Main, Key),
                  IF cl.keys # {} THEN [cl EXCEPT !.step = "set"]
                  ELSE IF cl.stale # {} THEN [cl EXCEPT !.step = "remove"] ELSE Done(cl))
       /\ Still

Set(c, t) ==
    LET id == IF t = Main THEN lastId + 1 ELSE call[c].id
    IN /\ At(c, "set") /\ t \in First(call[c].todo, CommitRank) /\ id <= MaxId
       /\ Becomes(c, Put(t, call[c].keys, Of(id), Of(now)),
                  Past([call[c] EXCEPT !.id = id], t))
       /\ lastId' = Max({id, lastId})
       /\ UNCHANGED <<now, calls, old, redated, faults>>

\* The record's delete, and what gc has the dependents forget.
Remove(c, t) ==
    /\ call[c].step \in {"remove", "forget"} /\ t \in First(call[c].todo, RemovalRank)
    /\ Becomes(c, Without(t, call[c].stale), Past(call[c], t))
    /\ Still

(***************************************************************************)
(* write_stream: the authority takes the stream, and each dependent is fed *)
(* by reading the authority again.                                         *)
(***************************************************************************)
Stream(c) ==
    /\ At(c, "stream") /\ lastId < MaxId
    /\ lastId' = lastId + 1
    /\ Becomes(c, Put(Main, call[c].keys, Of(lastId + 1), Of(now)),
               [call[c] EXCEPT !.id = lastId + 1, !.step = "open", !.todo = Dependents])
    /\ UNCHANGED <<now, calls, old, redated, faults>>

TheKey(c) == CHOOSE k \in call[c].keys : TRUE
\* What reading the call's key at target t answers: a value, 0 for none.
Answer(c, t) == IF Live(t, TheKey(c)) = Nothing THEN 0 ELSE Live(t, TheKey(c)).id

\* A variant with an error: one stream for all the dependents, used up by the first.
OpenOnce(c, t) ==
    /\ At(c, "open") /\ t \in First(call[c].todo, CommitRank)
    /\ Becomes(c, LookedUp(Main, call[c].keys),
               IF call[c].val # 0 THEN Past(call[c], t)
               ELSE [call[c] EXCEPT !.step = "feed", !.val = Answer(c, Main)])
    /\ Still

Open(c, t) ==
    /\ At(c, "open") /\ t \in First(call[c].todo, CommitRank)
    /\ Becomes(c, LookedUp(Main, call[c].keys),
               IF Answer(c, Main) = 0 THEN Past(call[c], t)
               ELSE [call[c] EXCEPT !.step = "feed", !.val = Answer(c, Main)])
    /\ Still

Feed(c, t) ==
    /\ At(c, "feed") /\ t \in First(call[c].todo, CommitRank)
    /\ Becomes(c, Put(t, call[c].keys, Of(call[c].val), Of(now)),
               Past([call[c] EXCEPT !.step = "open"], t))
    /\ redated' = redated \cup ({call[c].val} \ {call[c].id})
    /\ UNCHANGED <<now, calls, lastId, old, faults>>

(***************************************************************************)
(* read_stream: the first target that answers fills those consulted before *)
(* it; each fill uses the stream up, so what follows reads again.          *)
(***************************************************************************)
Look(c, t) ==
    LET cl == call[c]
        into == Fillable(t, cl.missed)
    IN /\ At(c, "look") /\ t \in First(cl.todo, LookupRank)
       /\ Becomes(c, LookedUp(t, cl.keys),
              IF Answer(c, t) # 0
              THEN [cl EXCEPT !.src = {t}, !.val = Answer(c, t), !.todo = into,
                              !.step = IF into = {} THEN "done" ELSE "stat"]
              ELSE [cl EXCEPT !.missed = @ \cup {t}, !.todo = @ \ {t},
                              !.step = IF cl.todo = {t} THEN "done" ELSE "look"])
       /\ Still

Stat(c, t) ==
    /\ At(c, "stat") /\ t \in call[c].src
    /\ Becomes(c, LookedUp(t, call[c].keys),
               [call[c] EXCEPT !.step = "fill",
                   !.clock = IF Answer(c, t) = 0 THEN Nothing ELSE held[t][TheKey(c)].clock])
    /\ Still

\* _fill_stream writes whatever the target holds by now.
FillStream(c, t) ==
    LET cl == call[c]
    IN /\ At(c, "fill") /\ t \in First(cl.todo, LookupRank)
       /\ Becomes(c, Put(t, cl.keys, Of(cl.val), Of(WriteClock(cl.clock))),
                  [cl EXCEPT !.step = "reread", !.filled = t, !.todo = @ \ {t}])
       /\ redated' = IF cl.clock = Nothing \/ cl.raced # {} THEN redated \cup {cl.val} ELSE redated
       /\ UNCHANGED <<now, calls, lastId, old, faults>>

\* The stream to go on with: of the target just filled, or else of the source.
Resume(c, t, otherwise) ==
    [call[c] EXCEPT !.val = Answer(c, t),
                    !.step = IF Answer(c, t) = 0 THEN otherwise
                             ELSE IF call[c].todo = {} THEN "done" ELSE "fill"]

Reread(c) ==
    /\ At(c, "reread")
    /\ Becomes(c, LookedUp(call[c].filled, call[c].keys), Resume(c, call[c].filled, "again"))
    /\ Still

RereadSource(c, t) ==
    /\ At(c, "again") /\ t \in call[c].src
    /\ Becomes(c, LookedUp(t, call[c].keys), Resume(c, t, "done"))
    /\ Still

(***************************************************************************)
(* gc: the authority collects, the dependents forget what it collected and *)
(* collect their own.                                                      *)
(***************************************************************************)
\* What a target's own gc may collect.
Collectable(t) ==
    {E \in SUBSET ExpiredKeys(t) : Cardinality(E) = Min({GcLimit, Cardinality(ExpiredKeys(t))})}

Gc(c, E) ==
    /\ At(c, "gc") /\ E \in Collectable(Main)
    /\ Becomes(c, Without(Main, E),
               [call[c] EXCEPT !.stale = E, !.todo = Dependents,
                               !.step = IF E = {} THEN "collect" ELSE "forget"])
    /\ Still

Collect(c, t, E) ==
    /\ At(c, "collect") /\ t \in First(call[c].todo, CommitRank) /\ E \in Collectable(t)
    /\ Becomes(c, Without(t, E), Past(call[c], t))
    /\ Still

(***************************************************************************)
(* fill_missing: a page of a fallback's keys, those nobody ahead of it     *)
(* holds, their values, their clocks, and then conditional inserts.        *)
(***************************************************************************)
Before(s, t) == s # t /\ s \in First({s, t}, LookupRank)
Ahead(f) == Authority \cup {t \in Older : Before(t, f)}
NextAhead(S) == IF Main \in S THEN {Main} ELSE First(S, LookupRank)
NextFallback(f) == First({t \in Older : Before(f, t)}, LookupRank)

PageAfter(f, after, size) ==
    LET rest == {k \in LiveKeys(f) : k > after}
    IN {k \in rest : Cardinality({j \in rest : j < k}) < size}

Page(c, f) ==
    LET keys == PageAfter(f, call[c].after, call[c].size)
        fresh == [call[c] EXCEPT !.found = <<>>, !.clocks = <<>>, !.page = keys, !.want = keys]
    IN /\ At(c, "page") /\ f \in call[c].src
       /\ Becomes(c, LookedUp(f, Key),
              IF keys = {}
              THEN [fresh EXCEPT !.src = NextFallback(f), !.after = 0,
                                 !.step = IF NextFallback(f) = {} THEN "done" ELSE "page"]
              ELSE [fresh EXCEPT !.after = Max(keys), !.step = "check", !.todo = Ahead(f),
                                 !.met = {}])
       /\ Still

Check(c, t) ==
    LET absent == call[c].want \ LiveKeys(t)
        rest == call[c].todo \ {t}
    IN /\ At(c, "check") /\ t \in NextAhead(call[c].todo)
       /\ Becomes(c, LookedUp(t, call[c].want),
              [call[c] EXCEPT !.want = absent, !.todo = rest,
                              !.step = IF absent = {} THEN "copy"
                                       ELSE IF rest = {} THEN "get" ELSE "check"])
       /\ Still

ReadPage(c, f) ==
    LET there == call[c].want \cap LiveKeys(f)
    IN /\ At(c, "get") /\ f \in call[c].src
       /\ Becomes(c, LookedUp(f, call[c].want),
              [call[c] EXCEPT !.found = [k \in there |-> held[f][k].id],
                              !.step = IF there = {} THEN "copy" ELSE "dates"])
       /\ Still

StatPage(c, f) ==
    LET there == DOMAIN call[c].found
    IN /\ At(c, "dates") /\ f \in call[c].src
       /\ Becomes(c, LookedUp(f, there),
              [call[c] EXCEPT !.step = "copy",
                  !.clocks = [k \in there |-> IF k \in LiveKeys(f) THEN held[f][k].clock
                                              ELSE Nothing]])
       /\ Still

\* A variant with an error: an insert that replaces.
InsertOver(copies) == {copies}

\* At most as many copies as the limit still allows; what is scanned on the way.
Budget(cl) == cl.limit - cl.n.written
Copyable(cl) == cl.page \cap DOMAIN cl.found
Scanned(cl) == {k \in cl.page : Cardinality({j \in Copyable(cl) : j < k}) < Budget(cl)}

Counted(cl, scanned, copies, won) ==
    [scanned |-> cl.n.scanned + Cardinality(scanned),
     missing |-> cl.n.missing + Cardinality(scanned \cap cl.want),
     written |-> cl.n.written + Cardinality(won),
     lost |-> cl.n.lost + Cardinality(copies \ won),
     miss |-> cl.n.miss + Cardinality((scanned \cap cl.want) \ copies)]

\* The insert's condition: no entry, or no live one, as the backend has it.
Insertable(copies) == {{k \in copies : held[Main][k] = Nothing}, copies \ LiveKeys(Main)}

Copy(c) ==
    LET cl == call[c]
        scanned == Scanned(cl)
        copies == scanned \cap Copyable(cl)
        Counting(won) == [cl EXCEPT !.n = Counted(cl, scanned, copies, won), !.page = @ \ scanned]
    IN /\ At(c, "copy")
       /\ \/ Budget(cl) <= 0 /\ Goes(c, Done(cl)) /\ UNCHANGED redated
          \/ /\ Budget(cl) > 0 /\ copies = {}
             /\ Goes(c, [Counting({}) EXCEPT !.step = "page"]) /\ UNCHANGED redated
          \/ /\ Budget(cl) > 0 /\ copies # {}
             /\ \E won \in Insertable(copies) :
                   /\ Becomes(c, Put(Main, won, cl.found, [k \in won |-> WriteClock(cl.clocks[k])]),
                          [Counting(won) EXCEPT
                              !.step = IF won = {} THEN "copy" ELSE "spread",
                              !.todo = Dependents, !.left = won, !.stale = won,
                              !.mine = @ \cup won, !.unfair = @ \cup ((copies \ won) \ cl.met)])
                   /\ redated' = redated \cup {cl.found[k] : k \in {j \in won : cl.clocks[j] = Nothing}}
       /\ UNCHANGED <<now, calls, lastId, old, faults>>

\* The dependents of the keys inserted, a batch for each clock (_by_clock).
Spread(c, t) ==
    LET cl == call[c]
        batch == {k \in cl.left : cl.clocks[k] = cl.clocks[Min(cl.left)]}
    IN /\ At(c, "spread") /\ t \in First(cl.todo, CommitRank)
       /\ Becomes(c, Put(t, batch, cl.found, [k \in batch |-> WriteClock(cl.clocks[k])]),
                  IF batch = cl.left THEN Past([cl EXCEPT !.left = cl.stale], t)
                  ELSE [cl EXCEPT !.left = @ \ batch])
       /\ Still

-----------------------------------------------------------------------------
(***************************************************************************)
(* A call to a target fails, having done nothing there.                    *)
(***************************************************************************)
Syncing == {"set", "remove", "forget", "open", "feed", "collect", "spread"}

\* _settle: best-effort work goes on, and gc's always is.
Settled(cl, t) ==
    IF t = Main \/ (t \in Required /\ cl.op # "gc") THEN Raised(cl)
    ELSE LET tolerated == [cl EXCEPT !.failed = @ \cup {t},
                               !.step = IF @ = "feed" THEN "open" ELSE @]
         IN IF cl.step = "spread" /\ {k \in cl.left : cl.clocks[k] # cl.clocks[Min(cl.left)]} # {}
            THEN [tolerated EXCEPT !.left = {k \in @ : cl.clocks[k] # cl.clocks[Min(@)]}]
            ELSE Past([tolerated EXCEPT !.left = cl.stale], t)

Failing(c, cl) ==
    /\ faults < MaxFaults
    /\ faults' = faults + 1
    /\ Goes(c, cl)
    /\ UNCHANGED <<now, calls, lastId, old, redated>>

SyncFails(c, t) ==
    /\ call[c].step \in Syncing /\ t \in First(call[c].todo, CommitRank)
    /\ Failing(c, Settled(call[c], t))

\* A variant with an error: the stream a failed fill used up is what is answered.
SpentStream(c, t) ==
    /\ At(c, "fill") /\ t \in First(call[c].todo, LookupRank)
    /\ Failing(c, [call[c] EXCEPT !.step = "done", !.val = 0])

FillFails(c, t) ==
    /\ At(c, "fill") /\ t \in First(call[c].todo, LookupRank)
    /\ Failing(c, [call[c] EXCEPT !.step = "again", !.todo = @ \ {t}])

CallFails(c) ==
    /\ call[c].step \notin Syncing \cup {"idle", "done", "fill"}
    /\ Failing(c, Raised(call[c]))

Next ==
    \/ Tick
    \/ \E t \in Target, k \in Key : Vanish(t, k)
    \/ \E c \in Client :
          \/ \E k \in Touches[c] : \/ StartSet(c, k) \/ StartDelete(c, k)
                                   \/ StartStream(c, k) \/ StartRead(c, k)
          \/ \E K \in SUBSET Key : StartGroup(c, K)
          \/ StartGc(c) \/ Return(c)
          \/ \E a \in FillArgs : StartFill(c, a[1], a[2])
          \/ ListGroup(c) \/ Stream(c) \/ Reread(c) \/ Copy(c) \/ CallFails(c)
          \/ \E t \in Target :
                \/ Set(c, t) \/ Remove(c, t) \/ Open(c, t) \/ Feed(c, t)
                \/ Look(c, t) \/ Stat(c, t) \/ FillStream(c, t) \/ RereadSource(c, t)
                \/ Page(c, t) \/ Check(c, t) \/ ReadPage(c, t) \/ StatPage(c, t)
                \/ Spread(c, t) \/ SyncFails(c, t) \/ FillFails(c, t)
          \/ \E E \in SUBSET Key :
                \/ Gc(c, E)
                \/ \E t \in Target : Collect(c, t, E)

Spec == Init /\ [][Next]_vars

-----------------------------------------------------------------------------
(***************************************************************************)
(* Properties.                                                             *)
(***************************************************************************)
Steps == Syncing \cup {"idle", "done", "list", "stream", "look", "stat", "fill", "reread",
                       "again", "gc", "page", "check", "get", "dates", "copy"}

\* The types of the state: what the targets hold and where each call stands.
TypeOK ==
    /\ held \in [Target -> [Key -> Entries]]
    /\ now \in 0..MaxTime /\ lastId \in 0..MaxId 
    /\ faults \in 0..MaxFaults /\ calls \in [Client -> 0..MaxCalls]
    /\ redated \subseteq 1..MaxId
    /\ \A c \in Client :
          /\ call[c].step \in Steps /\ call[c].todo \subseteq Target
          /\ call[c].step \in Syncing => call[c].todo # {}
          /\ call[c].keys \cup call[c].stale \cup call[c].want \subseteq Key
          /\ call[c].val \in 0..MaxId

\* A call that returned and whose keys nobody touched since it began.
Finished(c, ops) == At(c, "done") /\ call[c].op \in ops /\ ~call[c].raised
Reached(c) == {Main} \cup (Dependents \ call[c].failed)

\* A set, a stream, a delete or a group's set that returns has reached the authority and
\* every dependent whose failure it did not tolerate, for each key nobody else touched
\* meanwhile: a stream feeds the dependents what the authority stored (write_stream).
WritesReachAll ==
    \A c \in Client : Finished(c, {"set", "stream", "delete", "group"}) =>
        \A t \in Reached(c) :
            /\ \A k \in call[c].keys \ call[c].raced :
                  held[t][k] # Nothing /\ held[t][k].id = call[c].id
            /\ \A k \in call[c].stale \ call[c].raced : held[t][k] = Nothing

\* A group set by one caller alone holds exactly the members given (GroupedKvStore.set).
GroupIsExact ==
    \A c \in Client : Finished(c, {"group"}) /\ call[c].raced = {} => LiveKeys(Main) = call[c].keys

\* A streamed read that nobody disturbs answers the record exactly when some target it
\* consults holds it: neither a fill nor a failed fill loses what was found (_fill_stream).
ReadFindsIt ==
    \A c \in Client : Finished(c, {"read"}) /\ call[c].raced = {} =>
        (call[c].val # 0) = (call[c].due # {})

\* A fallback's value keeps the fallback's clock wherever it is copied, so no copy outlives
\* it, except where it was fed under another call's options or its clock was gone
\* (fill_missing, _fill_stream).
CopyKeepsItsLife ==
    \A t \in Target, k \in Key : \A e \in old[k] :
        held[t][k] # Nothing /\ held[t][k].id = e.id /\ e.id \notin redated
            => held[t][k].clock = e.clock

\* What fill_missing reports adds up, its copies are the ones it made, within the limit,
\* and no key is counted lost unless someone gave the record since it was found missing.
FillAccounts ==
    \A c \in Client : call[c].op = "fill" =>
        LET n == call[c].n
        IN /\ n.missing = n.written + n.lost + n.miss
           /\ n.missing <= n.scanned /\ n.written <= call[c].limit
           /\ n.written >= Cardinality(call[c].mine)
           /\ call[c].unfair = {}

\* A fill_missing that returns below its limit has copied every key a fallback held and
\* nobody touched, and the copy is of the fallback a read would have reached first.
FillFindsAll ==
    \A c \in Client : Finished(c, {"fill"}) /\ call[c].n.written < call[c].limit =>
        \A k \in Key \ call[c].raced : \A f \in call[c].due[k] :
            held[Main][k] # Nothing /\ held[Main][k].id = held[f][k].id

\* After gc no dependent holds a copy of what the authority collected, and every target
\* collected up to the limit of its own: none is starved by another (Topology.gc).
GcReachesAll ==
    \A c \in Client : Finished(c, {"gc"}) =>
        \A t \in Reached(c) :
            /\ \A k \in call[c].stale \ call[c].raced : held[t][k] = Nothing
            /\ call[c].raced = {} =>
                  \/ ExpiredKeys(t) = {}
                  \/ Cardinality(call[c].due[t] \ ExpiredKeys(t)) >= GcLimit

\* Whatever a call that returned was to write, remove or collect, it did in the authority
\* and in every dependent whose failure it did not tolerate.
CallsReachAll == TypeOK /\ WritesReachAll /\ GroupIsExact /\ GcReachesAll

\* fill_missing copies what is missing and no more than its limit, reports what it did,
\* and a copy, by it or by a read's fill, lives no longer than what it copies.
CopiesAreTrue == FillAccounts /\ FillFindsAll /\ CopyKeepsItsLife

\* fill_missing replaces nothing live in the authority: a key it wrote there was not live.
FillReplacesNothing(c) ==
    call'[c].op = "fill" /\ call'[c].n # call[c].n =>
        \A k \in LiveKeys(Main) : held'[Main][k] = held[Main][k]

\* A streamed read gives the authority only what a fallback holds: a cache or a lagging
\* replica never puts back a record that was deleted, unless the key was written while
\* the read was filling (_fillable, _STREAM_ORDER).
ReadsRestoreNothing(c) ==
    At(c, "fill") /\ call'[c].step = "reread" /\ call[c].raced = {} =>
        \A k \in Key : held'[Main][k] # held[Main][k] =>
            held'[Main][k].id \in {e.id : e \in old[k]}

\* Nothing that fills the authority undoes what a caller did to it: neither a set, by
\* fill_missing, nor a delete, by a streamed read.
FillsUndoNothing == [][\A c \in Client : FillReplacesNothing(c) /\ ReadsRestoreNothing(c)]_vars
=============================================================================
