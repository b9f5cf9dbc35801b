---------------------------- MODULE LeafEntries ----------------------------
(***************************************************************************)
(* The Redis backend (backends/redis.py), with string keys or with one     *)
(* hash for the collection, one action per command; and the memory backend *)
(* (backends/memory.py), one action per method.                            *)
(*                                                                         *)
(* Redis removes an expired key itself.  The memory backend keeps it until *)
(* a read or gc meets it.                                                  *)
(***************************************************************************)
EXTENDS Naturals, FiniteSets, Sequences

CONSTANTS
    Unset, Never, Nothing,
    Key, Client,
    Body,           \* what a value serialises to
    Setup,          \* collections to start from: see Setups
    WriteArg,       \* what a write brings: [ttl, past], past: an early created_at
    Op,             \* the calls each client makes
    Limit,          \* of a gc
    MaxTime, MaxWrites   \* bounds

VARIABLES
    setup,     \* the backend, its TTL policy, ExpiryGc
    entry,     \* a function on the keys that have an entry
    clock,
    writes,    \* writes begun
    torn,      \* keys whose value and expiry come from different writes
    call       \* the call of each client

vars == <<setup, entry, clock, writes, torn, call>>

\* The hash constructor refuses a policy; ExpiryGc is the memory backend's.
Setups(ttls) ==
    {s \in [backend : {"flat", "hash", "memory"}, ttl : ttls, hides : BOOLEAN] :
        /\ s.backend = "hash" => s.ttl = Never
        /\ s.hides => s.backend = "memory"}

Ops == {"set", "get", "stat", "delete", "update", "remove", "scan", "gc"}

ASSUME LeafAssumption ==
    /\ Limit \in Nat \ {0} /\ {MaxTime, MaxWrites} \subseteq Nat
    /\ Unset # Never /\ Unset \notin Nat /\ Never \notin Nat
    /\ Nothing \notin Key /\ Nothing \notin Client
    /\ Setup \subseteq Setups(Nat \cup {Never})
    /\ WriteArg \subseteq [ttl : Nat \cup {Unset, Never}, past : BOOLEAN]
    /\ Op \in [Client -> SUBSET Ops]

Plus(moment, duration) == IF duration = Never THEN Never ELSE moment + duration
Passed(moment) == moment # Never /\ clock >= moment
ResolveTtl(ttl) == IF ttl = Unset THEN setup.ttl ELSE ttl

Idle == [op |-> "none", step |-> "idle", key |-> Nothing, new |-> <<>>, seen |-> Nothing,
         raced |-> {}, keys |-> {}, start |-> {}, out |-> {}]

Init ==
    /\ setup \in Setup
    /\ entry = <<>>
    /\ clock = 0 /\ writes = 0 /\ torn = {}
    /\ call = [c \in Client |-> Idle]

At(c, step) == call[c].step = step
Redis == setup.backend # "memory"
Has(c) == call[c].key \in DOMAIN entry
Entry(c) == entry[call[c].key]
Put(k, e) == [j \in DOMAIN entry \cup {k} |-> IF j = k THEN e ELSE entry[j]]
Without(ks) == [j \in DOMAIN entry \ ks |-> entry[j]]

\* Two states of an entry, as the key's watchers and the readers see them.
Differ(new) ==
    {k \in DOMAIN entry \cup DOMAIN new :
        ~(k \in DOMAIN entry /\ k \in DOMAIN new /\ entry[k] = new[k])}

\* The entries become new, client c's call cl; the other calls are raced.
Becomes(c, new, cl) ==
    /\ entry' = new
    /\ call' = [d \in Client |-> IF d = c THEN cl
                                 ELSE IF At(d, "idle") THEN call[d]
                                 ELSE [call[d] EXCEPT !.raced = @ \cup Differ(new)]]

Goes(c, cl) == call' = [call EXCEPT ![c] = cl] /\ UNCHANGED entry
Still == UNCHANGED <<setup, clock, writes, torn>>

\* Time passes, and Redis drops what has run out.
Tick ==
    LET gone == {k \in DOMAIN entry : Redis /\ entry[k].expires # Never
                                            /\ clock + 1 >= entry[k].expires}
    IN /\ clock < MaxTime
       /\ clock' = clock + 1
       /\ Becomes(Nothing, Without(gone), Idle)
       /\ UNCHANGED <<setup, writes, torn>>

-----------------------------------------------------------------------------
Writers == {"set", "update"}

\* The mutant of NewEntry: the TTL counts from the write, not from created_at.
CountsFromNow(body, arg) ==
    [body |-> body, id |-> writes + 1, expires |-> Plus(clock, ResolveTtl(arg.ttl)),
     due |-> Plus(IF arg.past THEN 0 ELSE clock, ResolveTtl(arg.ttl))]

\* _clock_base and _expires_at: what the entry is to be, and when it is due.
NewEntry(body, arg) ==
    LET base == IF arg.past THEN 0 ELSE clock
    IN [body |-> body, id |-> writes + 1, expires |-> Plus(base, ResolveTtl(arg.ttl)),
        due |-> Plus(base, ResolveTtl(arg.ttl))]

\* require_explicit_ttl_supported, require_write_clock_supported.
Accepts(arg) == setup.backend = "hash" => arg.ttl = Unset /\ ~arg.past

Begin(c, op, k, body, arg) ==
    /\ At(c, "idle")
    /\ op \in Writers => writes < MaxWrites /\ Accepts(arg)
    /\ writes' = IF op \in Writers THEN writes + 1 ELSE writes
    /\ Goes(c, [Idle EXCEPT
            !.op = op, !.key = IF op \in {"scan", "gc"} THEN Nothing ELSE k,
            !.new = IF op \in Writers THEN NewEntry(body, arg) ELSE <<>>,
            !.start = IF op = "scan" THEN DOMAIN entry ELSE {},
            !.keys = IF op = "scan" THEN DOMAIN entry ELSE {},
            !.step = CASE op = "set" -> IF Redis /\ arg.past /\ ResolveTtl(arg.ttl) # Never
                                        THEN "set_bare" ELSE "set"
                       [] op = "get" -> "get"
                       [] op = "stat" -> "exists"
                       [] op = "delete" -> "delete"
                       [] op \in {"update", "remove"} -> "version"
                       [] op = "scan" -> "scan"
                       [] op = "gc" -> "expired"])
    /\ UNCHANGED <<setup, clock, torn>>

\* An expiry that has passed removes the key in Redis.
Stored(c, e) == IF Redis /\ Passed(e.expires) THEN Without({call[c].key}) ELSE Put(call[c].key, e)

\* SET key value EX ttl, HSET, or the dict's entry.
Set(c) ==
    /\ At(c, "set")
    /\ Becomes(c, Stored(c, call[c].new), Idle)
    /\ torn' = torn \ {call[c].key}
    /\ UNCHANGED <<setup, clock, writes>>

\* With created_at, SET without an expiry and then EXPIREAT.
SetBare(c) ==
    /\ At(c, "set_bare")
    /\ Becomes(c, Put(call[c].key, [call[c].new EXCEPT !.expires = Never]),
               [call[c] EXCEPT !.step = "expireat", !.raced = {}])
    /\ torn' = torn \ {call[c].key}
    /\ UNCHANGED <<setup, clock, writes>>

ExpireAt(c) ==
    /\ At(c, "expireat")
    /\ Becomes(c, IF Has(c) THEN Stored(c, [Entry(c) EXCEPT !.expires = call[c].new.expires])
                  ELSE entry, Idle)
    /\ torn' = IF Has(c) /\ Entry(c).id # call[c].new.id THEN torn \cup {call[c].key} ELSE torn
    /\ UNCHANGED <<setup, clock, writes>>

\* The client dies between the two commands.
Die(c) ==
    /\ At(c, "expireat")
    /\ Goes(c, Idle)
    /\ torn' = IF Has(c) /\ Entry(c).id = call[c].new.id THEN torn \cup {call[c].key} ELSE torn
    /\ UNCHANGED <<setup, clock, writes>>

Delete(c) ==
    /\ At(c, "delete")
    /\ Becomes(c, Without({call[c].key}), Idle)
    /\ Still

-----------------------------------------------------------------------------
Expired(e) == Passed(e.expires)

\* The mutant of LiveEntry: an entry with an expiry is dropped.
DropsMortal(c) ==
    IF Has(c) /\ Entry(c).expires # Never /\ ~setup.hides THEN Without({call[c].key}) ELSE entry

\* _live_entry: the memory backend drops the expired entry it meets.
LiveEntry(c) == IF Has(c) /\ Expired(Entry(c)) /\ ~setup.hides THEN Without({call[c].key}) ELSE entry

\* get, exists, batch_get, batch_exists; and the memory backend's stat.
Get(c) ==
    /\ At(c, "get") \/ (At(c, "exists") /\ ~Redis)
    /\ Becomes(c, LiveEntry(c), Idle)
    /\ Still

\* stat: EXISTS, then PTTL, which is negative for no expiry and for no key.
Exists(c) ==
    /\ At(c, "exists") /\ Redis
    /\ Goes(c, IF Has(c) THEN [call[c] EXCEPT !.step = "pttl", !.raced = {}] ELSE Idle)
    /\ Still

Pttl(c) ==
    /\ At(c, "pttl")
    /\ Goes(c, [call[c] EXCEPT !.step = "answered",
                  !.seen = IF Has(c) /\ setup.backend = "flat" THEN Entry(c).expires ELSE Never])
    /\ Still

-----------------------------------------------------------------------------
\* The version is the stored bytes in Redis, the entry itself in memory.
VersionOf(e) == IF Redis THEN <<e.body>> ELSE <<e.id>>
Version(c) == IF Has(c) THEN VersionOf(Entry(c)) ELSE <<>>

\* batch_read_versioned.
ReadVersioned(c) ==
    /\ At(c, "version")
    /\ Goes(c, IF call[c].op = "remove" /\ ~Has(c) THEN Idle
               ELSE [call[c] EXCEPT !.seen = Version(c),
                       !.step = IF ~Redis THEN "swap" ELSE IF Has(c) THEN "watch" ELSE "insert"])
    /\ Still

Changed(c) == IF call[c].op = "remove" THEN Without({call[c].key}) ELSE Stored(c, call[c].new)
Unmarks(c) == torn' = torn \ {call[c].key} /\ UNCHANGED <<setup, clock, writes>>

\* The memory backend's batch_write_if_unchanged: compare and write are one step.
SwapEntry(c) ==
    /\ At(c, "swap")
    /\ IF Version(c) = call[c].seen THEN Becomes(c, Changed(c), Idle) /\ Unmarks(c)
       ELSE Goes(c, Idle) /\ Still

\* _insert_if_absent: SET NX with its EX or EXAT, HSETNX.
InsertIfAbsent(c) ==
    /\ At(c, "insert")
    /\ IF Has(c) THEN Goes(c, Idle) /\ Still ELSE Becomes(c, Changed(c), Idle) /\ Unmarks(c)

\* The mutant of Watch: what is there is not compared.
WatchOnly(c) ==
    /\ At(c, "watch")
    /\ Goes(c, [call[c] EXCEPT !.step = "exec", !.raced = {}])
    /\ Still

\* _swap_if_unchanged: WATCH and read; then MULTI and EXEC, which Redis discards if
\* the key, or any field of the watched hash, was touched since.
Watch(c) ==
    /\ At(c, "watch")
    /\ Goes(c, IF Version(c) = call[c].seen THEN [call[c] EXCEPT !.step = "exec", !.raced = {}]
               ELSE Idle)
    /\ Still

Discards(c) ==
    IF setup.backend = "hash" THEN call[c].raced # {} ELSE call[c].key \in call[c].raced

Exec(c) ==
    /\ At(c, "exec")
    /\ IF Discards(c) THEN Goes(c, Idle) /\ Still ELSE Becomes(c, Changed(c), Idle) /\ Unmarks(c)

-----------------------------------------------------------------------------

(***************************************************************************)
(* scan_entries.  SCAN and HSCAN return some of the keys at a time, and    *)
(* every key that stays; the values of a page are read after it, and a key *)
(* without one is passed over.  The memory backend lists the keys first    *)
(* and looks each up as it gets there.                                     *)
(***************************************************************************)
Scan(c) ==
    /\ At(c, "scan")
    /\ IF call[c].keys = {} THEN Goes(c, [call[c] EXCEPT !.step = "answered"])
       ELSE \E k \in call[c].keys :
              LET met == k \in DOMAIN entry
                  dead == met /\ Expired(entry[k])
              IN Becomes(c, IF dead /\ ~setup.hides THEN Without({k}) ELSE entry,
                         [call[c] EXCEPT !.keys = @ \ {k},
                                         !.out = IF met /\ ~dead THEN @ \cup {k} ELSE @])
    /\ Still

\* gc_expired_keys: expired_keys up to the limit, then batch_delete.  Redis has no
\* expired keys to tell of.
ExpiredKeys(c) ==
    LET dead == {k \in DOMAIN entry : Expired(entry[k])}
    IN /\ At(c, "expired")
       /\ \E found \in SUBSET dead :
            /\ Cardinality(found) = IF Cardinality(dead) < Limit THEN Cardinality(dead) ELSE Limit
            /\ Goes(c, IF found = {} THEN Idle
                       ELSE [call[c] EXCEPT !.step = "collect", !.keys = found, !.raced = {}])
       /\ Still

Collect(c) ==
    /\ At(c, "collect")
    /\ Becomes(c, Without(call[c].keys), Idle)
    /\ Still

Return(c) ==
    /\ At(c, "answered")
    /\ Goes(c, Idle)
    /\ Still

Step(c) ==
    \/ Set(c) \/ SetBare(c) \/ ExpireAt(c) \/ Die(c) \/ Delete(c)
    \/ Get(c) \/ Exists(c) \/ Pttl(c)
    \/ ReadVersioned(c) \/ SwapEntry(c) \/ InsertIfAbsent(c) \/ Watch(c) \/ Exec(c)
    \/ Scan(c) \/ ExpiredKeys(c) \/ Collect(c) \/ Return(c)

Next ==
    \/ Tick
    \/ \E c \in Client : Step(c)
    \/ \E c \in Client, k \in Key, body \in Body, arg \in WriteArg :
         \E op \in Op[c] : Begin(c, op, k, body, arg)

Spec == Init /\ [][Next]_vars

-----------------------------------------------------------------------------
Moments == Nat \cup {Never}

\* The types of the state; and Redis keeps no entry that has run out.
TypeOK ==
    /\ DOMAIN entry \subseteq Key
    /\ \A k \in DOMAIN entry :
         entry[k] \in [body : Body, id : 1..writes, expires : Moments, due : Moments]
    /\ \A k \in DOMAIN entry : Redis => ~Expired(entry[k])
    /\ torn \subseteq Key

\* An entry is due when its writer asked, with no gap in which a reader could take
\* it for one that never expires, unless its writer is between SET and EXPIREAT,
\* died there, or another write came in between.
ExpiresAsAsked ==
    \A k \in DOMAIN entry \ torn :
        \/ entry[k].expires = entry[k].due
        \/ \E c \in Client : At(c, "expireat") /\ call[c].new.id = entry[k].id

\* keymap.py, update: what is written replaces what decide saw, while others write,
\* delete and expire between the read, the watch and the transaction.
UpdateReplacesWhatItSaw(c) ==
    /\ call[c].step \in {"swap", "insert", "exec"} /\ call'[c].step = "idle"
    /\ Differ(entry') # {}
    => Version(c) = call[c].seen

\* A transaction in Redis that another caller's write precedes is not carried out,
\* even where the bytes are the same again: the expiry is that of the last write.
ExecSeesEveryTouch(c) ==
    At(c, "exec") /\ call'[c].step = "idle" /\ call[c].key \in call[c].raced
    => entry' = entry

\* A conditional write goes through only over the entry it was decided on: the bytes
\* decide saw, and in Redis the very write, by WATCH (_swap_if_unchanged).
SwapsWhatItSaw ==
    [][\A c \in Client : UpdateReplacesWhatItSaw(c) /\ ExecSeesEveryTouch(c)]_vars

\* stat tells of no expiry only where the entry has none, or went or changed between
\* its two commands.
StatTellsTheExpiry ==
    \A c \in Client :
        At(c, "answered") /\ call[c].op = "stat" /\ call[c].seen = Never =>
            call[c].key \in call[c].raced \/ (Has(c) /\ Entry(c).expires = Never)

\* Reads, scans and gc of the memory backend remove an entry of their own accord
\* only when it has run out, or was written since gc listed it.
CollectsOnlyTheExpired ==
    [][\A c \in Client, k \in Key :
         /\ call[c].op \in {"get", "stat", "scan", "gc"} /\ call'[c] # call[c] /\ clock' = clock
         /\ k \in DOMAIN entry \ DOMAIN entry'
         /\ \A d \in Client \ {c} : call'[d].step = call[d].step
         => k \in call[c].raced \/ Passed(entry[k].due)]_vars

\* A scan has listed every key whose entry was there, unchanged, all the time.
ScanListsTheSteady ==
    \A c \in Client : At(c, "answered") /\ call[c].op = "scan" =>
        \A k \in (call[c].start \ call[c].raced) \cap DOMAIN entry :
            k \in call[c].out \/ Expired(entry[k])

\* Entries are kept for as long as asked, and what stat and scan tell of them is so,
\* while they change between the commands of one call (redis.py, memory.py).
TellsWhatIsKept == TypeOK /\ ExpiresAsAsked /\ StatTellsTheExpiry /\ ScanListsTheSteady
=============================================================================
