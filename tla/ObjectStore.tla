---------------------------- MODULE ObjectStore ----------------------------
(***************************************************************************)
(* Calls to one object-store collection (backends/object/store.py over     *)
(* driver.py and its S3, GCS, Azure and file system drivers), one action   *)
(* per request to the medium.                                              *)
(*                                                                         *)
(* Expiry is emulated: an expired object stays stored until some call      *)
(* removes it, and that call decides on what an earlier request told it.   *)
(* The file system's writes are single steps here; FileDriver opens them.  *)
(***************************************************************************)
EXTENDS Expiry, FiniteSets

CONSTANTS
    Key, Client, Body,
    Nothing,      \* no object; a call's field not in use
    Setup,        \* provisions a run covers: medium, source, ttl and gc mode
    WriteArg,     \* what writers pass for ttl= and created_at=
    Op,           \* calls the clients make
    GcLimit,      \* max_entries of a gc
    MaxTime,      \* bound: the clock
    MaxWrites     \* bound: objects written

ASSUME ObjectAssumption ==
    /\ \A s \in Setup : /\ [medium |-> s.medium, source |-> s.source] \in Provisions
                       /\ s.ttl \in Nat \cup {Never} /\ s.gc \in {"lazy", "hide"}
    /\ \A w \in WriteArg : /\ w.ttl \in Nat \cup {Unset, Never}
                          /\ w.created \in Nat \cup {Unset}
    /\ GcLimit \in Nat \ {0} /\ MaxTime \in Nat /\ MaxWrites \in Nat
    /\ Body # {} /\ Nothing \notin Key
    /\ Op \subseteq {"get", "exists", "read_stream", "delete", "insert", "update",
                     "batch_delete", "scan", "keys", "gc"}

VARIABLES
    setup,     \* the provision of this collection
    now,       \* the clock
    object,    \* what the medium stores under each key
    call,      \* the call each client is in
    writes     \* objects written so far; the last one's id

vars == <<setup, now, object, call, writes>>

Driver == BlobDriver[setup.medium]
Expired(o) == IsExpired(setup.source, o, setup.ttl, now)
Lazy == setup.gc = "lazy"

(***************************************************************************)
(* What the medium stores for a write.  due and exact record the request   *)
(* for the properties; no action reads them.                               *)
(***************************************************************************)
Stored(body, ttl, created) ==
    [id |-> writes + 1,
     body |-> body,
     modified |-> ModifiedAt(setup.source, created, now),
     native |-> NativeExpiry(setup.source, ttl, setup.ttl, ClockBase(created, now)),
     due |-> AskedExpiry(ttl, setup.ttl, created, now),
     exact |-> ~ClockDropped(setup.source, ttl, created)]

\* The token of the medium's conditional requests: S3's is its ETag, which
\* tells contents apart and not writes.
Version(o) == IF Driver.digest THEN o.body ELSE o.id

\* What a listing tells of an object: S3's leaves out the Expires header.
Listed(o) == IF Driver.tells THEN o ELSE [o EXCEPT !.native = Unset]

\* Mutant: the listing is trusted.
TrustsListing == Driver.walks

\* Rows judged on a request of their own: _enrich_list_stat, and the file
\* system's walk, which stats each file as it reaches it.
StatsRows == TtlSource[setup.source].head \/ Driver.walks

Listings == {"scan", "keys", "gc"}
FirstStep(op) ==
    CASE op \in {"get", "update"} -> "read"
      [] op \in {"exists", "read_stream", "batch_delete"} -> "head"
      [] op = "delete" -> "probe"
      [] op = "insert" -> "write"
      [] op \in Listings -> "list"

NoCall == [op |-> "none", step |-> "idle", phase |-> "point", key |-> Nothing, todo |-> {},
           listed |-> Nothing, saw |-> Nothing, shown |-> Nothing, found |-> {},
           present |-> {}, out |-> {}, began |-> 0, mark |-> 0]

Init ==
    /\ setup \in Setup
    /\ now = 0
    /\ object = [k \in Key |-> Nothing]
    /\ call = [c \in Client |-> NoCall]
    /\ writes = 0

-----------------------------------------------------------------------------
Ended(cl, step) ==
    [NoCall EXCEPT !.op = cl.op, !.step = step, !.out = cl.out, !.found = cl.found,
                   !.began = cl.began, !.mark = cl.mark]
Done(cl) == Ended(cl, "done")
Failed(cl) == Ended(cl, "failed")

(***************************************************************************)
(* How a call goes on after one key: the next row of a listing, the next   *)
(* key of a batch, the removal of a chunk, or the end.  A gc that listed   *)
(* something hands it to batch_delete.                                     *)
(***************************************************************************)
Onward(cl) ==
    LET full == cl.op = "gc" /\ cl.phase = "list" /\ Cardinality(cl.found) = GcLimit
        pick(keys, phase, step) ==
            {[cl EXCEPT !.key = k, !.todo = keys \ {k}, !.phase = phase, !.step = step,
                        !.saw = Nothing] : k \in keys}
        collected == {f.key : f \in cl.found}
    IN CASE cl.phase = "point" -> {Done(cl)}
         [] cl.phase = "list" /\ cl.todo # {} /\ ~full -> pick(cl.todo, "list", "row")
         [] cl.phase = "list" /\ (cl.todo = {} \/ full) ->
              IF collected = {} THEN {Done(cl)} ELSE pick(collected, "sweep", "head")
         [] cl.phase = "sweep" /\ cl.todo # {} -> pick(cl.todo, "sweep", "head")
         [] OTHER -> {IF cl.present = {} THEN Done(cl) ELSE [cl EXCEPT !.step = "bulk"]}

\* Mutant: an expired object is never deleted on the way.
HiddenOnly(cl, stat) == Onward(cl)

\* A call found its key expired: lazily it deletes it, otherwise it hides it.
Hidden(cl, stat) ==
    IF Lazy THEN {[cl EXCEPT !.step = "probe", !.saw = stat]} ELSE Onward(cl)

\* A call found its key live.
Alive(cl, stat) ==
    CASE cl.op = "read_stream" -> {[cl EXCEPT !.step = "chunks"]}
      [] cl.phase = "sweep" /\ ~Driver.bulk -> {[cl EXCEPT !.step = "probe"]}
      [] cl.phase = "sweep" /\ Driver.bulk ->
           Onward([cl EXCEPT !.present = @ \cup {cl.key}])
      [] OTHER -> Onward(cl)

\* Mutant: the body is returned without a look at its expiry.
Unjudged(cl, stat, body) ==
    IF cl.op = "update" THEN {[cl EXCEPT !.step = "write", !.saw = stat, !.shown = body]}
    ELSE Onward([cl EXCEPT !.out = @ \cup {body}])

\* A body was read: expiry is judged on the stat that came with it.
Judged(cl, stat, body) ==
    CASE cl.op = "update" ->
           {[cl EXCEPT !.step = "write", !.saw = stat,
                       !.shown = IF Expired(stat) THEN Nothing ELSE body]}
      [] cl.op # "update" /\ Expired(stat) -> Hidden(cl, stat)
      [] OTHER -> Onward([cl EXCEPT !.out = @ \cup {body}])

\* No object was there.
Missing(cl) ==
    IF cl.op = "update" THEN {[cl EXCEPT !.step = "write"]} ELSE Onward(cl)

Continue(c, next) ==
    /\ \E cl \in next : call' = [call EXCEPT ![c] = cl]
    /\ UNCHANGED <<setup, now>>

At(c, step) == call[c].step = step
Kept == UNCHANGED <<object, writes>>

-----------------------------------------------------------------------------
Tick ==
    /\ now < MaxTime
    /\ now' = now + 1
    /\ UNCHANGED <<setup, object, call, writes>>

\* set and set_stream: one unconditional put.
Set(k, body, ttl, created) ==
    /\ writes < MaxWrites
    /\ Honours(setup.source, ttl, created)
    /\ object' = [object EXCEPT ![k] = Stored(body, ttl, created)]
    /\ writes' = writes + 1
    /\ UNCHANGED <<setup, now, call>>

\* Another process deletes the object, or the bucket's lifecycle rule does.
Vanish(k) ==
    /\ object[k] # Nothing
    /\ object' = [object EXCEPT ![k] = Nothing]
    /\ UNCHANGED <<setup, now, call, writes>>

Begin(c, op) ==
    /\ At(c, "idle")
    /\ \E keys \in (IF op \in Listings THEN {{}}
                    ELSE IF op = "batch_delete" THEN (SUBSET Key) \ {{}}
                    ELSE {{k} : k \in Key}), k \in Key \cup {Nothing} :
         /\ IF keys = {} THEN k = Nothing ELSE k \in keys
         /\ call' = [call EXCEPT ![c] =
                [NoCall EXCEPT !.op = op, !.step = FirstStep(op), !.key = k,
                               !.todo = keys \ {k}, !.began = now, !.mark = writes,
                               !.phase = CASE op \in Listings -> "list"
                                           [] op = "batch_delete" -> "sweep"
                                           [] OTHER -> "point"]]
    /\ Kept /\ UNCHANGED <<setup, now>>

\* _live_stat: exists, stat, read_stream and the keys of batch_delete.
Head(c) ==
    /\ At(c, "head")
    /\ LET o == object[call[c].key]
       IN Continue(c, CASE o = Nothing -> Missing(call[c])
                        [] o # Nothing /\ Expired(o) -> Hidden(call[c], o)
                        [] OTHER -> Alive(call[c], o))
    /\ Kept

\* driver.read: one request on S3, a stat and then a body elsewhere.
Read(c) ==
    /\ At(c, "read")
    /\ LET o == object[call[c].key]
       IN Continue(c, CASE o = Nothing -> Missing(call[c])
                        [] o # Nothing /\ Driver.one_read -> Judged(call[c], o, o)
                        [] OTHER -> {[call[c] EXCEPT !.step = "body", !.saw = o]})
    /\ Kept

\* The body may be of a later object than the stat, or gone: then the call
\* misses, except on GCS, whose download raises.
ReadBody(c) ==
    /\ At(c, "body")
    /\ LET o == object[call[c].key]
       IN IF o # Nothing THEN Continue(c, Judged(call[c], call[c].saw, o))
          ELSE Continue(c, IF "download" \in Driver.raises THEN {Failed(call[c])}
                           ELSE Missing([call[c] EXCEPT !.saw = Nothing]))
    /\ Kept

\* driver.read_chunks, after the head of read_stream found the key live.
ReadChunks(c) ==
    /\ At(c, "chunks")
    /\ LET o == object[call[c].key]
       IN Continue(c, {Done([call[c] EXCEPT !.out = {o} \ {Nothing}])})
    /\ Kept

\* driver.delete looks first; the file system unlinks whatever it saw.
Probe(c) ==
    /\ At(c, "probe")
    /\ Continue(c, IF object[call[c].key] # Nothing \/ ~Driver.probes
                   THEN {[call[c] EXCEPT !.step = "remove"]} ELSE Onward(call[c]))
    /\ Kept

\* The unconditional delete.  GCS and Azure raise if the object is gone.
Remove(c) ==
    /\ At(c, "remove")
    /\ object' = [object EXCEPT ![call[c].key] = Nothing]
    /\ Continue(c, IF object[call[c].key] = Nothing /\ "delete" \in Driver.raises
                   THEN {Failed(call[c])} ELSE Onward(call[c]))
    /\ UNCHANGED writes

\* driver.bulk_delete of the keys of a batch that were live.
BulkDelete(c) ==
    /\ At(c, "bulk")
    /\ object' = [k \in Key |-> IF k \in call[c].present THEN Nothing ELSE object[k]]
    /\ Continue(c, {Done(call[c])})
    /\ UNCHANGED writes

\* driver.list, one page.
List(c) ==
    /\ At(c, "list")
    /\ LET there == {k \in Key : object[k] # Nothing}
       IN Continue(c, Onward([call[c] EXCEPT
                        !.todo = there,
                        !.listed = IF StatsRows THEN Nothing
                                   ELSE [k \in there |-> Listed(object[k])]]))
    /\ Kept

\* One listed row of a scan or of expired_keys.
Row(c) ==
    /\ At(c, "row")
    /\ LET cl == call[c]
           stat == IF StatsRows THEN object[cl.key] ELSE cl.listed[cl.key]
       IN Continue(c,
            CASE stat = Nothing -> Onward(cl)
              [] stat # Nothing /\ Expired(stat) ->
                   IF cl.op = "gc"
                   THEN Onward([cl EXCEPT !.found = @ \cup {[key |-> cl.key, id |-> stat.id]}])
                   ELSE Hidden(cl, stat)
              [] OTHER -> IF cl.op = "scan" THEN {[cl EXCEPT !.step = "read"]} ELSE Onward(cl))
    /\ Kept

\* Mutant: a head request and then a put.
MatchesPresence(c) == (call[c].saw = Nothing) <=> (object[call[c].key] = Nothing)

(***************************************************************************)
(* batch_write_if_unchanged for one key: write_if_version or               *)
(* delete_if_version against the version read, or an insert where nothing  *)
(* was read.  The file system has no conditional replace and raises.       *)
(***************************************************************************)
Matches(c) ==
    LET o == object[call[c].key]
    IN IF call[c].saw = Nothing THEN o = Nothing
       ELSE o # Nothing /\ Version(o) = Version(call[c].saw) /\ Driver.replaces

WriteIf(c, body, ttl, created) ==
    /\ At(c, "write")
    /\ writes < MaxWrites
    /\ Honours(setup.source, ttl, created)
    /\ Matches(c)
    /\ object' = [object EXCEPT ![call[c].key] = Stored(body, ttl, created)]
    /\ writes' = writes + 1
    /\ Continue(c, {Done(call[c])})

DeleteIf(c) ==
    /\ At(c, "write") /\ call[c].op = "update"
    /\ call[c].saw # Nothing
    /\ Matches(c)
    /\ object' = [object EXCEPT ![call[c].key] = Nothing]
    /\ Continue(c, {Done(call[c])})
    /\ UNCHANGED writes

\* The decision was to keep, the precondition failed, the request conflicted
\* three times or the medium refuses: nothing is written.
WriteNothing(c) ==
    /\ At(c, "write")
    /\ Continue(c, {Done(call[c])})
    /\ Kept

Return(c) ==
    /\ At(c, "done") \/ At(c, "failed")
    /\ Continue(c, {NoCall})
    /\ Kept

\* Contents are told apart only where the version is a digest of them.
Contents == IF Driver.digest THEN Body ELSE {CHOOSE b \in Body : TRUE}

Step(c) ==
    \/ Head(c) \/ Read(c) \/ ReadBody(c) \/ ReadChunks(c) \/ Probe(c) \/ Remove(c)
    \/ BulkDelete(c) \/ List(c) \/ Row(c) \/ DeleteIf(c) \/ WriteNothing(c) \/ Return(c)
    \/ \E b \in Contents, w \in WriteArg : WriteIf(c, b, w.ttl, w.created)

Next ==
    \/ Tick
    \/ \E k \in Key, b \in Contents, w \in WriteArg : Set(k, b, w.ttl, w.created)
    \/ \E k \in Key : Vanish(k)
    \/ \E c \in Client, op \in Op : Begin(c, op)
    \/ \E c \in Client : Step(c)

Spec == Init /\ [][Next]_vars

-----------------------------------------------------------------------------
Moment == (Nat \cup {Never})
Object ==
    [id : Nat, body : Body, modified : Nat, native : Moment \cup {Unset}, due : Moment,
     exact : BOOLEAN]

\* The types of the state: the objects of the bucket, their times, and the keys the
\* calls on them are still to visit.
TypeOK ==
    /\ setup \in Setup
    /\ now \in Nat
    /\ object \in [Key -> Object \cup {Nothing}]
    /\ \A c \in Client : call[c].key \in Key \cup {Nothing} /\ call[c].todo \subseteq Key
    /\ writes \in Nat

\* Every source carries a write's own TTL and clock to the medium and back: an
\* object reads as expired from the moment its writer asked for, no sooner and
\* no later.  Left out are the writes whose clock the source does not carry.
ExpiresAsAsked ==
    \A k \in Key : object[k] # Nothing /\ object[k].exact =>
        (Expired(object[k]) <=> object[k].due # Never /\ now >= object[k].due)

\* stat() tells when a get will stop answering: the expiry reported for an
\* object is the moment from which it reads as expired.
StatTellsTheExpiry ==
    \A k \in Key : object[k] # Nothing =>
        LET e == ReportedExpiry(setup.source, object[k], setup.ttl)
        IN \A t \in 0..MaxTime :
             IsExpired(setup.source, object[k], setup.ttl, t) <=> e # Never /\ t >= e

\* What is stored is well typed, expires when its writer asked, and stat() says so
\* (backends/object/ttl.py, to the medium and back).
KeptAsAsked == TypeOK /\ ExpiresAsAsked /\ StatTellsTheExpiry

\* No read answers with an object that had expired before the call began,
\* although the stat it judged may be of an older object than the body: what it
\* did not see expire was written during the call.
NoExpiredAnswer ==
    \A c \in Client : \A o \in call[c].out :
        o.id > call[c].mark \/ ~IsExpired(setup.source, o, setup.ttl, call[c].began)

\* Collecting expired objects, lazily or by gc, removes what had expired or what
\* was written while the call was under way.
CollectsOnlyTheExpired ==
    [][\A c \in Client, k \in Key :
         /\ call[c].op \notin {"none", "delete", "batch_delete", "update", "insert"}
         /\ call'[c] # call[c]
         /\ object[k] # Nothing /\ object'[k] = Nothing
         => Expired(object[k]) \/ object[k].id > call[c].mark]_vars

\* gc removes the objects it reports, whatever else goes on (backends/object:
\* found by the listing, removed by batch_delete); here with lazy deletion.
GcRemovesWhatItReports ==
    \A c \in Client : Lazy /\ call[c].op = "gc" /\ At(c, "done") =>
        \A f \in call[c].found :
            object[f.key] = Nothing \/ object[f.key].id # f.id

\* The same of either mode: store/schema/ttl.py says of ExpiryGc that gc "always
\* deletes expired entries it finds, regardless of this setting".  batch_delete
\* passes over what a hidden entry's exists() denies, so with HIDE it is false.
GcDeletesInEitherMode ==
    \A c \in Client : call[c].op = "gc" /\ At(c, "done") =>
        \A f \in call[c].found :
            object[f.key] = Nothing \/ object[f.key].id # f.id

\* An update replaces or removes the entry whose body it was shown.  The version
\* is read before the body, so a body read late fails the precondition; S3
\* compares contents.
UpdateReplacesWhatItSaw ==
    [][\A c \in Client :
         /\ call[c].op = "update" /\ At(c, "write")
         /\ call'[c] # call[c]
         /\ object[call[c].key] # Nothing /\ object' # object
         => LET o == object[call[c].key]
            IN IF Driver.digest THEN o.body = call[c].saw.body
               ELSE /\ o.id = call[c].saw.id
                    /\ call[c].shown # Nothing => call[c].shown.id = o.id]_vars
=============================================================================
