------------------------- MODULE LeafEntries_proofs -------------------------
(***************************************************************************)
(* Theorems about LeafEntries: the Redis and memory backends with any      *)
(* number of clients, keys and values, any TTL policy and any bound.       *)
(***************************************************************************)
EXTENDS LeafEntries, TLAPS

EntryType == [body : Body, id : Nat, expires : Moments, due : Moments]
Steps == {"idle", "set", "set_bare", "expireat", "get", "exists", "pttl", "answered", "delete",
          "version", "swap", "insert", "watch", "exec", "scan", "expired", "collect"}
Seen == Moments \cup {Nothing} \cup Seq(Body \cup Nat)
CallType ==
    [op : Ops \cup {"none"}, step : Steps, key : Key \cup {Nothing}, new : EntryType \cup {<<>>},
     seen : Seen, raced : SUBSET Key, keys : SUBSET Key, start : SUBSET Key, out : SUBSET Key]

-----------------------------------------------------------------------------
(***************************************************************************)
(* The inductive invariant.                                                *)
(***************************************************************************)

\* The types, of the calls too.
Typed ==
    /\ setup \in Setup /\ clock \in Nat /\ writes \in Nat /\ torn \subseteq Key
    /\ DOMAIN entry \subseteq Key
    /\ \A k \in DOMAIN entry : entry[k] \in EntryType /\ entry[k].id \in 1..writes
    /\ call \in [Client -> CallType]

\* Which step belongs to which call; only Redis has the expiry by itself.
StepOf(c) ==
    /\ call[c].step = "idle" => call[c] = Idle
    /\ call[c].step \in {"set", "set_bare", "expireat"} => call[c].op = "set"
    /\ call[c].step \in {"set_bare", "expireat", "pttl"} => Redis
    /\ call[c].step = "get" => call[c].op = "get"
    /\ call[c].step \in {"exists", "pttl"} => call[c].op = "stat"
    /\ call[c].step = "delete" => call[c].op = "delete"
    /\ call[c].step \in {"version", "swap", "insert", "watch", "exec"}
         => call[c].op \in {"update", "remove"}
    /\ call[c].step = "scan" => call[c].op = "scan"
    /\ call[c].step \in {"expired", "collect"} => call[c].op = "gc"
    /\ call[c].step = "answered" => call[c].op \in {"stat", "scan"}

\* What a write is about to store: its id is its own, and its expiry what was asked.
Writing(c) == call[c].op \in Writers
WriteOf(c) ==
    Writing(c) =>
        /\ call[c].new \in EntryType /\ call[c].new.id \in 1..writes /\ call[c].key \in Key
        /\ call[c].new.expires = call[c].new.due
        /\ setup.backend = "hash" => call[c].new.expires = Never
        /\ \A k \in DOMAIN entry : entry[k].id = call[c].new.id =>
             k = call[c].key /\ entry[k].due = call[c].new.due
OwnIds ==
    \A c, d \in Client : Writing(c) /\ Writing(d) /\ c # d => call[c].new.id # call[d].new.id

\* What an unfinished call knows holds still, unless the key was touched since.
StatOf(c) ==
    /\ At(c, "pttl") => call[c].key \in call[c].raced \/ Has(c)
    /\ At(c, "answered") /\ call[c].op = "stat" /\ call[c].seen = Never =>
         call[c].key \in call[c].raced \/ (Has(c) /\ Entry(c).expires = Never)
ScanOf(c) ==
    call[c].op = "scan" =>
        /\ \A k \in (call[c].start \ call[c].raced) \cap DOMAIN entry :
             k \in call[c].keys \/ k \in call[c].out \/ Expired(entry[k])
        /\ At(c, "answered") => call[c].keys = {}
SwapOf(c) ==
    /\ At(c, "insert") => call[c].seen = <<>>
    /\ At(c, "exec") => call[c].key \in call[c].raced \/ Version(c) = call[c].seen
GcOf(c) ==
    At(c, "collect") =>
        \A k \in call[c].keys : k \in call[c].raced \/ (k \in DOMAIN entry /\ Passed(entry[k].due))

\* What is stored: Redis keeps nothing expired, a hash nothing that expires, and the
\* memory backend's expiry is always the one asked for.
StoredOf(k) ==
    /\ Redis => ~ Expired(entry[k])
    /\ setup.backend = "hash" => entry[k].expires = Never
    /\ ~ Redis => entry[k].expires = entry[k].due
    /\ k \notin torn =>
         \/ entry[k].expires = entry[k].due
         \/ \E c \in Client : At(c, "expireat") /\ call[c].new.id = entry[k].id

Knows(c) == StepOf(c) /\ StatOf(c) /\ ScanOf(c) /\ SwapOf(c) /\ GcOf(c)
Inv ==
    /\ Typed
    /\ OwnIds
    /\ \A c \in Client : Knows(c) /\ WriteOf(c)
    /\ \A k \in DOMAIN entry : StoredOf(k)

-----------------------------------------------------------------------------
(***************************************************************************)
(* What one step leaves of the calls it is not a step of.                  *)
(***************************************************************************)
Same(d) ==
    /\ call'[d].op = call[d].op /\ call'[d].step = call[d].step /\ call'[d].key = call[d].key
    /\ call'[d].new = call[d].new /\ call'[d].seen = call[d].seen /\ call'[d].keys = call[d].keys
    /\ call'[d].start = call[d].start /\ call'[d].out = call[d].out

\* A call looked on while the entries became what they are: it kept all it knew, and
\* the keys that changed are among those it was raced for.
Aside(d) ==
    /\ Same(d) /\ call'[d] \in CallType
    /\ call[d].raced \subseteq call'[d].raced
    /\ IF At(d, "idle") THEN call'[d] = call[d] ELSE Differ(entry') \subseteq call'[d].raced

\* Keys that are not in Differ have the entry they had, or none as before.
LEMMA NotDiffer ==
    ASSUME NEW k, k \notin Differ(entry')
    PROVE  /\ k \in DOMAIN entry <=> k \in DOMAIN entry'
           /\ k \in DOMAIN entry => entry'[k] = entry[k]
BY DEF Differ

\* The other calls look on, whoever changes the entries.
LEMMA OthersAside ==
    ASSUME Typed, NEW c, NEW new, NEW cl, Becomes(c, new, cl), DOMAIN new \subseteq Key,
           NEW d \in Client, d # c
    PROVE  Aside(d)
<1>1. entry' = new /\ call[d] \in CallType
  BY DEF Becomes, Typed
<1>2. Differ(entry') \subseteq Key
  BY <1>1 DEF Differ, Typed
<1>3. CASE At(d, "idle")
  BY <1>1, <1>3 DEF Becomes, Aside, Same, At
<1>4. CASE ~ At(d, "idle")
  <2>1. call'[d] = [call[d] EXCEPT !.raced = @ \cup Differ(entry')]
    BY <1>1, <1>4 DEF Becomes
  <2> QED
    BY <1>1, <1>2, <1>4, <2>1 DEF Aside, Same, CallType, At
<1> QED
  BY <1>3, <1>4

\* And so they do when nothing changes.
LEMMA OthersStay ==
    ASSUME Typed, NEW c, NEW cl, Goes(c, cl), NEW d \in Client, d # c
    PROVE  Aside(d) /\ call'[d] = call[d]
<1>1. call'[d] = call[d] /\ entry' = entry /\ call[d] \in CallType
  BY DEF Goes, Typed
<1>2. Differ(entry') = {}
  BY <1>1 DEF Differ
<1> QED
  BY <1>1, <1>2 DEF Aside, Same

\* The step of a call is its own: c has become cl.
LEMMA OwnStep ==
    ASSUME Typed, NEW c \in Client, NEW new, NEW cl, Becomes(c, new, cl) \/ Goes(c, cl)
    PROVE  call'[c] = cl /\ DOMAIN call' = Client
BY DEF Becomes, Goes, Typed

\* A passed moment stays passed.
LEMMA StaysPassed ==
    ASSUME clock \in Nat, clock' \in Nat, clock <= clock', NEW m \in Moments, Passed(m)
    PROVE  Passed(m)'
BY LeafAssumption DEF Passed, Moments

\* What a call knows outlives whatever is done beside it.
LEMMA AsideKnows ==
    ASSUME Inv, NEW d \in Client, Aside(d), setup' = setup, clock' \in Nat, clock <= clock',
           \A k \in DOMAIN entry' : entry'[k] \in EntryType
    PROVE  Knows(d)'
<1> USE DEF Inv
<1>1. /\ call[d] \in CallType /\ Knows(d) /\ Same(d) /\ call[d].raced \subseteq call'[d].raced
      /\ (~ At(d, "idle") => Differ(entry') \subseteq call'[d].raced)
      /\ (At(d, "idle") => call'[d] = call[d])
  BY DEF Aside, Typed
<1>2. StepOf(d)'
  BY <1>1 DEF Knows, StepOf, Same, At, Redis
<1>3. CASE At(d, "idle")
  <2>1. call'[d] = Idle
    BY <1>1, <1>3 DEF Knows, StepOf, At
  <2> QED
    BY <1>2, <2>1 DEF Knows, StatOf, ScanOf, SwapOf, GcOf, At, Idle
<1>4. CASE ~ At(d, "idle")
  <2>1. ASSUME NEW k, k \notin call'[d].raced
        PROVE  /\ k \notin call[d].raced
               /\ k \in DOMAIN entry <=> k \in DOMAIN entry'
               /\ k \in DOMAIN entry => entry'[k] = entry[k] /\ entry[k] \in EntryType
    BY <1>1, <1>4, <2>1, NotDiffer DEF Typed
  <2>2. \A m \in Moments : Passed(m) => Passed(m)'
    BY StaysPassed DEF Typed
  <2>3. StatOf(d)'
    BY <1>1, <2>1 DEF Knows, StatOf, Same, At, Has, Entry
  <2>4. ScanOf(d)'
    <3> SUFFICES ASSUME call'[d].op = "scan"
                 PROVE  /\ \A k \in (call'[d].start \ call'[d].raced) \cap DOMAIN entry' :
                             k \in call'[d].keys \/ k \in call'[d].out \/ Expired(entry[k])'
                        /\ At(d, "answered")' => call'[d].keys = {}
      BY DEF ScanOf
    <3>1. ASSUME NEW k \in (call'[d].start \ call'[d].raced) \cap DOMAIN entry'
          PROVE  k \in call'[d].keys \/ k \in call'[d].out \/ Expired(entry[k])'
      <4>1. k \in (call[d].start \ call[d].raced) \cap DOMAIN entry /\ entry'[k] = entry[k]
        BY <1>1, <2>1, <3>1 DEF Same
      <4>2. k \in call[d].keys \/ k \in call[d].out \/ Expired(entry[k])
        BY <1>1, <4>1 DEF Knows, ScanOf, Same
      <4>3. entry[k].expires \in Moments
        BY <2>1, <3>1, <4>1 DEF EntryType
      <4> QED
        BY <1>1, <2>2, <4>1, <4>2, <4>3 DEF Same, Expired
    <3> QED
      BY <1>1, <3>1 DEF Knows, ScanOf, Same, At
  <2>5. SwapOf(d)'
    BY <1>1, <2>1 DEF Knows, SwapOf, Same, At, Version, VersionOf, Has, Entry, Redis
  <2>6. GcOf(d)'
    <3> SUFFICES ASSUME At(d, "collect")', NEW k \in call'[d].keys, k \notin call'[d].raced
                 PROVE  k \in DOMAIN entry' /\ Passed(entry[k].due)'
      BY DEF GcOf
    <3>1. k \in DOMAIN entry /\ Passed(entry[k].due)
      BY <1>1, <2>1 DEF Knows, GcOf, Same, At
    <3>2. entry[k].due \in Moments /\ k \in DOMAIN entry' /\ entry'[k] = entry[k]
      BY <2>1, <3>1 DEF EntryType
    <3> QED
      BY <2>2, <3>1, <3>2
  <2> QED
    BY <1>2, <2>3, <2>4, <2>5, <2>6 DEF Knows
<1> QED
  BY <1>3, <1>4

-----------------------------------------------------------------------------
(***************************************************************************)
(* What a step of one call does to the entries: each is kept as it was, or *)
(* the call's key is given the entry that the call writes.                 *)
(***************************************************************************)
Kept(c, k) ==
    /\ k \in DOMAIN entry /\ entry'[k] = entry[k]
    /\ k \in torn => k \in torn'
    /\ At(c, "expireat") /\ call[c].new.id = entry[k].id => k \in torn'

Made(c, k) ==
    /\ Writing(c) /\ k = call[c].key
    /\ entry'[k] \in EntryType /\ StoredOf(k)'
    /\ \/ entry'[k].id = call[c].new.id /\ entry'[k].due = call[c].new.due
       \/ k \in DOMAIN entry /\ entry'[k].id = entry[k].id /\ entry'[k].due = entry[k].due

\* A call with no step to take knows nothing, and writes nothing.
LEMMA IdleKnows ==
    /\ Idle \in CallType /\ Idle.op \notin Writers
    /\ \A c \in Client : call'[c] = Idle => Knows(c)'
BY DEF Idle, CallType, Ops, Steps, Seen, Writers, Knows, StepOf, StatOf, ScanOf, SwapOf, GcOf, At

\* A step that keeps or makes every entry keeps the invariant of all.
LEMMA StepKeeps ==
    ASSUME Inv, NEW c \in Client, NEW cl \in CallType,
           Becomes(c, entry', cl) \/ Goes(c, cl),
           UNCHANGED <<setup, clock, writes>>, torn' \subseteq Key, DOMAIN entry' \subseteq Key,
           cl.op \in Writers =>
               Writing(c) /\ cl.new = call[c].new /\ cl.key = call[c].key,
           Knows(c)',
           \A k \in DOMAIN entry' : Kept(c, k) \/ Made(c, k)
    PROVE  Inv'
<1> USE DEF Inv
<1>1. \A d \in Client \ {c} : Aside(d)
  BY OthersAside, OthersStay
<1>2. call'[c] = cl /\ call' = [d \in Client |-> call'[d]]
  BY DEF Becomes, Goes, Typed
<1>3. \A k \in DOMAIN entry' : entry'[k] \in EntryType
  BY DEF Kept, Made, Typed
<1>4. \A d \in Client : Knows(d)'
  <2>1. ASSUME NEW d \in Client \ {c} PROVE Knows(d)'
    BY <1>1, <1>3, <2>1, AsideKnows DEF Typed
  <2> QED
    BY <2>1
<1>5. \A d \in Client : Writing(d)' =>
        Writing(d) /\ call'[d].new = call[d].new /\ call'[d].key = call[d].key
  BY <1>1, <1>2 DEF Aside, Same, Writing
<1>6. OwnIds'
  BY <1>5 DEF OwnIds
<1>7. ASSUME NEW d \in Client PROVE WriteOf(d)'
  <2> SUFFICES ASSUME Writing(d)' PROVE WriteOf(d)'
    BY DEF WriteOf
  <2>1. WriteOf(d) /\ Writing(d) /\ call'[d].new = call[d].new /\ call'[d].key = call[d].key
    BY <1>5
  <2>2. ASSUME NEW k \in DOMAIN entry', entry'[k].id = call[d].new.id
        PROVE  k = call[d].key /\ entry'[k].due = call[d].new.due
    <3>1. CASE k \in DOMAIN entry /\ entry'[k].id = entry[k].id /\ entry'[k].due = entry[k].due
      BY <2>1, <2>2, <3>1 DEF WriteOf
    <3>2. CASE /\ Writing(c) /\ k = call[c].key
               /\ entry'[k].id = call[c].new.id /\ entry'[k].due = call[c].new.due
      BY <2>1, <2>2, <3>2 DEF OwnIds
    <3> QED
      BY <2>2, <3>1, <3>2 DEF Kept, Made
  <2> QED
    BY <2>1, <2>2 DEF WriteOf
<1>8. ASSUME NEW k \in DOMAIN entry' PROVE StoredOf(k)'
  <2>1. CASE Made(c, k)
    BY <2>1 DEF Made
  <2>2. CASE Kept(c, k)
    <3>1. StoredOf(k) /\ entry'[k] = entry[k] /\ (k \notin torn' => k \notin torn)
      BY <2>2 DEF Kept
    <3>2. ASSUME k \notin torn', entry[k].expires # entry[k].due
          PROVE  \E d \in Client : At(d, "expireat")' /\ call'[d].new.id = entry[k].id
      <4>1. PICK d \in Client : At(d, "expireat") /\ call[d].new.id = entry[k].id
        BY <3>1, <3>2 DEF StoredOf
      <4>2. d # c
        BY <2>2, <3>2, <4>1 DEF Kept
      <4> QED
        BY <1>1, <4>1, <4>2 DEF Aside, Same, At
    <3> QED
      BY <3>1, <3>2 DEF StoredOf, Redis, Expired, Passed
  <2> QED
    BY <1>8, <2>1, <2>2
<1>9. Typed'
  <2>1. \A k \in DOMAIN entry' : entry'[k].id \in 1..writes
    BY DEF Kept, Made, Typed, WriteOf
  <2>2. call' \in [Client -> CallType]
    BY <1>1, <1>2 DEF Aside
  <2> QED
    BY <1>3, <2>1, <2>2 DEF Typed
<1> QED
  BY <1>4, <1>6, <1>7, <1>8, <1>9

\* A step that only removes entries, or none, keeps the invariant.
LEMMA RemovalKeeps ==
    ASSUME Inv, NEW c \in Client, NEW cl \in CallType, NEW ks,
           \/ Becomes(c, Without(ks), cl)
           \/ Becomes(c, entry, cl)
           \/ Goes(c, cl),
           UNCHANGED <<setup, clock, writes>>, ~ At(c, "expireat"),
           torn' = torn \/ (torn' = torn \ {call[c].key} /\ call[c].key \notin DOMAIN entry'),
           cl.op \in Writers =>
               Writing(c) /\ cl.new = call[c].new /\ cl.key = call[c].key,
           Knows(c)'
    PROVE  Inv'
<1>1. Becomes(c, entry', cl) \/ Goes(c, cl)
  BY DEF Becomes
<1>2. entry' = entry \/ entry' = Without(ks)
  BY DEF Becomes, Goes
<1>3. \A k \in DOMAIN entry' : k \in DOMAIN entry /\ entry'[k] = entry[k]
  BY <1>2 DEF Without
<1>4. DOMAIN entry' \subseteq Key /\ torn' \subseteq Key
  BY <1>3 DEF Inv, Typed
<1>5. \A k \in DOMAIN entry' : Kept(c, k)
  BY <1>3 DEF Kept
<1> QED
  BY <1>1, <1>4, <1>5, StepKeeps

-----------------------------------------------------------------------------
(***************************************************************************)
(* The steps, one by one.                                                  *)
(***************************************************************************)

\* Storing what a call writes: the key has that entry, or none where it has expired.
LEMMA StoresKeeps ==
    ASSUME Inv, NEW c \in Client, Writing(c), ~ At(c, "expireat"),
           Becomes(c, Stored(c, call[c].new), Idle),
           torn' = torn \ {call[c].key}, UNCHANGED <<setup, clock, writes>>
    PROVE  Inv'
<1>1. /\ WriteOf(c) /\ call[c].new \in EntryType /\ call[c].key \in Key
      /\ call[c].new.expires = call[c].new.due
      /\ (setup.backend = "hash" => call[c].new.expires = Never)
  BY DEF Inv, WriteOf
<1>2. entry' = Stored(c, call[c].new) /\ Becomes(c, entry', Idle)
  BY DEF Becomes
<1>3. DOMAIN entry' \subseteq Key /\ torn' \subseteq Key
  BY <1>1, <1>2 DEF Stored, Put, Without, Inv, Typed
<1>4. call'[c] = Idle
  BY DEF Becomes
<1>5. ASSUME NEW k \in DOMAIN entry' PROVE Kept(c, k) \/ Made(c, k)
  <2>1. CASE k # call[c].key
    <3>1. k \in DOMAIN entry /\ entry'[k] = entry[k]
      BY <1>2, <1>5, <2>1 DEF Stored, Put, Without
    <3> QED
      BY <2>1, <3>1 DEF Kept
  <2>2. CASE k = call[c].key
    <3>1. entry'[k] = call[c].new /\ ~ (Redis /\ Passed(call[c].new.expires))
      BY <1>2, <1>5, <2>2 DEF Stored, Put, Without
    <3>2. StoredOf(k)'
      BY <1>1, <3>1 DEF StoredOf, Redis, Expired, Passed
    <3> QED
      BY <1>1, <2>2, <3>1, <3>2 DEF Made
  <2> QED
    BY <2>1, <2>2
<1> QED
  BY <1>2, <1>3, <1>4, <1>5, IdleKnows, StepKeeps

\* Set: SET key value EX ttl, HSET, or the dict's entry.
LEMMA SetKeeps == ASSUME Inv, NEW c \in Client, Set(c) PROVE Inv'
<1>1. Writing(c) /\ ~ At(c, "expireat")
  BY DEF Set, At, Inv, Knows, StepOf, Writing, Writers
<1> QED
  BY <1>1, StoresKeeps DEF Set

\* SetBare: the entry has no expiry until its writer comes to EXPIREAT.
LEMMA SetBareKeeps == ASSUME Inv, NEW c \in Client, SetBare(c) PROVE Inv'
<1> DEFINE cl == [call[c] EXCEPT !.step = "expireat", !.raced = {}]
           bare == [call[c].new EXCEPT !.expires = Never]
<1>1. /\ Writing(c) /\ Redis /\ call[c].op = "set" /\ ~ At(c, "expireat") /\ call[c] \in CallType
      /\ call[c].new \in EntryType /\ call[c].key \in Key
      /\ (setup.backend = "hash" => call[c].new.expires = Never)
  BY DEF SetBare, At, Inv, Typed, Knows, StepOf, Writing, Writers, WriteOf
<1>2. /\ cl \in CallType /\ cl.op = "set" /\ cl.step = "expireat" /\ cl.new = call[c].new
      /\ cl.key = call[c].key
  BY <1>1 DEF CallType, Steps
<1>3. bare \in EntryType /\ bare.id = call[c].new.id /\ bare.due = call[c].new.due /\ bare.expires = Never
  BY <1>1 DEF EntryType, Moments
<1>4. entry' = Put(call[c].key, bare) /\ Becomes(c, entry', cl) /\ call'[c] = cl
  BY DEF SetBare, Becomes
<1>5. DOMAIN entry' \subseteq Key /\ torn' \subseteq Key
  BY <1>1, <1>4 DEF Put, Inv, Typed, SetBare
<1> HIDE DEF cl, bare
<1>6. ASSUME NEW k \in DOMAIN entry' PROVE Kept(c, k) \/ Made(c, k)
  <2>1. CASE k # call[c].key
    <3>1. k \in DOMAIN entry /\ entry'[k] = entry[k]
      BY <1>4, <1>6, <2>1 DEF Put
    <3> QED
      BY <1>1, <2>1, <3>1 DEF Kept, SetBare
  <2>2. CASE k = call[c].key
    <3>1. entry'[k] = bare
      BY <1>4, <1>6, <2>2 DEF Put
    <3>2. At(c, "expireat")' /\ call'[c].new.id = entry'[k].id
      BY <1>2, <1>3, <1>4, <3>1 DEF At
    <3>3. StoredOf(k)'
      BY <1>1, <1>3, <3>1, <3>2 DEF StoredOf, Redis, Expired, Passed, SetBare
    <3> QED
      BY <1>1, <1>3, <2>2, <3>1, <3>3 DEF Made
  <2> QED
    BY <2>1, <2>2
<1>7. Knows(c)'
  BY <1>1, <1>2, <1>4 DEF Knows, StepOf, StatOf, ScanOf, SwapOf, GcOf, At, Redis, SetBare
<1>8. UNCHANGED <<setup, clock, writes>>
  BY DEF SetBare
<1> QED
  BY <1>1, <1>2, <1>4, <1>5, <1>6, <1>7, <1>8, StepKeeps

\* ExpireAt: the entry the writer left gets its expiry; one of another write is torn.
LEMMA ExpireAtKeeps == ASSUME Inv, NEW c \in Client, ExpireAt(c) PROVE Inv'
<1> DEFINE late == [Entry(c) EXCEPT !.expires = call[c].new.expires]
<1>1. /\ Writing(c) /\ Redis /\ At(c, "expireat") /\ call[c].new \in EntryType /\ call[c].key \in Key
      /\ call[c].new.expires = call[c].new.due
      /\ (setup.backend = "hash" => call[c].new.expires = Never)
      /\ \A k \in DOMAIN entry : entry[k].id = call[c].new.id =>
           k = call[c].key /\ entry[k].due = call[c].new.due
  BY DEF ExpireAt, At, Inv, Typed, Knows, StepOf, Writing, Writers, WriteOf
<1>2. Has(c) => /\ late \in EntryType /\ late.id = Entry(c).id /\ late.due = Entry(c).due
                /\ late.expires = call[c].new.expires
  BY <1>1 DEF EntryType, Has, Entry, Inv, Typed
<1>3. /\ entry' = IF Has(c) THEN Stored(c, late) ELSE entry
      /\ Becomes(c, entry', Idle) /\ call'[c] = Idle
  BY DEF ExpireAt, Becomes
<1> HIDE DEF late
<1>4. DOMAIN entry' \subseteq Key /\ torn' \subseteq Key
  BY <1>1, <1>3 DEF Stored, Put, Without, Inv, Typed, ExpireAt
<1>5. ASSUME NEW k \in DOMAIN entry' PROVE Kept(c, k) \/ Made(c, k)
  <2>0. k \in torn => k \in torn'
    BY DEF ExpireAt
  <2>1. CASE k # call[c].key \/ ~ Has(c)
    <3>1. k \in DOMAIN entry /\ entry'[k] = entry[k]
      BY <1>3, <1>5, <2>1 DEF Stored, Put, Without
    <3>2. call[c].new.id # entry[k].id
      BY <1>1, <2>1, <3>1 DEF Has
    <3> QED
      BY <2>0, <3>1, <3>2 DEF Kept
  <2>2. CASE k = call[c].key /\ Has(c)
    <3>1. entry'[k] = late /\ ~ Passed(late.expires)
      BY <1>1, <1>3, <1>5, <2>2 DEF Stored, Put, Without
    <3>2. k \in DOMAIN entry /\ Entry(c) = entry[k]
      BY <2>2 DEF Has, Entry
    <3>3. k \notin torn' => late.expires = late.due
      BY <1>1, <1>2, <2>2, <3>2 DEF ExpireAt
    <3>4. StoredOf(k)'
      BY <1>1, <1>2, <2>2, <3>1, <3>3 DEF StoredOf, Redis, Expired, Passed, ExpireAt
    <3> QED
      BY <1>1, <1>2, <2>2, <3>1, <3>2, <3>4 DEF Made
  <2> QED
    BY <2>1, <2>2
<1>6. UNCHANGED <<setup, clock, writes>>
  BY DEF ExpireAt
<1> QED
  BY <1>3, <1>4, <1>5, <1>6, IdleKnows, StepKeeps

\* Die: what a writer leaves without its expiry is torn.
LEMMA DieKeeps == ASSUME Inv, NEW c \in Client, Die(c) PROVE Inv'
<1>1. /\ call[c].key \in Key
      /\ \A k \in DOMAIN entry : entry[k].id = call[c].new.id => k = call[c].key
  BY DEF Die, At, Inv, Typed, Knows, StepOf, Writing, Writers, WriteOf
<1>2. Goes(c, Idle) /\ entry' = entry /\ call'[c] = Idle
  BY DEF Die, Goes, Inv, Typed
<1>3. \A k \in DOMAIN entry' : Kept(c, k)
  BY <1>1, <1>2 DEF Kept, Die, Has, Entry
<1>4. DOMAIN entry' \subseteq Key /\ torn' \subseteq Key /\ UNCHANGED <<setup, clock, writes>>
  BY <1>1, <1>2 DEF Inv, Typed, Die
<1> QED
  BY <1>2, <1>3, <1>4, IdleKnows, StepKeeps

\* The steps that end a call and at most remove entries.
LEMMA EndsKeeps ==
    ASSUME Inv, NEW c \in Client,
           Delete(c) \/ Get(c) \/ Collect(c) \/ Return(c)
    PROVE  Inv'
<1>1. ~ At(c, "expireat")
  BY DEF Delete, Get, Collect, Return, At
<1>2. PICK ks : \/ Becomes(c, Without(ks), Idle)
                \/ Becomes(c, entry, Idle)
                \/ Goes(c, Idle)
  BY DEF Delete, Get, LiveEntry, Collect, Return
<1>3. call'[c] = Idle
  BY <1>2, OwnStep DEF Inv
<1>4. UNCHANGED <<setup, clock, writes>> /\ torn' = torn
  BY DEF Delete, Get, Collect, Return, Still
<1> QED
  BY <1>1, <1>2, <1>3, <1>4, IdleKnows, RemovalKeeps

\* The conditional writes: a refused one changes nothing.
LEMMA SwapKeeps ==
    ASSUME Inv, NEW c \in Client, SwapEntry(c) \/ InsertIfAbsent(c) \/ Exec(c) PROVE Inv'
<1>1. ~ At(c, "expireat") /\ call[c].op \in {"update", "remove"}
  BY DEF SwapEntry, InsertIfAbsent, Exec, At, Inv, Knows, StepOf
<1>2. \/ Goes(c, Idle) /\ Still
      \/ Becomes(c, Changed(c), Idle) /\ Unmarks(c)
  BY DEF SwapEntry, InsertIfAbsent, Exec
<1>3. CASE Goes(c, Idle) /\ Still
  <2>1. call'[c] = Idle /\ UNCHANGED <<setup, clock, writes>> /\ torn' = torn
    BY <1>3 DEF Goes, Inv, Typed, Still
  <2> QED
    BY <1>1, <1>3, <2>1, IdleKnows, RemovalKeeps
<1>4. CASE Becomes(c, Changed(c), Idle) /\ Unmarks(c) /\ call[c].op = "remove"
  <2>1. Becomes(c, Without({call[c].key}), Idle) /\ call'[c] = Idle
    BY <1>4 DEF Changed, Becomes
  <2>2. /\ UNCHANGED <<setup, clock, writes>> /\ torn' = torn \ {call[c].key}
        /\ call[c].key \notin DOMAIN entry'
    BY <1>4, <2>1 DEF Unmarks, Becomes, Without
  <2> QED
    BY <1>1, <2>1, <2>2, IdleKnows, RemovalKeeps
<1>5. CASE Becomes(c, Changed(c), Idle) /\ Unmarks(c) /\ call[c].op = "update"
  BY <1>1, <1>5, StoresKeeps DEF Changed, Unmarks, Writing, Writers
<1> QED
  BY <1>1, <1>2, <1>3, <1>4, <1>5

\* The versions read are versions.
LEMMA VersionType == ASSUME Inv, NEW c \in Client PROVE Version(c) \in Seen
<1>1. Has(c) => Entry(c) \in EntryType
  BY DEF Inv, Typed, Has, Entry
<1>2. Has(c) => Entry(c).body \in Body \cup Nat /\ Entry(c).id \in Body \cup Nat
  BY <1>1 DEF EntryType
<1>3. \A x \in Body \cup Nat : <<x>> \in Seq(Body \cup Nat)
  OBVIOUS
<1>4. <<>> \in Seq(Body \cup Nat)
  OBVIOUS
<1> QED
  BY <1>2, <1>3, <1>4 DEF Version, VersionOf, Seen

\* The steps of a call that read: what they find holds when they find it.
LEMMA ReadsKeep ==
    ASSUME Inv, NEW c \in Client, Exists(c) \/ Pttl(c) \/ ReadVersioned(c) \/ Watch(c)
    PROVE  Inv'
<1> DEFINE cl == call'[c]
<1>1. call[c] \in CallType /\ Knows(c) /\ ~ At(c, "expireat")
  BY DEF Inv, Typed, Exists, Pttl, ReadVersioned, Watch, At
<1>2. Goes(c, cl) /\ entry' = entry /\ UNCHANGED <<setup, clock, writes>> /\ torn' = torn
  BY DEF Exists, Pttl, ReadVersioned, Watch, Goes, Still, Inv, Typed
<1>3. CASE cl = Idle
  BY <1>1, <1>2, <1>3, IdleKnows, RemovalKeeps
<1>4. CASE cl # Idle
  <2>1. CASE Exists(c)
    <3>1. cl = [call[c] EXCEPT !.step = "pttl", !.raced = {}] /\ Has(c)
      BY <1>4, <2>1 DEF Exists, Goes, Inv, Typed
    <3>2. /\ cl \in CallType /\ cl.step = "pttl" /\ cl.op = call[c].op /\ cl.new = call[c].new
          /\ cl.key = call[c].key /\ call[c].op = "stat"
      BY <1>1, <2>1, <3>1 DEF CallType, Steps, Exists, At, Knows, StepOf
    <3>3. Has(c)'
      BY <1>2, <3>1, <3>2 DEF Has
    <3>4. Knows(c)'
      BY <1>2, <2>1, <3>2, <3>3
         DEF Knows, StepOf, StatOf, ScanOf, SwapOf, GcOf, At, Redis, Exists
    <3> QED
      BY <1>1, <1>2, <3>2, <3>4, RemovalKeeps DEF Writing
  <2>2. CASE Pttl(c)
    <3>1. cl = [call[c] EXCEPT !.step = "answered",
                  !.seen = IF Has(c) /\ setup.backend = "flat" THEN Entry(c).expires ELSE Never]
      BY <2>2 DEF Pttl, Goes, Inv, Typed
    <3>2. (IF Has(c) /\ setup.backend = "flat" THEN Entry(c).expires ELSE Never) \in Seen
      BY DEF Has, Entry, Inv, Typed, EntryType, Seen, Moments
    <3>3. /\ cl \in CallType /\ cl.step = "answered" /\ cl.op = call[c].op /\ cl.new = call[c].new
          /\ cl.key = call[c].key /\ cl.raced = call[c].raced /\ call[c].op = "stat"
          /\ cl.seen = IF Has(c) /\ setup.backend = "flat" THEN Entry(c).expires ELSE Never
      BY <1>1, <2>2, <3>1, <3>2 DEF CallType, Steps, Pttl, At, Knows, StepOf
    <3>4. setup.backend \in {"flat", "hash", "memory"}
      BY LeafAssumption DEF Inv, Typed, Setups
    <3>5. Has(c) /\ setup.backend # "flat" => Entry(c).expires = Never
      BY <1>1, <2>2, <3>4 DEF Inv, Has, Entry, StoredOf, Redis, Knows, StepOf, Pttl, At
    <3>6. Has(c)' = Has(c) /\ (Has(c) => Entry(c)' = Entry(c))
      BY <1>2, <3>3 DEF Has, Entry
    <3>a. call[c].key \in call[c].raced \/ Has(c)
      BY <1>1, <2>2 DEF Knows, StatOf, Pttl
    <3>b. StatOf(c)'
      BY <3>3, <3>5, <3>6, <3>a DEF StatOf, At
    <3>7. Knows(c)'
      BY <3>3, <3>b DEF Knows, StepOf, ScanOf, SwapOf, GcOf, At
    <3> QED
      BY <1>1, <1>2, <3>3, <3>7, RemovalKeeps DEF Writing
  <2>3. CASE ReadVersioned(c)
    <3>1. cl = [call[c] EXCEPT !.seen = Version(c),
                  !.step = IF ~Redis THEN "swap" ELSE IF Has(c) THEN "watch" ELSE "insert"]
      BY <1>4, <2>3 DEF ReadVersioned, Goes, Inv, Typed
    <3>a. PICK step \in {"swap", "watch", "insert"} :
            /\ cl = [call[c] EXCEPT !.seen = Version(c), !.step = step]
            /\ step = "insert" => ~ Has(c)
      BY <3>1
    <3>2. /\ cl \in CallType /\ cl.step \in {"swap", "watch", "insert"} /\ cl.op = call[c].op
          /\ cl.new = call[c].new /\ cl.key = call[c].key /\ cl.seen = Version(c)
          /\ (cl.step = "insert" => ~ Has(c))
      <4>1. Version(c) \in Seen /\ step \in Steps
        BY VersionType DEF Steps
      <4>2. cl \in CallType /\ cl.step = step /\ cl.op = call[c].op
        BY <1>1, <3>a, <4>1 DEF CallType
      <4>3. cl.new = call[c].new /\ cl.key = call[c].key /\ cl.seen = Version(c)
        BY <1>1, <3>a DEF CallType
      <4> QED
        BY <3>a, <4>2, <4>3
    <3>b. call[c].op \in {"update", "remove"}
      BY <1>1, <2>3 DEF ReadVersioned, At, Knows, StepOf
    <3>3. Knows(c)'
      BY <3>2, <3>b DEF Knows, StepOf, StatOf, ScanOf, SwapOf, GcOf, At, Version
    <3> QED
      BY <1>1, <1>2, <3>2, <3>3, RemovalKeeps DEF Writing
  <2>4. CASE Watch(c)
    <3>1. cl = [call[c] EXCEPT !.step = "exec", !.raced = {}] /\ Version(c) = call[c].seen
      BY <1>4, <2>4 DEF Watch, Goes, Inv, Typed
    <3>2. /\ cl \in CallType /\ cl.step = "exec" /\ cl.op = call[c].op /\ cl.new = call[c].new
          /\ cl.key = call[c].key /\ cl.seen = call[c].seen /\ call[c].op \in {"update", "remove"}
      BY <1>1, <2>4, <3>1 DEF CallType, Steps, Watch, At, Knows, StepOf
    <3>3. Version(c)' = Version(c)
      BY <1>2, <3>2 DEF Version, VersionOf, Has, Entry, Redis
    <3>4. Knows(c)'
      BY <3>1, <3>2, <3>3 DEF Knows, StepOf, StatOf, ScanOf, SwapOf, GcOf, At
    <3> QED
      BY <1>1, <1>2, <3>2, <3>4, RemovalKeeps DEF Writing
  <2> QED
    BY <2>1, <2>2, <2>3, <2>4
<1> QED
  BY <1>3, <1>4

\* A scan meets the keys one by one: it lists each, or its entry has gone or expired.
LEMMA ScanKeeps == ASSUME Inv, NEW c \in Client, Scan(c) PROVE Inv'
<1>1. call[c] \in CallType /\ Knows(c) /\ ~ At(c, "expireat") /\ call[c].op = "scan"
  BY DEF Inv, Typed, Scan, At, Knows, StepOf
<1>2. UNCHANGED <<setup, clock, writes>> /\ torn' = torn
  BY DEF Scan, Still
<1>3. CASE call[c].keys = {}
  <2> DEFINE cl == [call[c] EXCEPT !.step = "answered"]
  <2>1. Goes(c, cl) /\ call'[c] = cl /\ entry' = entry
    BY <1>3 DEF Scan, Goes, Inv, Typed
  <2>2. /\ cl \in CallType /\ cl.op = "scan" /\ cl.step = "answered" /\ cl.keys = {}
        /\ cl.raced = call[c].raced /\ cl.start = call[c].start /\ cl.out = call[c].out
    BY <1>1, <1>3 DEF CallType, Steps
  <2> HIDE DEF cl
  <2>3. ScanOf(c)'
    BY <1>1, <1>2, <1>3, <2>1, <2>2 DEF Knows, ScanOf, Expired, Passed
  <2>4. Knows(c)'
    BY <2>1, <2>2, <2>3 DEF Knows, StepOf, StatOf, SwapOf, GcOf, At
  <2> QED
    BY <1>1, <1>2, <2>1, <2>2, <2>4, RemovalKeeps DEF Writers
<1>4. CASE call[c].keys # {}
  <2>1. PICK k \in call[c].keys :
          LET met == k \in DOMAIN entry
              dead == met /\ Expired(entry[k])
          IN Becomes(c, IF dead /\ ~setup.hides THEN Without({k}) ELSE entry,
                     [call[c] EXCEPT !.keys = @ \ {k},
                                     !.out = IF met /\ ~dead THEN @ \cup {k} ELSE @])
    BY <1>4 DEF Scan
  <2> DEFINE lists == k \in DOMAIN entry /\ ~ Expired(entry[k])
             cl == [call[c] EXCEPT !.keys = @ \ {k}, !.out = IF lists THEN @ \cup {k} ELSE @]
  <2>2. Becomes(c, Without({k}), cl) \/ Becomes(c, entry, cl)
    BY <2>1 DEF Becomes
  <2>3. call'[c] = cl
    BY <2>2 DEF Becomes
  <2>4. k \in Key
    BY <1>1 DEF CallType
  <2>5. /\ cl \in CallType /\ cl.op = "scan" /\ cl.step = "scan" /\ cl.keys = call[c].keys \ {k}
        /\ cl.raced = call[c].raced /\ cl.start = call[c].start
        /\ cl.out = IF lists THEN call[c].out \cup {k} ELSE call[c].out
    BY <1>1, <2>4 DEF CallType, Scan, At
  <2> HIDE DEF cl
  <2>6. \A j \in DOMAIN entry' : j \in DOMAIN entry /\ entry'[j] = entry[j]
    BY <2>2 DEF Becomes, Without
  <2>7. ASSUME NEW j \in (call[c].start \ call[c].raced) \cap DOMAIN entry'
        PROVE  j \in cl.keys \/ j \in cl.out \/ Expired(entry[j])'
    <3>1. j \in DOMAIN entry /\ entry'[j] = entry[j]
      BY <2>6
    <3>2. j \in call[c].keys \/ j \in call[c].out \/ Expired(entry[j])
      BY <1>1, <2>7, <3>1 DEF Knows, ScanOf
    <3>3. Expired(entry[j]) => Expired(entry[j])'
      BY <1>2, <3>1 DEF Expired, Passed
    <3> QED
      BY <2>5, <3>1, <3>2, <3>3
  <2>8. ScanOf(c)'
    BY <2>3, <2>5, <2>7 DEF ScanOf, At
  <2>9. Knows(c)'
    BY <2>3, <2>5, <2>8 DEF Knows, StepOf, StatOf, SwapOf, GcOf, At
  <2> QED
    BY <1>1, <1>2, <2>2, <2>3, <2>5, <2>9, RemovalKeeps DEF Writers
<1> QED
  BY <1>3, <1>4

\* gc lists what has expired by then; in Redis, nothing.
LEMMA ExpiredKeysKeeps == ASSUME Inv, NEW c \in Client, ExpiredKeys(c) PROVE Inv'
<1>1. call[c] \in CallType /\ Knows(c) /\ ~ At(c, "expireat") /\ call[c].op = "gc"
  BY DEF Inv, Typed, ExpiredKeys, At, Knows, StepOf
<1>2. UNCHANGED <<setup, clock, writes>> /\ torn' = torn
  BY DEF ExpiredKeys, Still
<1>3. PICK found \in SUBSET {k \in DOMAIN entry : Expired(entry[k])} :
        Goes(c, IF found = {} THEN Idle
                ELSE [call[c] EXCEPT !.step = "collect", !.keys = found, !.raced = {}])
  BY DEF ExpiredKeys
<1>4. CASE found = {}
  <2>1. Goes(c, Idle) /\ call'[c] = Idle
    BY <1>3, <1>4 DEF Goes, Inv, Typed
  <2> QED
    BY <1>1, <1>2, <2>1, IdleKnows, RemovalKeeps
<1>5. CASE found # {}
  <2> DEFINE cl == [call[c] EXCEPT !.step = "collect", !.keys = found, !.raced = {}]
  <2>1. Goes(c, cl) /\ call'[c] = cl /\ entry' = entry
    BY <1>3, <1>5 DEF Goes, Inv, Typed
  <2>2. found \subseteq Key
    BY DEF Inv, Typed
  <2>3. cl \in CallType /\ cl.op = "gc" /\ cl.step = "collect" /\ cl.keys = found
    BY <1>1, <2>2 DEF CallType, Steps
  <2> HIDE DEF cl
  <2>4. \A k \in found : Passed(entry[k].due)
    <3> SUFFICES ASSUME NEW k \in found PROVE Passed(entry[k].due)
      OBVIOUS
    <3>1. k \in DOMAIN entry /\ Expired(entry[k]) /\ StoredOf(k)
      BY DEF Inv
    <3> QED
      BY <3>1 DEF StoredOf, Expired
  <2>5. GcOf(c)'
    BY <1>2, <2>1, <2>3, <2>4 DEF GcOf, Passed
  <2>6. Knows(c)'
    BY <2>1, <2>3, <2>5 DEF Knows, StepOf, StatOf, ScanOf, SwapOf, At
  <2> QED
    BY <1>1, <1>2, <2>1, <2>3, <2>6, RemovalKeeps DEF Writers
<1> QED
  BY <1>4, <1>5

\* The policies and arguments of the collection are durations.
LEMMA SetupTypes ==
    ASSUME Inv
    PROVE  /\ setup.backend \in {"flat", "hash", "memory"} /\ setup.ttl \in Nat \cup {Never}
           /\ setup.backend = "hash" => setup.ttl = Never
BY LeafAssumption DEF Inv, Typed, Setups

\* What a write is to store: due when asked, and never in a hash.
LEMMA NewEntryType ==
    ASSUME Inv, NEW body \in Body, NEW arg \in WriteArg
    PROVE  /\ NewEntry(body, arg) \in EntryType
           /\ NewEntry(body, arg).id = writes + 1
           /\ NewEntry(body, arg).expires = NewEntry(body, arg).due
           /\ setup.backend = "hash" /\ Accepts(arg) => NewEntry(body, arg).expires = Never
<1>1. arg.ttl \in Nat \cup {Unset, Never} /\ arg.past \in BOOLEAN
  BY LeafAssumption
<1>2. ResolveTtl(arg.ttl) \in Nat \cup {Never}
  BY <1>1, SetupTypes DEF ResolveTtl
<1>3. (IF arg.past THEN 0 ELSE clock) \in Nat /\ writes + 1 \in Nat
  BY DEF Inv, Typed
<1>4. Plus(IF arg.past THEN 0 ELSE clock, ResolveTtl(arg.ttl)) \in Moments
  BY <1>2, <1>3 DEF Plus, Moments
<1>5. setup.backend = "hash" /\ Accepts(arg) => ResolveTtl(arg.ttl) = Never
  BY SetupTypes DEF Accepts, ResolveTtl
<1> QED
  BY <1>3, <1>4, <1>5 DEF NewEntry, EntryType, Plus

\* A call begins: nothing is stored yet, and its write has an id of its own.
LEMMA BeginKeeps ==
    ASSUME Inv, NEW c \in Client, NEW k \in Key, NEW body \in Body, NEW arg \in WriteArg,
           NEW op \in Op[c], Begin(c, op, k, body, arg)
    PROVE  Inv'
<1> DEFINE kk == IF op \in {"scan", "gc"} THEN Nothing ELSE k
           nn == IF op \in Writers THEN NewEntry(body, arg) ELSE <<>>
           ks == IF op = "scan" THEN DOMAIN entry ELSE {}
           st == CASE op = "set" -> IF Redis /\ arg.past /\ ResolveTtl(arg.ttl) # Never
                                    THEN "set_bare" ELSE "set"
                   [] op = "get" -> "get"
                   [] op = "stat" -> "exists"
                   [] op = "delete" -> "delete"
                   [] op \in {"update", "remove"} -> "version"
                   [] op = "scan" -> "scan"
                   [] op = "gc" -> "expired"
           cl == [Idle EXCEPT !.op = op, !.key = kk, !.new = nn, !.start = ks, !.keys = ks,
                              !.step = st]
<1>1. op \in Ops
  BY LeafAssumption
<1>2. /\ kk \in Key \cup {Nothing} /\ (op \in Writers => kk \in Key)
      /\ nn \in EntryType \cup {<<>>} /\ ks \subseteq Key
      /\ (op \in Writers => nn = NewEntry(body, arg))
      /\ (op = "scan" => ks = DOMAIN entry)
  BY NewEntryType DEF Writers, Inv, Typed
<1>3. /\ st \in {"set_bare", "set", "get", "exists", "delete", "version", "scan", "expired"}
      /\ (st \in {"set_bare", "set"} => op = "set") /\ (st = "set_bare" => Redis)
      /\ (st = "get" => op = "get") /\ (st = "exists" => op = "stat")
      /\ (st = "delete" => op = "delete") /\ (st = "version" => op \in {"update", "remove"})
      /\ (st = "scan" => op = "scan") /\ (st = "expired" => op = "gc")
  BY <1>1 DEF Ops
<1>4. /\ Goes(c, cl) /\ UNCHANGED <<setup, clock, torn>>
      /\ writes' = IF op \in Writers THEN writes + 1 ELSE writes
      /\ (op \in Writers => Accepts(arg))
  BY DEF Begin
<1> HIDE DEF kk, nn, ks, st
<1>5. /\ cl \in CallType /\ cl.op = op /\ cl.key = kk /\ cl.new = nn /\ cl.start = ks
      /\ cl.keys = ks /\ cl.step = st
  BY <1>1, <1>2, <1>3 DEF Idle, CallType, Steps, Seen
<1> HIDE DEF cl
<1>6. /\ entry' = entry /\ call'[c] = cl /\ call' \in [Client -> CallType]
      /\ \A d \in Client \ {c} : call'[d] = call[d] /\ Aside(d)
  <2>1. \A d \in Client \ {c} : Aside(d) /\ call'[d] = call[d]
    BY <1>4, OthersStay DEF Inv
  <2> QED
    BY <1>4, <1>5, <2>1 DEF Goes, Inv, Typed
<1>7. writes \in Nat /\ writes' \in Nat /\ writes <= writes'
  BY <1>4 DEF Inv, Typed
<1>8. Typed'
  BY <1>4, <1>6, <1>7 DEF Inv, Typed
<1>9. ASSUME NEW d \in Client PROVE Knows(d)'
  <2>1. CASE d = c
    BY <1>2, <1>3, <1>4, <1>5, <1>6, <2>1
       DEF Knows, StepOf, StatOf, ScanOf, SwapOf, GcOf, At, Redis
  <2>2. CASE d # c
    BY <1>4, <1>6, <2>2, AsideKnows DEF Inv, Typed
  <2> QED
    BY <2>1, <2>2
<1>10. ASSUME NEW d \in Client PROVE WriteOf(d)'
  <2>1. CASE d = c
    <3> SUFFICES ASSUME op \in Writers PROVE WriteOf(c)'
      BY <1>5, <1>6, <2>1 DEF WriteOf, Writing
    <3>1. nn.id = writes + 1 /\ writes' = writes + 1 /\ nn.id \in 1..writes'
      BY <1>2, <1>4, <1>7, NewEntryType
    <3>2. \A j \in DOMAIN entry : entry[j].id # nn.id
      BY <1>7, <3>1 DEF Inv, Typed
    <3>3. /\ nn \in EntryType /\ nn.expires = nn.due
          /\ (setup.backend = "hash" => nn.expires = Never)
      BY <1>2, <1>4, NewEntryType
    <3> QED
      BY <1>2, <1>4, <1>5, <1>6, <3>1, <3>2, <3>3 DEF WriteOf
  <2>2. CASE d # c
    BY <1>4, <1>6, <1>7, <2>2 DEF Inv, WriteOf, Writing
  <2> QED
    BY <2>1, <2>2
<1>11. OwnIds'
  <2>1. ASSUME NEW d \in Client \ {c}, Writing(c)', Writing(d)'
        PROVE  call'[c].new.id # call'[d].new.id
    <3>1. call'[c].new.id = writes + 1
      BY <1>2, <1>5, <1>6, <2>1, NewEntryType DEF Writing
    <3>2. Writing(d) /\ call'[d].new = call[d].new /\ call[d].new.id \in 1..writes
      BY <1>6, <2>1 DEF Inv, WriteOf, Writing
    <3> QED
      BY <1>7, <3>1, <3>2
  <2>2. ASSUME NEW d \in Client \ {c}, NEW e \in Client \ {c}, d # e, Writing(d)', Writing(e)'
        PROVE  call'[d].new.id # call'[e].new.id
    BY <1>6, <2>2 DEF Inv, OwnIds, Writing
  <2> QED
    BY <2>1, <2>2 DEF OwnIds
<1>12. ASSUME NEW j \in DOMAIN entry' PROVE StoredOf(j)'
  <2>1. StoredOf(j) /\ ~ At(c, "expireat")
    BY <1>6, <1>12 DEF Inv, Begin, At
  <2>2. ASSUME NEW d \in Client, At(d, "expireat"), call[d].new.id = entry[j].id
        PROVE  At(d, "expireat")' /\ call'[d].new.id = entry'[j].id
    BY <1>6, <2>1, <2>2 DEF At
  <2> QED
    BY <1>4, <1>6, <2>1, <2>2 DEF StoredOf, Redis, Expired, Passed
<1> QED
  BY <1>8, <1>9, <1>10, <1>11, <1>12 DEF Inv

\* Time passes: Redis drops what runs out, and all calls look on.
LEMMA TickKeeps == ASSUME Inv, Tick PROVE Inv'
<1> DEFINE gone == {k \in DOMAIN entry : Redis /\ entry[k].expires # Never
                                               /\ clock + 1 >= entry[k].expires}
<1>1. /\ clock' = clock + 1 /\ clock \in Nat /\ clock' \in Nat /\ clock <= clock'
      /\ Becomes(Nothing, Without(gone), Idle) /\ UNCHANGED <<setup, writes, torn>>
  BY DEF Tick, Inv, Typed
<1>2. entry' = Without(gone) /\ DOMAIN entry' = DOMAIN entry \ gone
  BY <1>1 DEF Becomes, Without
<1>3. \A k \in DOMAIN entry' : k \in DOMAIN entry \ gone /\ entry'[k] = entry[k]
  BY <1>2 DEF Without
<1>4. /\ \A d \in Client : Aside(d)
      /\ call' \in [Client -> CallType]
  <2>1. DOMAIN Without(gone) \subseteq Key
    BY DEF Without, Inv, Typed
  <2>2. ASSUME NEW d \in Client PROVE Aside(d)
    <3>1. d # Nothing
      BY LeafAssumption
    <3> QED
      BY <1>1, <2>1, <3>1, OthersAside DEF Inv
  <2>3. \A d \in Client : call'[d] \in CallType
    BY <2>2 DEF Aside
  <2> QED
    BY <1>1, <2>2, <2>3 DEF Becomes
<1>5. Typed'
  BY <1>1, <1>3, <1>4 DEF Inv, Typed
<1>6. \A d \in Client : Knows(d)'
  BY <1>1, <1>4, <1>5, AsideKnows DEF Typed
<1>7. \A d \in Client : WriteOf(d)'
  BY <1>1, <1>3, <1>4 DEF Inv, WriteOf, Writing, Aside, Same
<1>8. OwnIds'
  BY <1>4 DEF Inv, OwnIds, Writing, Aside, Same
<1>9. ASSUME NEW k \in DOMAIN entry' PROVE StoredOf(k)'
  <2>1. StoredOf(k) /\ k \in DOMAIN entry \ gone /\ entry'[k] = entry[k]
    BY <1>3, <1>9 DEF Inv
  <2>2. Redis => ~ Expired(entry[k])'
    BY <1>1, <2>1 DEF Expired, Passed
  <2>3. ASSUME NEW d \in Client, At(d, "expireat"), call[d].new.id = entry[k].id
        PROVE  At(d, "expireat")' /\ call'[d].new.id = entry'[k].id
    BY <1>4, <2>1, <2>3 DEF At, Aside, Same
  <2> QED
    BY <1>1, <2>1, <2>2, <2>3 DEF StoredOf, Redis
<1> QED
  BY <1>5, <1>6, <1>7, <1>8, <1>9 DEF Inv

-----------------------------------------------------------------------------
(***************************************************************************)
(* Theorems.                                                               *)
(***************************************************************************)

\* Every step keeps the invariant.
LEMMA NextKeeps == Inv /\ [Next]_vars => Inv'
<1> SUFFICES ASSUME Inv, [Next]_vars PROVE Inv'
  OBVIOUS
<1>1. ASSUME NEW c \in Client, Step(c) PROVE Inv'
  BY <1>1, SetKeeps, SetBareKeeps, ExpireAtKeeps, DieKeeps, EndsKeeps, SwapKeeps, ReadsKeep,
     ScanKeeps, ExpiredKeysKeeps DEF Step
<1>2. ASSUME NEW c \in Client, NEW k \in Key, NEW body \in Body, NEW arg \in WriteArg,
             NEW op \in Op[c], Begin(c, op, k, body, arg)
      PROVE  Inv'
  BY <1>2, BeginKeeps
<1>3. CASE UNCHANGED vars
  <2>1. UNCHANGED <<setup, entry, clock, writes, torn, call>>
    BY <1>3 DEF vars
  <2> QED
    BY <2>1 DEF Inv, Typed, OwnIds, Knows, StepOf, StatOf, ScanOf, SwapOf, GcOf, WriteOf, Writing,
                StoredOf, At, Has, Entry, Version, VersionOf, Redis, Expired, Passed
<1> QED
  BY <1>1, <1>2, <1>3, TickKeeps DEF Next

\* A collection starts empty.
LEMMA InitInv == Init => Inv
<1> SUFFICES ASSUME Init PROVE Inv
  OBVIOUS
<1>1. DOMAIN entry = {}
  BY DEF Init
<1>2. call \in [Client -> CallType] /\ \A c \in Client : call[c] = Idle
  BY IdleKnows DEF Init
<1>3. \A c \in Client : Knows(c) /\ ~ Writing(c)
  BY <1>2 DEF Knows, StepOf, StatOf, ScanOf, SwapOf, GcOf, At, Idle, Writing, Writers
<1> QED
  BY <1>1, <1>2, <1>3 DEF Init, Inv, Typed, OwnIds, WriteOf

\* The inductive invariant, of every behaviour.
LEMMA AlwaysInv == Spec => []Inv
BY InitInv, NextKeeps, PTL DEF Spec

\* Entries expire when their writers asked, but for those torn between SET and EXPIREAT;
\* Redis keeps none that has expired; stat and scan tell what holds for what was not
\* touched during the call (redis.py, memory.py).
THEOREM TellsWhatIsKeptAlways == Spec => []TellsWhatIsKept
<1>1. Inv => TellsWhatIsKept
  <2> SUFFICES ASSUME Inv PROVE TellsWhatIsKept
    OBVIOUS
  <2>1. TypeOK
    BY DEF Inv, Typed, TypeOK, StoredOf, EntryType
  <2>2. ExpiresAsAsked
    BY DEF Inv, ExpiresAsAsked, StoredOf
  <2>3. StatTellsTheExpiry
    BY DEF Inv, Knows, StatOf, StatTellsTheExpiry
  <2>4. ScanListsTheSteady
    BY DEF Inv, Knows, ScanOf, ScanListsTheSteady
  <2> QED
    BY <2>1, <2>2, <2>3, <2>4 DEF TellsWhatIsKept
<1> QED
  BY <1>1, AlwaysInv, PTL

\* A step of a call changes that call and the entries; the others look on.
LEMMA StepsAlone ==
    ASSUME Inv, Inv', NEW d \in Client, Step(d), NEW c \in Client, c # d PROVE Aside(c)
<1>1. \E cl : Becomes(d, entry', cl) \/ Goes(d, cl)
  <2>1. CASE Set(d) \/ Delete(d) \/ Get(d) \/ Collect(d) \/ ExpireAt(d)
    <3>1. PICK new : Becomes(d, new, Idle)
      BY <2>1 DEF Set, Delete, Get, Collect, ExpireAt
    <3>2. entry' = new
      BY <3>1 DEF Becomes
    <3> QED
      BY <3>1, <3>2
  <2>2. CASE SetBare(d)
    BY <2>2 DEF SetBare, Becomes
  <2>3. CASE SwapEntry(d) \/ InsertIfAbsent(d) \/ Exec(d)
    BY <2>3 DEF SwapEntry, InsertIfAbsent, Exec, Becomes
  <2>4. CASE Scan(d)
    <3>1. CASE call[d].keys = {}
      BY <2>4, <3>1 DEF Scan
    <3>2. CASE call[d].keys # {}
      BY <2>4, <3>2 DEF Scan, Becomes
    <3> QED
      BY <3>1, <3>2
  <2>5. CASE Die(d) \/ Exists(d) \/ Pttl(d) \/ Return(d) \/ ReadVersioned(d) \/ Watch(d)
    BY <2>5 DEF Die, Exists, Pttl, Return, ReadVersioned, Watch
  <2>6. CASE ExpiredKeys(d)
    BY <2>6 DEF ExpiredKeys
  <2> QED
    BY <2>1, <2>2, <2>3, <2>4, <2>5, <2>6 DEF Step
<1>2. DOMAIN entry' \subseteq Key
  BY DEF Inv, Typed
<1> QED
  BY <1>1, <1>2, OthersAside, OthersStay DEF Inv

\* A call that is under way goes on by a step of its own only.
LEMMA OwnStepsOnly ==
    ASSUME Inv, Inv', Next, NEW c \in Client, ~ At(c, "idle")
    PROVE  Step(c) \/ Aside(c)
<1>1. ASSUME NEW d \in Client, Step(d) PROVE Step(c) \/ Aside(c)
  BY <1>1, StepsAlone
<1>2. CASE Tick
  <2>1. entry' = Without({k \in DOMAIN entry : Redis /\ entry[k].expires # Never
                                                /\ clock + 1 >= entry[k].expires})
    BY <1>2 DEF Tick, Becomes
  <2>2. Becomes(Nothing, entry', Idle) /\ c # Nothing /\ DOMAIN entry' \subseteq Key
    BY <1>2, <2>1, LeafAssumption DEF Tick, Inv, Typed
  <2> QED
    BY <2>2, OthersAside DEF Inv
<1>3. ASSUME NEW d \in Client, NEW k \in Key, NEW body \in Body, NEW arg \in WriteArg,
             NEW op \in Op[d], Begin(d, op, k, body, arg)
      PROVE  Aside(c)
  <2>1. d # c /\ \E cl : Goes(d, cl)
    BY <1>3 DEF Begin
  <2> QED
    BY <2>1, OthersStay DEF Inv
<1> QED
  BY <1>1, <1>2, <1>3 DEF Next

\* A conditional write changes something only over what it was decided on.
LEMMA SwapsRight ==
    ASSUME Inv, Inv', Next, NEW c \in Client
    PROVE  UpdateReplacesWhatItSaw(c) /\ ExecSeesEveryTouch(c)
<1>1. ASSUME call[c].step \in {"swap", "insert", "exec"}, call'[c].step = "idle"
      PROVE  SwapEntry(c) \/ InsertIfAbsent(c) \/ Exec(c)
  <2>1. ~ Aside(c) /\ ~ At(c, "idle")
    BY <1>1 DEF Aside, Same, At
  <2>2. Step(c)
    BY <2>1, OwnStepsOnly
  <2> QED
    BY <1>1, <2>2 DEF Step, Set, SetBare, ExpireAt, Die, Delete, Get, Exists, Pttl, ReadVersioned,
                      Watch, Scan, ExpiredKeys, Collect, Return, At
<1>2. Differ(entry) = {}
  BY DEF Differ
<1>3. UpdateReplacesWhatItSaw(c)
  <2> SUFFICES ASSUME call[c].step \in {"swap", "insert", "exec"}, call'[c].step = "idle",
                      Differ(entry') # {}
               PROVE  Version(c) = call[c].seen
    BY DEF UpdateReplacesWhatItSaw
  <2>1. entry' # entry
    BY <1>2
  <2>2. CASE SwapEntry(c)
    BY <2>1, <2>2 DEF SwapEntry, Goes
  <2>3. CASE InsertIfAbsent(c)
    <3>1. ~ Has(c) /\ call[c].seen = <<>>
      BY <2>1, <2>3 DEF InsertIfAbsent, Goes, Inv, Knows, SwapOf
    <3> QED
      BY <3>1 DEF Version
  <2>4. CASE Exec(c)
    <3>1. ~ Discards(c) /\ At(c, "exec")
      BY <2>1, <2>4 DEF Exec, Goes
    <3>2. call[c].key \notin call[c].raced
      BY <3>1 DEF Discards
    <3> QED
      BY <3>1, <3>2 DEF Inv, Knows, SwapOf
  <2> QED
    BY <1>1, <2>2, <2>3, <2>4
<1>4. ExecSeesEveryTouch(c)
  <2> SUFFICES ASSUME At(c, "exec"), call'[c].step = "idle", call[c].key \in call[c].raced
               PROVE  entry' = entry
    BY DEF ExecSeesEveryTouch
  <2>1. Exec(c)
    BY <1>1 DEF At, SwapEntry, InsertIfAbsent
  <2>2. Discards(c)
    BY DEF Discards
  <2> QED
    BY <2>1, <2>2 DEF Exec, Goes
<1> QED
  BY <1>3, <1>4

\* Of any number of clients: an update or a conditional removal takes effect only over
\* what was decided on, and a transaction in Redis over no touch in between
\* (_insert_if_absent, _swap_if_unchanged, batch_write_if_unchanged).
THEOREM AlwaysSwapsWhatItSaw == Spec => SwapsWhatItSaw
<1>1. Inv /\ Inv' /\ [Next]_vars =>
        [\A c \in Client : UpdateReplacesWhatItSaw(c) /\ ExecSeesEveryTouch(c)]_vars
  BY SwapsRight
<1> QED
  BY <1>1, AlwaysInv, PTL DEF Spec, SwapsWhatItSaw

\* What a read of either backend takes for expired was due.
LEMMA ExpiredWasDue ==
    ASSUME Inv, NEW k \in DOMAIN entry, Expired(entry[k]) PROVE Passed(entry[k].due)
BY DEF Inv, StoredOf, Expired

\* What a step removes while the other calls keep their steps.
LEMMA CollectsRight ==
    ASSUME Inv, Inv', Next, NEW c \in Client, NEW k \in Key,
           call[c].op \in {"get", "stat", "scan", "gc"}, clock' = clock,
           k \in DOMAIN entry \ DOMAIN entry',
           \A d \in Client \ {c} : call'[d].step = call[d].step
    PROVE  k \in call[c].raced \/ Passed(entry[k].due)
<1>1. ~ Tick
  BY DEF Tick, Inv, Typed
<1>2. ASSUME NEW d \in Client, NEW j \in Key, NEW body \in Body, NEW arg \in WriteArg,
             NEW op \in Op[d], Begin(d, op, j, body, arg)
      PROVE  FALSE
  BY <1>2 DEF Begin, Goes
<1>3. PICK d \in Client : Step(d)
  BY <1>1, <1>2 DEF Next
<1>4. Idle.step = "idle"
  BY DEF Idle
<1>5. CASE Get(d)
  <2>1. call'[d] = Idle /\ entry' = LiveEntry(d)
    BY <1>5 DEF Get, Becomes
  <2>2. Has(d) /\ Expired(Entry(d)) /\ k = call[d].key
    BY <2>1 DEF LiveEntry, Without
  <2> QED
    BY <2>2, ExpiredWasDue DEF Has, Entry
<1>6. CASE Scan(d)
  <2>1. call[d].keys # {}
    BY <1>6 DEF Scan, Goes
  <2>2. PICK j \in call[d].keys :
          entry' = IF j \in DOMAIN entry /\ Expired(entry[j]) /\ ~setup.hides
                   THEN Without({j}) ELSE entry
    BY <1>6, <2>1 DEF Scan, Becomes
  <2>3. j = k /\ Expired(entry[k])
    BY <2>2 DEF Without
  <2> QED
    BY <2>3, ExpiredWasDue
<1>7. CASE Collect(d)
  <2>1. call'[d] = Idle /\ At(d, "collect") /\ entry' = Without(call[d].keys)
    BY <1>7 DEF Collect, Becomes
  <2>2. d = c
    BY <1>4, <2>1 DEF At
  <2>3. k \in call[c].keys
    BY <2>1, <2>2 DEF Without
  <2> QED
    BY <2>1, <2>2, <2>3 DEF Inv, Knows, GcOf
<1>8. CASE \/ Die(d) \/ Exists(d) \/ Pttl(d) \/ Return(d) \/ ReadVersioned(d) \/ Watch(d)
           \/ ExpiredKeys(d)
  BY <1>8 DEF Die, Exists, Pttl, Return, ReadVersioned, Watch, ExpiredKeys, Goes
<1>9. CASE Set(d) \/ ExpireAt(d) \/ Delete(d) \/ SwapEntry(d) \/ InsertIfAbsent(d) \/ Exec(d)
  <2>1. call[d].op \notin {"get", "stat", "scan", "gc"} /\ ~ At(d, "idle")
    BY <1>9 DEF Set, ExpireAt, Delete, SwapEntry, InsertIfAbsent, Exec, At, Inv, Knows, StepOf
  <2>2. call'[d] = Idle
    BY <1>9 DEF Set, ExpireAt, Delete, SwapEntry, InsertIfAbsent, Exec, Becomes, Goes, Inv, Typed
  <2> QED
    BY <1>4, <2>1, <2>2 DEF At
<1>10. CASE SetBare(d)
  BY <1>10 DEF SetBare, Becomes, Put
<1> QED
  BY <1>3, <1>5, <1>6, <1>7, <1>8, <1>9, <1>10 DEF Step

\* Reads, scans and gc remove on their own account only entries whose time had come, or
\* that were touched since gc listed them (_live_entry, gc_expired_keys).
THEOREM AlwaysCollectsOnlyTheExpired == Spec => CollectsOnlyTheExpired
<1>1. Inv /\ Inv' /\ [Next]_vars =>
        [\A c \in Client, k \in Key :
           /\ call[c].op \in {"get", "stat", "scan", "gc"} /\ call'[c] # call[c] /\ clock' = clock
           /\ k \in DOMAIN entry \ DOMAIN entry'
           /\ \A d \in Client \ {c} : call'[d].step = call[d].step
           => k \in call[c].raced \/ Passed(entry[k].due)]_vars
  BY CollectsRight
<1> QED
  BY <1>1, AlwaysInv, PTL DEF Spec, CollectsOnlyTheExpired
=============================================================================
