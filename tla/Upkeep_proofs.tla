--------------------------- MODULE Upkeep_proofs ---------------------------
(***************************************************************************)
(* Theorems about Upkeep: any targets with one authority, any keys,        *)
(* callers, initial contents, TTL, pages and limits.                       *)
(***************************************************************************)
EXTENDS Upkeep, FiniteSetTheorems, WellFoundedInduction, TLAPS

-----------------------------------------------------------------------------
(***************************************************************************)
(* The judgements of the module with entry and time as parameters, so that *)
(* a statement about one state can be carried to the next.                 *)
(***************************************************************************)
RunOut(e, m) == e # Nothing /\ m >= e.clock + Ttl
Alive(e, m) == e # Nothing /\ ~RunOut(e, m)
AliveKeys(h, t, m) == {k \in Key : Alive(h[t][k], m)}
RunOutKeys(h, t, m) == {k \in Key : RunOut(h[t][k], m)}
ReachedBy(cl) == {Main} \cup (Dependents \ cl.failed)

-----------------------------------------------------------------------------
(***************************************************************************)
(* The inductive invariant.  First the types.                              *)
(***************************************************************************)
Holding == [Target -> [Key -> Entries]]
AllSteps == {"idle", "done", "list", "set", "remove", "stream", "open", "feed", "look", "stat",
             "fill", "reread", "again", "gc", "forget", "collect", "page", "check", "get",
             "dates", "copy", "spread"}
Partial(S) == UNION {[K -> S] : K \in SUBSET Key}
Clock == 0..MaxTime \cup {Nothing}
Due == {<<>>} \cup (SUBSET Target) \cup [Target -> SUBSET Key] \cup [Key -> SUBSET Target]
Tally == [scanned : Nat, missing : Nat, written : Nat, lost : Nat, miss : Nat]
CallType ==
    [op : Operations \cup {"none"}, step : AllSteps, keys : SUBSET Key, stale : SUBSET Key,
     id : 0..MaxId, todo : SUBSET Target, src : SUBSET Target, missed : SUBSET Target,
     val : 0..MaxId, clock : Clock, filled : Target \cup {Nothing},
     size : Nat, limit : Nat, after : Nat, page : SUBSET Key, want : SUBSET Key,
     found : Partial(1..MaxId), clocks : Partial(Clock), left : SUBSET Key, n : Tally,
     raised : BOOLEAN, raced : SUBSET Key, met : SUBSET Key, mine : SUBSET Key,
     unfair : SUBSET Key, failed : SUBSET Target, due : Due]

\* Where a call of each kind may stand, and whom it has still to reach there.
Placed(cl) ==
    /\ cl.step = "idle" => cl = Idle
    /\ cl.op = "none" <=> cl.step = "idle"
    /\ cl.op = "set" => cl.step \in {"set", "done"}
    /\ cl.op = "delete" => cl.step \in {"remove", "done"}
    /\ cl.op = "group" => cl.step \in {"list", "set", "remove", "done"}
    /\ cl.op = "stream" => cl.step \in {"stream", "open", "feed", "done"}
    /\ cl.op = "read" => cl.step \in {"look", "stat", "fill", "reread", "again", "done"}
    /\ cl.op = "gc" => cl.step \in {"gc", "forget", "collect", "done"}
    /\ cl.op = "fill" => cl.step \in {"page", "check", "get", "dates", "copy", "spread", "done"}
    /\ cl.step \in {"set", "remove"} => cl.todo = {Main} \/ cl.todo \subseteq Dependents
    /\ cl.step \in {"open", "feed", "forget", "collect", "spread"} => cl.todo \subseteq Dependents
    /\ cl.step \in Syncing => cl.todo # {}
    /\ cl.raised => cl.step = "done"

-----------------------------------------------------------------------------
(***************************************************************************)
(* Writes and deletes: which targets have the keys given, and which no     *)
(* longer have those removed.                                              *)
(***************************************************************************)
Waiting(cl) == cl.step \in {"list", "stream"} \/ (cl.step = "set" /\ Main \in cl.todo)
Given(cl) ==
    IF Waiting(cl) THEN {}
    ELSE IF cl.step \in {"set", "open", "feed"} THEN ReachedBy(cl) \ cl.todo ELSE ReachedBy(cl)
Cleared(cl) ==
    IF cl.step = "done" THEN ReachedBy(cl)
    ELSE IF cl.step = "remove" /\ Main \notin cl.todo THEN ReachedBy(cl) \ cl.todo ELSE {}

Writing(cl, h, m) ==
    cl.op \in {"set", "delete", "stream", "group"} =>
        /\ cl.op \in {"set", "stream"} => cl.stale = {}
        /\ cl.op = "delete" => cl.keys = {}
        /\ cl.op = "stream" => \E k \in Key : cl.keys = {k}
        /\ cl.keys \cap cl.stale = {}
        /\ cl.step \in {"set", "open", "feed"} /\ ~Waiting(cl) => cl.id # 0
        /\ ~cl.raised =>
             /\ \A t \in Given(cl) : \A k \in cl.keys \ cl.raced :
                   h[t][k] # Nothing /\ h[t][k].id = cl.id
             /\ \A t \in Cleared(cl) : \A k \in cl.stale \ cl.raced : h[t][k] = Nothing
        /\ cl.step \in {"open", "feed"} => \A k \in cl.keys \ cl.raced : Alive(h[Main][k], m)
        /\ cl.step = "feed" => cl.val # 0 /\ (cl.keys \ cl.raced # {} => cl.val = cl.id)

\* A group whose keys nobody touched: what is live in the authority.
Grouping(cl, h, m) ==
    cl.op = "group" /\ cl.raced = {} /\ ~cl.raised /\ cl.step # "list" =>
        /\ AliveKeys(h, Main, m) \subseteq cl.keys \cup cl.stale
        /\ ~Waiting(cl) => cl.keys \subseteq AliveKeys(h, Main, m)
        /\ cl.step = "done" \/ (cl.step = "remove" /\ Main \notin cl.todo)
             => AliveKeys(h, Main, m) \cap cl.stale = {}

-----------------------------------------------------------------------------
(***************************************************************************)
(* gc: who forgot what the authority collected, who collected its own.     *)
(***************************************************************************)
Forgetting(cl) ==
    CASE cl.step = "gc" -> {}
      [] cl.step = "forget" -> ReachedBy(cl) \ cl.todo
      [] OTHER -> ReachedBy(cl)
CollectedBy(cl) ==
    CASE cl.step = "gc" -> {}
      [] cl.step = "forget" -> {Main}
      [] cl.step = "collect" -> ReachedBy(cl) \ cl.todo
      [] OTHER -> ReachedBy(cl)

Collecting(cl, h, m) ==
    cl.op = "gc" =>
        /\ cl.due \in [Target -> SUBSET Key]
        /\ ~cl.raised => \A t \in Forgetting(cl) : \A k \in cl.stale \ cl.raced : h[t][k] = Nothing
        /\ cl.raced = {} => \A t \in Target : RunOutKeys(h, t, m) \subseteq cl.due[t]
        /\ cl.raced = {} /\ ~cl.raised =>
             \A t \in CollectedBy(cl) :
                \/ RunOutKeys(h, t, m) = {}
                \/ Cardinality(cl.due[t] \ RunOutKeys(h, t, m)) >= GcLimit

-----------------------------------------------------------------------------
(***************************************************************************)
(* read_stream: the source keeps what the call found while nobody touches  *)
(* the key, and what is filled is what it holds.                           *)
(***************************************************************************)
Asking(cl, h, m, k) ==
    cl.step = "look" =>
        /\ cl.val = 0 /\ cl.missed \cup cl.todo = Consulted
        /\ cl.raced = {} =>
             /\ cl.missed \cap cl.due = {}
             /\ \A t \in Consulted : Alive(h[t][k], m) <=> t \in cl.due
Sourced(cl, h, m, k, s) ==
    /\ cl.src = {s} /\ cl.todo \subseteq Fillable(s, Target)
    /\ cl.step \in {"stat", "fill"} => cl.val # 0
    /\ cl.step = "reread" => cl.filled \in Fillable(s, Target)
    /\ cl.raced = {} =>
         /\ cl.due # {} /\ Alive(h[s][k], m)
         /\ cl.step # "again" => cl.val = h[s][k].id
         /\ cl.step # "stat" => cl.clock = h[s][k].clock
         /\ cl.step = "reread" => h[cl.filled][k] = h[s][k]

Reading(cl, h, m) ==
    cl.op = "read" =>
        \E k \in Key :
            /\ cl.keys = {k} /\ cl.due \subseteq Consulted /\ Asking(cl, h, m, k)
            /\ cl.step \in {"stat", "fill", "reread", "again"} =>
                 \E s \in Target : Sourced(cl, h, m, k, s)
            /\ cl.step = "done" /\ cl.raced = {} /\ ~cl.raised => (cl.val # 0 <=> cl.due # {})

-----------------------------------------------------------------------------
(***************************************************************************)
(* fill_missing: what a call between two of its steps knows of its page.   *)
(***************************************************************************)
Paging == {"check", "get", "dates", "copy", "spread"}
Reported == {"dates", "copy", "spread"}

\* While it checks a page it has read nothing of it, and asks those ahead of the fallback.
Checking(cl) ==
    /\ cl.step \in {"check", "get"} => DOMAIN cl.found = {}
    /\ cl.step = "check" => \A f \in cl.src : cl.todo \subseteq Ahead(f)

\* What was found is a fallback's, with the fallback's clock or none.
FoundOld(cl, h, o, r) ==
    \A f \in cl.src : cl.step \in Reported =>
        /\ DOMAIN cl.found \subseteq cl.want
        /\ \A k \in DOMAIN cl.found : \E e \in o[k] :
             /\ e.id = cl.found[k]
             /\ cl.step = "dates" => h[f][k] \in {e, Nothing}
             /\ cl.step # "dates" =>
                  /\ k \in DOMAIN cl.clocks
                  /\ cl.clocks[k] \in {e.clock, Nothing}
        /\ cl.step = "spread" =>
             /\ cl.left \subseteq cl.stale /\ cl.stale \subseteq DOMAIN cl.found
             /\ \A k \in cl.stale : cl.clocks[k] = Nothing => cl.found[k] \in r

\* What it reports, and what of its page the authority lacks.
Accounts(cl, h) ==
    /\ cl.n.missing = cl.n.written + cl.n.lost + cl.n.miss
    /\ cl.n.missing <= cl.n.scanned /\ cl.n.written <= cl.limit
    /\ cl.n.written >= Cardinality(cl.mine)
    /\ cl.unfair = {} /\ cl.met \subseteq cl.raced
    /\ cl.step \in Paging /\ (cl.step = "check" => Main \notin cl.todo) =>
         \A k \in (cl.page \cap cl.want) \ cl.met : h[Main][k] = Nothing

\* Of keys nobody touched, what was listed and found is still there.
StillThere(cl, h, m) ==
    \A f \in cl.src : cl.step \in Paging =>
        /\ \A k \in cl.page \ cl.raced : Alive(h[f][k], m)
        /\ cl.step \in Reported =>
             \A k \in DOMAIN cl.found \ cl.raced :
                /\ Alive(h[f][k], m) /\ cl.found[k] = h[f][k].id
                /\ cl.step # "dates" => k \in DOMAIN cl.clocks /\ cl.clocks[k] = h[f][k].clock

\* A key of fallback f that is still to come: of a later page or fallback, or of this page.
ToCome(cl, k, f) ==
    /\ cl.step # "done" \/ cl.n.written >= cl.limit
    /\ cl.step # "done" => \E s \in cl.src :
         \/ Before(s, f)
         \/ s = f /\ k > cl.after
         \/ s = f /\ cl.step \in {"check", "get"} /\ k \in cl.page \cap cl.want
         \/ s = f /\ cl.step \in Reported /\ k \in cl.page \cap DOMAIN cl.found

Owed(cl, h, m, k, f) ==
    /\ f = Main => Alive(h[Main][k], m)
    /\ f # Main =>
         /\ f \in Older /\ Alive(h[f][k], m)
         /\ \/ h[Main][k] = h[f][k]
            \/ /\ ToCome(cl, k, f)
               /\ ~Alive(h[Main][k], m) /\ \A g \in Older : Before(g, f) => ~Alive(h[g][k], m)

Filling(cl, h, m, o, r) ==
    cl.op = "fill" =>
        /\ cl.due \in [Key -> SUBSET Target] /\ cl.size # 0 /\ cl.limit # 0
        /\ cl.step # "done" => \E f \in Older : cl.src = {f}
        /\ Checking(cl) /\ FoundOld(cl, h, o, r) /\ Accounts(cl, h) /\ StillThere(cl, h, m)
        /\ ~cl.raised => \A k \in Key \ cl.raced : \A f \in cl.due[k] : Owed(cl, h, m, k, f)

-----------------------------------------------------------------------------
(***************************************************************************)
(* The whole.  The fallbacks hold only what they began with, and what is   *)
(* copied of it keeps its clock.                                           *)
(***************************************************************************)
FromOld(h, o) == \A f \in Fallbacks, k \in Key : h[f][k] \in o[k] \cup {Nothing}
KeepsLife(h, o, r) ==
    \A t \in Target, k \in Key : \A e \in o[k] :
        h[t][k] # Nothing /\ h[t][k].id = e.id /\ e.id \notin r => h[t][k].clock = e.clock
Fresh(id, o) == \A k \in Key : \A e \in o[k] : e.id # id

Knows(cl, h, m, o, r) ==
    /\ Placed(cl) /\ Fresh(cl.id, o)
    /\ Writing(cl, h, m) /\ Grouping(cl, h, m) /\ Collecting(cl, h, m) /\ Reading(cl, h, m)
    /\ Filling(cl, h, m, o, r)

Aged(o, last) ==
    /\ o \in [Key -> SUBSET Entry]
    /\ \A k \in Key : \A e \in o[k] : e.id <= last
    /\ \A k \in Key : \A e, g \in o[k] : e.id = g.id => e.clock = g.clock

Inv ==
    /\ held \in Holding /\ now \in 0..MaxTime /\ lastId \in 0..MaxId
    /\ faults \in 0..MaxFaults /\ calls \in [Client -> 0..MaxCalls]
    /\ redated \subseteq 1..MaxId
    /\ Aged(old, lastId) /\ FromOld(held, old) /\ KeepsLife(held, old, redated)
    /\ call \in [Client -> CallType]
    /\ \A c \in Client : Knows(call[c], held, now, old, redated)

-----------------------------------------------------------------------------
(***************************************************************************)
(* The constants.                                                          *)
(***************************************************************************)
LEMMA Sizes ==
    /\ Ttl \in Nat /\ Ttl >= 1 /\ GcLimit \in Nat /\ GcLimit >= 1
    /\ MaxTime \in Nat /\ MaxId \in Nat /\ MaxCalls \in Nat /\ MaxFaults \in Nat
BY UpkeepAssumption

LEMMA KeysCounted == Key \subseteq Nat /\ 0 \notin Key /\ IsFiniteSet(Key)
BY UpkeepAssumption

LEMMA NothingApart ==
    /\ Nothing \notin Nat /\ Nothing \notin Target /\ Nothing \notin Entry
    /\ \A e \in Entry : e.id \in 1..MaxId /\ e.clock \in 0..MaxTime /\ e = [id |-> e.id, clock |-> e.clock]
    /\ \A i \in 1..MaxId, m \in 0..MaxTime : [id |-> i, clock |-> m] \in Entry
<1>1. Entry \subseteq [id : Nat, clock : Nat]
  BY Sizes DEF Entry
<1> QED
  BY <1>1, UpkeepAssumption DEF Entry

\* One authority, its dependents and its fallbacks are all the targets there are.
LEMMA Parties ==
    /\ Main \in Target /\ Authority = {Main} /\ Main \notin Dependents /\ Main \notin Fallbacks
    /\ Dependents \subseteq Target /\ Fallbacks \subseteq Target /\ Dependents \cap Fallbacks = {}
    /\ Target = {Main} \cup Dependents \cup Fallbacks /\ Dependents # {}
    /\ Older \subseteq Fallbacks /\ Older \subseteq Consulted
    /\ Main \in Consulted /\ Consulted \subseteq Target
<1>1. \E t \in Target : t \in Authority
  BY UpkeepAssumption DEF Authority, ByRole
<1>2. Main \in Target /\ Main \in Authority
  BY <1>1 DEF Main
<1>3. Authority = {Main}
  BY <1>2, DeclarationAssumption DEF WellFormed
<1>4. Components = {}
  BY UpkeepAssumption, DeclarationAssumption DEF WellFormed
<1>5. \A t \in Target : RoleOf[t] \in Roles
  BY PlacementAssumption DEF WellPlaced
<1>6. Target = {Main} \cup Dependents \cup Fallbacks
  <2>1. \A t \in Target : t \in Authority \cup Components \cup Dependents \cup Fallbacks
    BY <1>5 DEF Roles, Authority, Components, Dependents, Fallbacks, ByRole
  <2> QED
    BY <2>1, <1>2, <1>3, <1>4 DEF Dependents, Fallbacks, ByRole
<1>7. Main \notin Dependents /\ Main \notin Fallbacks /\ Dependents \cap Fallbacks = {}
  BY <1>2 DEF Authority, Dependents, Fallbacks, ByRole
<1>8. Dependents \subseteq Target /\ Fallbacks \subseteq Target /\ Dependents # {}
  BY UpkeepAssumption DEF Dependents, Fallbacks, ByRole
<1>9. Main \in Consulted /\ Consulted \subseteq Target
  BY <1>2, <1>8 DEF Consulted, Authority, ByRole
<1> QED
  BY <1>2, <1>3, <1>6, <1>7, <1>8, <1>9 DEF Older

\* A fill goes downstream: never to a fallback or to its source, to the authority only
\* from a fallback.
LEMMA Downstream ==
    ASSUME NEW s \in Target, NEW S \in SUBSET Target, NEW t \in Fillable(s, S)
    PROVE  t \in Target /\ t \in S /\ t # s /\ t \notin Fallbacks /\ (t = Main => s \in Fallbacks)
<1>1. t \in S /\ t \in Target /\ StreamOrder[t] > StreamOrder[s]
  BY DEF Fillable
<1>2. Main \in Authority
  BY Parties
<1> QED
  BY <1>1, <1>2, Parties DEF StreamOrder, Fallbacks, Dependents, Authority, ByRole

LEMMA FirstIsIn == ASSUME NEW S, NEW rank PROVE First(S, rank) \subseteq S
BY DEF First

-----------------------------------------------------------------------------
(***************************************************************************)
(* What the module judges and does, entry by entry.                        *)
(***************************************************************************)
LEMMA Judged ==
    ASSUME NEW t, NEW k \in Key
    PROVE  /\ Expired(t, k) <=> RunOut(held[t][k], now)
           /\ Live(t, k) # Nothing <=> Alive(held[t][k], now)
           /\ Alive(held[t][k], now) => Live(t, k) = held[t][k]
BY DEF Expired, Live, RunOut, Alive

LEMMA JudgedKeys ==
    ASSUME NEW t
    PROVE  LiveKeys(t) = AliveKeys(held, t, now) /\ ExpiredKeys(t) = RunOutKeys(held, t, now)
BY Judged DEF LiveKeys, ExpiredKeys, AliveKeys, RunOutKeys

\* h2 is h but for keys K of target t.
Alters(h, h2, t, K) ==
    /\ h2 \in [Target -> [Key -> Entries]]
    /\ \A u \in Target, k \in Key : u # t \/ k \notin K => h2[u][k] = h[u][k]

Storable(K, id, clock) ==
    K \in SUBSET Key /\ \A k \in K : id[k] \in 1..MaxId /\ clock[k] \in 0..MaxTime
Stores(h, h2, t, K, id, clock) ==
    Alters(h, h2, t, K) /\ \A k \in K : h2[t][k] = [id |-> id[k], clock |-> clock[k]]

LEMMA PutThere ==
    ASSUME held \in Holding, NEW t \in Target, NEW K, NEW id, NEW clock, Storable(K, id, clock)
    PROVE  Stores(held, Put(t, K, id, clock), t, K, id, clock)
<1> DEFINE row == [k \in Key |-> IF k \in K THEN [id |-> id[k], clock |-> clock[k]] ELSE held[t][k]]
<1>0. K \in SUBSET Key /\ \A k \in K : id[k] \in 1..MaxId /\ clock[k] \in 0..MaxTime
  BY DEF Storable
<1>1. held \in [Target -> [Key -> Entries]]
  BY DEF Holding
<1>2. Put(t, K, id, clock) = [held EXCEPT ![t] = row]
  BY <1>1 DEF Put
<1>3. row \in [Key -> Entries]
  <2> SUFFICES ASSUME NEW k \in Key
               PROVE  (IF k \in K THEN [id |-> id[k], clock |-> clock[k]] ELSE held[t][k]) \in Entries
    OBVIOUS
  <2> QED
    BY <1>0, <1>1, NothingApart DEF Entries
<1>4. \A k \in K : row[k] = [id |-> id[k], clock |-> clock[k]]
  BY <1>0
<1>5. \A k \in Key : k \notin K => row[k] = held[t][k]
  OBVIOUS
<1> HIDE DEF row
<1> QED
  BY <1>0, <1>1, <1>2, <1>3, <1>4, <1>5 DEF Alters, Stores

LEMMA WithoutThem ==
    ASSUME held \in Holding, NEW t \in Target, NEW K \in SUBSET Key
    PROVE  /\ Alters(held, Without(t, K), t, K)
           /\ \A k \in K : Without(t, K)[t][k] = Nothing
<1> DEFINE row == [k \in Key |-> IF k \in K THEN Nothing ELSE held[t][k]]
<1>1. held \in [Target -> [Key -> Entries]]
  BY DEF Holding
<1>2. Without(t, K) = [held EXCEPT ![t] = row]
  BY <1>1 DEF Without
<1>3. row \in [Key -> Entries] /\ \A k \in K : row[k] = Nothing
  BY <1>1 DEF Entries
<1>4. \A k \in Key : k \notin K => row[k] = held[t][k]
  OBVIOUS
<1> HIDE DEF row
<1> QED
  BY <1>1, <1>2, <1>3, <1>4 DEF Alters

LEMMA LookedUpThere ==
    ASSUME held \in Holding, NEW t \in Target, NEW K \in SUBSET Key
    PROVE  /\ Alters(held, LookedUp(t, K), t, K)
           /\ \A k \in K : LookedUp(t, K)[t][k] =
                  IF RunOut(held[t][k], now) THEN Nothing ELSE held[t][k]
<1>1. K \cap ExpiredKeys(t) \in SUBSET Key
  OBVIOUS
<1>2. \A k \in K : k \in ExpiredKeys(t) <=> RunOut(held[t][k], now)
  BY JudgedKeys DEF RunOutKeys
<1>3. LookedUp(t, K) = Without(t, K \cap ExpiredKeys(t))
  BY DEF LookedUp
<1>4. /\ Alters(held, LookedUp(t, K), t, K \cap ExpiredKeys(t))
      /\ \A k \in K \cap ExpiredKeys(t) : LookedUp(t, K)[t][k] = Nothing
  BY <1>1, <1>3, WithoutThem
<1> QED
  BY <1>2, <1>4 DEF Alters

-----------------------------------------------------------------------------
(***************************************************************************)
(* What another's step, or time, does to a call: it is told of the keys    *)
(* touched, T, and of those the authority was given, G.                    *)
(***************************************************************************)
Marked(cl, T, G) == [cl EXCEPT !.raced = @ \cup T, !.met = @ \cup G]
Told(cl, cl2, T, G) ==
    /\ cl2 \in CallType
    /\ cl2.raced = cl.raced \cup T /\ cl2.met = cl.met \cup G
    /\ cl2.op = cl.op /\ cl2.step = cl.step /\ cl2.keys = cl.keys
    /\ cl2.stale = cl.stale /\ cl2.id = cl.id /\ cl2.todo = cl.todo
    /\ cl2.src = cl.src /\ cl2.missed = cl.missed /\ cl2.val = cl.val
    /\ cl2.clock = cl.clock /\ cl2.filled = cl.filled /\ cl2.size = cl.size
    /\ cl2.limit = cl.limit /\ cl2.after = cl.after /\ cl2.page = cl.page
    /\ cl2.want = cl.want /\ cl2.found = cl.found /\ cl2.clocks = cl.clocks
    /\ cl2.left = cl.left /\ cl2.n = cl.n /\ cl2.raised = cl.raised
    /\ cl2.mine = cl.mine /\ cl2.unfair = cl.unfair /\ cl2.failed = cl.failed
    /\ cl2.due = cl.due

LEMMA Marks ==
    ASSUME NEW cl \in CallType, NEW T \in SUBSET Key, NEW G \in SUBSET Key
    PROVE  Told(cl, Marked(cl, T, G), T, G)
BY DEF Marked, CallType, Told

\* h2 at m2 is what h at m was, but for keys T; G are those the authority was given, and
\* a fallback only loses.
Apart(h, m, h2, m2, T, G) ==
    /\ \A t \in Target, k \in Key \ T :
          h2[t][k] = h[t][k] /\ (RunOut(h2[t][k], m2) <=> RunOut(h[t][k], m))
    /\ \A f \in Fallbacks, k \in Key : h2[f][k] \in {h[f][k], Nothing}
    /\ \A k \in Key \ G : h2[Main][k] \in {h[Main][k], Nothing}
    /\ G \subseteq T

LEMMA ApartAlive ==
    ASSUME NEW h, NEW m, NEW h2, NEW m2, NEW T, NEW G, Apart(h, m, h2, m2, T, G)
    PROVE  /\ \A t \in Target, k \in Key \ T :
                /\ h2[t][k] = h[t][k] /\ (Alive(h2[t][k], m2) <=> Alive(h[t][k], m))
                /\ RunOut(h2[t][k], m2) <=> RunOut(h[t][k], m)
           /\ T = {} => \A t \in Target : /\ AliveKeys(h2, t, m2) = AliveKeys(h, t, m)
                                          /\ RunOutKeys(h2, t, m2) = RunOutKeys(h, t, m)
BY DEF Apart, Alive, AliveKeys, RunOutKeys

LEMMA WritingApart ==
    ASSUME NEW h, NEW m, NEW h2, NEW m2, NEW T \in SUBSET Key, NEW G \in SUBSET Key,
           Apart(h, m, h2, m2, T, G), NEW cl \in CallType, Writing(cl, h, m),
           NEW cl2, Told(cl, cl2, T, G)
    PROVE  Writing(cl2, h2, m2)
<1>1. /\ cl2.raced = cl.raced \cup T /\ cl2.op = cl.op /\ cl2.step = cl.step /\ cl2.keys = cl.keys
      /\ cl2.stale = cl.stale /\ cl2.id = cl.id /\ cl2.todo = cl.todo /\ cl2.val = cl.val
      /\ cl2.raised = cl.raised /\ cl2.failed = cl.failed
  BY DEF Told
<1>2. /\ Waiting(cl2) <=> Waiting(cl)
      /\ Given(cl2) = Given(cl) /\ Cleared(cl2) = Cleared(cl)
  BY <1>1 DEF Waiting, Given, Cleared, ReachedBy
<1>3. Given(cl) \subseteq Target /\ Cleared(cl) \subseteq Target
  BY Parties DEF Given, Cleared, ReachedBy
<1>4. cl.keys \subseteq Key /\ cl.stale \subseteq Key
  BY DEF CallType
<1> QED
  BY <1>1, <1>2, <1>3, <1>4, ApartAlive, Parties DEF Writing

LEMMA GroupingApart ==
    ASSUME NEW h, NEW m, NEW h2, NEW m2, NEW T \in SUBSET Key, NEW G \in SUBSET Key,
           Apart(h, m, h2, m2, T, G), NEW cl \in CallType, Grouping(cl, h, m),
           NEW cl2, Told(cl, cl2, T, G)
    PROVE  Grouping(cl2, h2, m2)
<1>1. /\ cl2.raced = cl.raced \cup T /\ cl2.op = cl.op /\ cl2.step = cl.step /\ cl2.keys = cl.keys
      /\ cl2.stale = cl.stale /\ cl2.todo = cl.todo /\ cl2.raised = cl.raised
  BY DEF Told
<1>2. Waiting(cl2) <=> Waiting(cl)
  BY <1>1 DEF Waiting
<1>3. T = {} => AliveKeys(h2, Main, m2) = AliveKeys(h, Main, m)
  BY ApartAlive, Parties
<1> QED
  BY <1>1, <1>2, <1>3 DEF Grouping

LEMMA CollectingApart ==
    ASSUME NEW h, NEW m, NEW h2, NEW m2, NEW T \in SUBSET Key, NEW G \in SUBSET Key,
           Apart(h, m, h2, m2, T, G), NEW cl \in CallType, Collecting(cl, h, m),
           NEW cl2, Told(cl, cl2, T, G)
    PROVE  Collecting(cl2, h2, m2)
<1>1. /\ cl2.raced = cl.raced \cup T /\ cl2.op = cl.op /\ cl2.step = cl.step
      /\ cl2.stale = cl.stale /\ cl2.todo = cl.todo /\ cl2.raised = cl.raised
      /\ cl2.failed = cl.failed /\ cl2.due = cl.due
  BY DEF Told
<1>2. Forgetting(cl2) = Forgetting(cl) /\ CollectedBy(cl2) = CollectedBy(cl)
  BY <1>1 DEF Forgetting, CollectedBy, ReachedBy
<1>3. Forgetting(cl) \subseteq Target /\ CollectedBy(cl) \subseteq Target
  BY Parties DEF Forgetting, CollectedBy, ReachedBy
<1>4. cl.stale \subseteq Key
  BY DEF CallType
<1>5. T = {} => \A t \in Target : RunOutKeys(h2, t, m2) = RunOutKeys(h, t, m)
  BY ApartAlive
<1>6. \A t \in Target, k \in Key \ T : h2[t][k] = h[t][k]
  BY ApartAlive
<1> QED
  BY <1>1, <1>2, <1>3, <1>4, <1>5, <1>6 DEF Collecting

LEMMA ReadingApart ==
    ASSUME NEW h, NEW m, NEW h2, NEW m2, NEW T \in SUBSET Key, NEW G \in SUBSET Key,
           Apart(h, m, h2, m2, T, G), NEW cl \in CallType, Reading(cl, h, m),
           NEW cl2, Told(cl, cl2, T, G)
    PROVE  Reading(cl2, h2, m2)
<1>1. /\ cl2.raced = cl.raced \cup T /\ cl2.op = cl.op /\ cl2.step = cl.step /\ cl2.keys = cl.keys
      /\ cl2.todo = cl.todo /\ cl2.raised = cl.raised /\ cl2.src = cl.src
      /\ cl2.missed = cl.missed /\ cl2.val = cl.val /\ cl2.clock = cl.clock
      /\ cl2.filled = cl.filled /\ cl2.due = cl.due
  BY DEF Told
<1>2. SUFFICES ASSUME cl.op = "read" PROVE Reading(cl2, h2, m2)
  BY <1>1 DEF Reading
<1>3. PICK k \in Key :
        /\ cl.keys = {k} /\ cl.due \subseteq Consulted /\ Asking(cl, h, m, k)
        /\ cl.step \in {"stat", "fill", "reread", "again"} => \E s \in Target : Sourced(cl, h, m, k, s)
        /\ cl.step = "done" /\ cl.raced = {} /\ ~cl.raised => (cl.val # 0 <=> cl.due # {})
  BY <1>2 DEF Reading
<1>4. T = {} => \A t \in Target : h2[t][k] = h[t][k] /\ (Alive(h2[t][k], m2) <=> Alive(h[t][k], m))
  BY ApartAlive
<1>5. \A s \in Target : Fillable(s, Target) \subseteq Target
  BY DEF Fillable
<1>6. ASSUME NEW s \in Target, Sourced(cl, h, m, k, s) PROVE Sourced(cl2, h2, m2, k, s)
  BY <1>1, <1>4, <1>5, <1>6 DEF Sourced
<1>7. Asking(cl2, h2, m2, k)
  BY <1>1, <1>3, <1>4, Parties DEF Asking
<1> QED
  BY <1>1, <1>3, <1>6, <1>7 DEF Reading

LEMMA FillingApart ==
    ASSUME NEW h, NEW m, NEW h2, NEW m2, NEW T \in SUBSET Key, NEW G \in SUBSET Key,
           Apart(h, m, h2, m2, T, G), NEW o, NEW r, NEW r2, r \subseteq r2,
           NEW cl \in CallType, Filling(cl, h, m, o, r), NEW cl2, Told(cl, cl2, T, G)
    PROVE  Filling(cl2, h2, m2, o, r2)
<1>1. /\ cl2.raced = cl.raced \cup T /\ cl2.met = cl.met \cup G
      /\ cl2.op = cl.op /\ cl2.step = cl.step /\ cl2.stale = cl.stale /\ cl2.todo = cl.todo
      /\ cl2.src = cl.src /\ cl2.size = cl.size /\ cl2.limit = cl.limit /\ cl2.after = cl.after
      /\ cl2.page = cl.page /\ cl2.want = cl.want /\ cl2.found = cl.found
      /\ cl2.clocks = cl.clocks /\ cl2.left = cl.left /\ cl2.n = cl.n
      /\ cl2.raised = cl.raised /\ cl2.mine = cl.mine /\ cl2.unfair = cl.unfair
      /\ cl2.due = cl.due
  BY DEF Told
<1>2. SUFFICES ASSUME cl.op = "fill" PROVE Filling(cl2, h2, m2, o, r2)
  BY <1>1 DEF Filling
<1>3. /\ cl.due \in [Key -> SUBSET Target] /\ cl.size # 0 /\ cl.limit # 0
      /\ cl.step # "done" => \E f \in Older : cl.src = {f}
      /\ Checking(cl) /\ FoundOld(cl, h, o, r) /\ Accounts(cl, h) /\ StillThere(cl, h, m)
      /\ ~cl.raised => \A k \in Key \ cl.raced : \A f \in cl.due[k] : Owed(cl, h, m, k, f)
  BY <1>2 DEF Filling
<1>4. /\ cl.page \subseteq Key /\ cl.src \subseteq Target
      /\ cl.step \in AllSteps /\ DOMAIN cl.found \subseteq Key
  BY DEF CallType, Partial
<1>5. \A t \in Target, k \in Key \ T :
         h2[t][k] = h[t][k] /\ (Alive(h2[t][k], m2) <=> Alive(h[t][k], m))
  BY ApartAlive
<1>6. /\ \A f \in Fallbacks, k \in Key : h2[f][k] \in {h[f][k], Nothing}
      /\ \A k \in Key \ G : h2[Main][k] \in {h[Main][k], Nothing}
      /\ G \subseteq T
  BY DEF Apart
<1>7. FoundOld(cl2, h2, o, r2)
  <2> SUFFICES ASSUME NEW f \in cl.src, cl.step \in Reported
               PROVE  FoundOld(cl2, h2, o, r2)!(f)!2
    BY <1>1 DEF FoundOld
  <2>1. f \in Fallbacks
    BY <1>3, Parties DEF Reported
  <2>2. FoundOld(cl, h, o, r)!(f)!2
    BY <1>3 DEF FoundOld
  <2>3. ASSUME NEW k \in DOMAIN cl.found
        PROVE  \E e \in o[k] :
             /\ e.id = cl2.found[k]
             /\ cl2.step = "dates" => h2[f][k] \in {e, Nothing}
             /\ cl2.step # "dates" =>
                  /\ k \in DOMAIN cl2.clocks
                  /\ cl2.clocks[k] \in {e.clock, Nothing}
    BY <2>1, <2>2, <2>3, <1>1, <1>4, <1>6
  <2> QED
    BY <2>2, <2>3, <1>1
<1>8. Accounts(cl2, h2)
  BY <1>1, <1>3, <1>4, <1>6 DEF Accounts
<1>9. StillThere(cl2, h2, m2)
  BY <1>1, <1>3, <1>4, <1>5 DEF StillThere
<1>11. Checking(cl2)
  BY <1>1, <1>3 DEF Checking
<1>10. ASSUME ~cl.raised, NEW k \in Key \ (cl.raced \cup T), NEW f \in cl.due[k]
       PROVE  Owed(cl2, h2, m2, k, f)
  <2>1. Owed(cl, h, m, k, f)
    BY <1>10, <1>3
  <2>2. f \in Target /\ Older \subseteq Target /\ Main \in Target
    BY <1>10, <1>3, Parties
  <2>3. ToCome(cl, k, f) => ToCome(cl2, k, f)
    BY <1>1 DEF ToCome
  <2> QED
    BY <2>1, <2>2, <2>3, <1>5 DEF Owed
<1> QED
  BY <1>1, <1>3, <1>7, <1>8, <1>9, <1>10, <1>11 DEF Filling

\* Whatever the others do, a call still knows what it knew of the keys nobody touched.
LEMMA StillKnows ==
    ASSUME NEW h, NEW m, NEW h2, NEW m2, NEW T \in SUBSET Key, NEW G \in SUBSET Key,
           Apart(h, m, h2, m2, T, G), NEW o, NEW r, NEW r2, r \subseteq r2,
           NEW cl \in CallType, Knows(cl, h, m, o, r), cl.step # "idle"
    PROVE  Marked(cl, T, G) \in CallType /\ Knows(Marked(cl, T, G), h2, m2, o, r2)
<1>1. PICK cl2 : cl2 = Marked(cl, T, G)
  OBVIOUS
<1>2. Told(cl, cl2, T, G)
  BY <1>1, Marks
<1>3. Placed(cl2) /\ Fresh(cl2.id, o)
  BY <1>2 DEF Told, Placed, Fresh, Knows
<1>4. Writing(cl2, h2, m2) /\ Grouping(cl2, h2, m2)
  BY <1>2, WritingApart, GroupingApart DEF Knows
<1>5. Collecting(cl2, h2, m2) /\ Reading(cl2, h2, m2)
  BY <1>2, CollectingApart, ReadingApart DEF Knows
<1>6. Filling(cl2, h2, m2, o, r2)
  BY <1>2, FillingApart DEF Knows
<1>7. cl2 \in CallType
  BY <1>2 DEF Told
<1> QED
  BY <1>1, <1>3, <1>4, <1>5, <1>6, <1>7 DEF Knows

-----------------------------------------------------------------------------
(***************************************************************************)
(* A step of one caller: what remains to be shown is what that caller      *)
(* knows then, and that the fallbacks were not written.                    *)
(***************************************************************************)
LEMMA EmptyIsPartial == ASSUME NEW S PROVE <<>> \in Partial(S)
<1>1. <<>> \in [{} -> S]
  OBVIOUS
<1> QED
  BY <1>1 DEF Partial

LEMMA IdleTyped == Idle \in CallType
<1>1. <<>> \in Partial(1..MaxId) /\ <<>> \in Partial(Clock)
  BY EmptyIsPartial
<1>2. Counts \in Tally
  BY DEF Counts, Tally
<1>3. Nothing \in Clock
  BY DEF Clock
<1>4. <<>> \in Due
  BY DEF Due
<1> QED
  BY <1>1, <1>2, <1>3, <1>4, Sizes DEF Idle, CallType, AllSteps

LEMMA IdleKnows ==
    ASSUME NEW h, NEW m, NEW o, NEW r, NEW last, Aged(o, last)
    PROVE  Knows(Idle, h, m, o, r)
<1>1. Idle.op = "none" /\ Idle.step = "idle" /\ Idle.id = 0 /\ ~Idle.raised
  BY DEF Idle
<1>2. Placed(Idle)
  BY <1>1 DEF Placed, Syncing
<1>3. Fresh(0, o)
  BY NothingApart DEF Fresh, Aged
<1> QED
  BY <1>1, <1>2, <1>3 DEF Knows, Writing, Grouping, Collecting, Reading, Filling

LEMMA AgesOn ==
    ASSUME NEW o, NEW i \in Nat, NEW j \in Nat, i <= j, Aged(o, i) PROVE Aged(o, j)
<1>1. \A k \in Key : \A e \in o[k] : e.id \in Nat
  BY NothingApart, Sizes DEF Aged
<1> QED
  BY <1>1 DEF Aged

LEMMA Advances ==
    ASSUME Inv, NEW c \in Client, NEW h2 \in Holding, NEW cl2 \in CallType,
           Becomes(c, h2, cl2),
           now' = now, old' = old, redated \subseteq redated', redated' \subseteq 1..MaxId,
           lastId' \in 0..MaxId, lastId <= lastId', faults' \in 0..MaxFaults,
           calls' \in [Client -> 0..MaxCalls],
           \A f \in Fallbacks, k \in Key : h2[f][k] \in {held[f][k], Nothing},
           KeepsLife(h2, old, redated'), Knows(cl2, h2, now, old, redated')
    PROVE  Inv'
<1> DEFINE touched == {k \in Key : \E t \in Target : held[t][k] # h2[t][k]}
           given == {k \in touched : h2[Main][k] # Nothing /\ h2[Main][k] # held[Main][k]}
<1>1. /\ held' = h2
      /\ call' = [d \in Client |->
              IF d = c THEN cl2
              ELSE IF At(d, "idle") THEN Idle
              ELSE [call[d] EXCEPT !.raced = @ \cup touched, !.met = @ \cup given]]
  BY DEF Becomes
<1>2. Apart(held, now, h2, now, touched, given)
  BY Parties DEF Apart
<1>3. touched \in SUBSET Key /\ given \in SUBSET Key
  OBVIOUS
<1> HIDE DEF touched, given
<1>4. /\ held \in Holding /\ call \in [Client -> CallType] /\ Aged(old, lastId)
      /\ FromOld(held, old) /\ lastId \in 0..MaxId /\ now \in 0..MaxTime
      /\ \A d \in Client : Knows(call[d], held, now, old, redated)
  BY DEF Inv
<1>5. ASSUME NEW d \in Client
      PROVE  call'[d] \in CallType /\ Knows(call'[d], h2, now, old, redated')
  <2>1. CASE d = c
    BY <2>1, <1>1
  <2>2. CASE d # c /\ At(d, "idle")
    BY <2>2, <1>1, <1>4, IdleTyped, IdleKnows
  <2>3. CASE d # c /\ ~At(d, "idle")
    <3>1. call'[d] = Marked(call[d], touched, given)
      BY <2>3, <1>1 DEF Marked
    <3>2. call[d] \in CallType /\ Knows(call[d], held, now, old, redated) /\ call[d].step # "idle"
      BY <2>3, <1>4 DEF At
    <3>3. PICK h, m, o, r, r2, cl, T, G :
             /\ h = held /\ m = now /\ o = old /\ r = redated /\ r2 = redated' /\ cl = call[d]
             /\ T = touched /\ G = given
      OBVIOUS
    <3>4. Marked(cl, T, G) \in CallType /\ Knows(Marked(cl, T, G), h2, m, o, r2)
      BY <3>2, <3>3, <1>2, <1>3, StillKnows
    <3> QED
      BY <3>1, <3>3, <3>4
  <2> QED
    BY <2>1, <2>2, <2>3
<1>6. call' \in [Client -> CallType]
  BY <1>1, <1>5
<1>7. Aged(old, lastId')
  <2>1. PICK o, i, j : o = old /\ i = lastId /\ j = lastId'
    OBVIOUS
  <2> QED
    BY <2>1, <1>4, AgesOn, Sizes
<1>8. FromOld(h2, old)
  BY <1>4 DEF FromOld
<1> QED
  BY <1>1, <1>4, <1>5, <1>6, <1>7, <1>8 DEF Inv

\* Time passes for every call.
LEMMA TickKeeps == ASSUME Inv, Tick PROVE Inv'
<1> DEFINE flips == {k \in Key : \E t \in Target :
                        held[t][k] # Nothing /\ held[t][k].clock + Ttl = now + 1}
<1>1. /\ held \in Holding /\ call \in [Client -> CallType] /\ Aged(old, lastId)
      /\ now \in 0..MaxTime /\ now < MaxTime /\ now' = now + 1
      /\ \A d \in Client : Knows(call[d], held, now, old, redated)
      /\ UNCHANGED <<held, calls, lastId, old, redated, faults>>
  BY DEF Inv, Tick
<1>2. call' = [c \in Client |-> IF At(c, "idle") THEN Idle
                                ELSE [call[c] EXCEPT !.raced = @ \cup flips]]
  BY DEF Tick
<1>3. Apart(held, now, held, now + 1, flips, {})
  <2> SUFFICES ASSUME NEW t \in Target, NEW k \in Key \ flips
               PROVE  RunOut(held[t][k], now + 1) <=> RunOut(held[t][k], now)
    BY DEF Apart
  <2>1. held[t][k] = Nothing \/ held[t][k].clock \in Nat
    BY <1>1, NothingApart, Sizes DEF Holding, Entries
  <2> QED
    BY <2>1, <1>1, Sizes DEF RunOut
<1>4. flips \in SUBSET Key
  OBVIOUS
<1> HIDE DEF flips
<1>5. ASSUME NEW d \in Client
      PROVE  call'[d] \in CallType /\ Knows(call'[d], held, now + 1, old, redated)
  <2>2. CASE At(d, "idle")
    BY <2>2, <1>1, <1>2, IdleTyped, IdleKnows
  <2>3. CASE ~At(d, "idle")
    <3>2. call[d] \in CallType /\ Knows(call[d], held, now, old, redated) /\ call[d].step # "idle"
      BY <2>3, <1>1 DEF At
    <3>1. call'[d] = Marked(call[d], flips, {})
      BY <2>3, <1>2, <3>2 DEF Marked, CallType
    <3>3. PICK h, m, m2, o, r, cl, T :
             /\ h = held /\ m = now /\ m2 = now + 1 /\ o = old /\ r = redated /\ cl = call[d]
             /\ T = flips
      OBVIOUS
    <3>4. Marked(cl, T, {}) \in CallType /\ Knows(Marked(cl, T, {}), h, m2, o, r)
      BY <3>2, <3>3, <1>3, <1>4, StillKnows
    <3> QED
      BY <3>1, <3>3, <3>4
  <2> QED
    BY <2>2, <2>3
<1>6. call' \in [Client -> CallType]
  BY <1>2, <1>5
<1> QED
  BY <1>1, <1>5, <1>6, Sizes DEF Inv

\* The owner of a fallback removes an entry.
LEMMA VanishKeeps == ASSUME Inv, NEW t \in Target, NEW k \in Key, Vanish(t, k) PROVE Inv'
<1> DEFINE h2 == Without(t, {k})
<1>1. /\ held \in Holding /\ call \in [Client -> CallType] /\ Aged(old, lastId)
      /\ FromOld(held, old) /\ KeepsLife(held, old, redated)
      /\ faults \in 0..MaxFaults /\ faults < MaxFaults /\ faults' = faults + 1
      /\ \A d \in Client : Knows(call[d], held, now, old, redated)
      /\ t \in Fallbacks /\ held' = h2
      /\ UNCHANGED <<now, calls, lastId, old, redated>>
  BY DEF Inv, Vanish
<1>2. call' = [c \in Client |-> IF At(c, "idle") THEN Idle
                                ELSE [call[c] EXCEPT !.raced = @ \cup {k}]]
  BY DEF Vanish
<1>3. Alters(held, h2, t, {k}) /\ h2[t][k] = Nothing
  BY <1>1, WithoutThem
<1> HIDE DEF h2
<1>4. \A u \in Target, j \in Key : h2[u][j] \in {held[u][j], Nothing}
  BY <1>3 DEF Alters
<1>5. Apart(held, now, h2, now, {k}, {})
  BY <1>3, <1>4, Parties DEF Apart, Alters
<1>6. ASSUME NEW d \in Client
      PROVE  call'[d] \in CallType /\ Knows(call'[d], h2, now, old, redated)
  <2>2. CASE At(d, "idle")
    BY <2>2, <1>1, <1>2, IdleTyped, IdleKnows
  <2>3. CASE ~At(d, "idle")
    <3>2. call[d] \in CallType /\ Knows(call[d], held, now, old, redated) /\ call[d].step # "idle"
      BY <2>3, <1>1 DEF At
    <3>1. call'[d] = Marked(call[d], {k}, {})
      BY <2>3, <1>2, <3>2 DEF Marked, CallType
    <3>3. PICK h, g, m, o, r, cl :
             h = held /\ g = h2 /\ m = now /\ o = old /\ r = redated /\ cl = call[d]
      OBVIOUS
    <3>4. Marked(cl, {k}, {}) \in CallType /\ Knows(Marked(cl, {k}, {}), g, m, o, r)
      BY <3>2, <3>3, <1>5, StillKnows
    <3> QED
      BY <3>1, <3>3, <3>4
  <2> QED
    BY <2>2, <2>3
<1>7. call' \in [Client -> CallType]
  BY <1>2, <1>6
<1>8. FromOld(h2, old) /\ KeepsLife(h2, old, redated)
  BY <1>1, <1>4, Parties DEF FromOld, KeepsLife
<1>9. h2 \in Holding
  BY <1>3 DEF Alters, Holding
<1> QED
  BY <1>1, <1>6, <1>7, <1>8, <1>9, Sizes DEF Inv

\* A caller's step that writes nothing.
LEMMA Loses ==
    ASSUME Inv, NEW c \in Client, NEW h2 \in Holding, NEW cl2 \in CallType,
           Becomes(c, h2, cl2), UNCHANGED <<now, lastId, old, redated>>,
           faults' \in 0..MaxFaults, calls' \in [Client -> 0..MaxCalls],
           \A t \in Target, k \in Key : h2[t][k] \in {held[t][k], Nothing},
           Knows(cl2, h2, now, old, redated)
    PROVE  Inv'
<1>1. KeepsLife(held, old, redated) /\ redated \subseteq 1..MaxId /\ lastId \in 0..MaxId
  BY DEF Inv
<1>2. KeepsLife(h2, old, redated)
  BY <1>1 DEF KeepsLife
<1>3. \A f \in Fallbacks, k \in Key : h2[f][k] \in {held[f][k], Nothing}
  BY Parties
<1> QED
  BY <1>1, <1>2, <1>3, Advances, Sizes

-----------------------------------------------------------------------------
(***************************************************************************)
(* A call that goes on to another step or other targets.                   *)
(***************************************************************************)
Moved(cl, step, todo) == [cl EXCEPT !.step = step, !.todo = todo]
Moves(cl, cl2, step, todo) ==
    /\ cl2 \in CallType
    /\ cl2.step = step /\ cl2.todo = todo
    /\ cl2.op = cl.op /\ cl2.keys = cl.keys /\ cl2.stale = cl.stale /\ cl2.id = cl.id
    /\ cl2.src = cl.src /\ cl2.missed = cl.missed /\ cl2.val = cl.val
    /\ cl2.clock = cl.clock /\ cl2.filled = cl.filled /\ cl2.size = cl.size
    /\ cl2.limit = cl.limit /\ cl2.after = cl.after /\ cl2.page = cl.page
    /\ cl2.want = cl.want /\ cl2.found = cl.found /\ cl2.clocks = cl.clocks
    /\ cl2.left = cl.left /\ cl2.n = cl.n /\ cl2.raised = cl.raised
    /\ cl2.raced = cl.raced /\ cl2.met = cl.met
    /\ cl2.mine = cl.mine /\ cl2.unfair = cl.unfair /\ cl2.failed = cl.failed
    /\ cl2.due = cl.due

LEMMA MovedMoves ==
    ASSUME NEW cl \in CallType, NEW step \in AllSteps, NEW todo \in SUBSET Target
    PROVE  Moves(cl, Moved(cl, step, todo), step, todo)
BY DEF Moved, Moves, CallType

\* Where the call goes when target t is behind it.
Rest(cl, t) == IF t = Main THEN Dependents ELSE cl.todo \ {t}
PastStep(cl, t) ==
    IF Rest(cl, t) # {} THEN cl.step
    ELSE IF cl.op = "group" /\ cl.step = "set" /\ cl.stale # {} THEN "remove"
    ELSE IF cl.op = "fill" THEN "copy"
    ELSE IF cl.op = "gc" /\ cl.step = "forget" THEN "collect" ELSE "done"
PastTodo(cl, t) ==
    IF Rest(cl, t) # {} THEN Rest(cl, t)
    ELSE IF cl.op = "group" /\ cl.step = "set" /\ cl.stale # {} THEN {Main}
    ELSE IF cl.op = "gc" /\ cl.step = "forget" THEN Dependents ELSE {}

LEMMA PastMoves ==
    ASSUME NEW cl \in CallType, NEW t \in Target
    PROVE  Moves(cl, Past(cl, t), PastStep(cl, t), PastTodo(cl, t))
<1> DEFINE cl1 == [cl EXCEPT !.todo = Rest(cl, t)]
<1>1. /\ cl1.op = cl.op /\ cl1.step = cl.step /\ cl1.stale = cl.stale
      /\ \A s, T : [cl1 EXCEPT !.step = s, !.todo = T] = [cl EXCEPT !.step = s, !.todo = T]
      /\ \A s : [cl1 EXCEPT !.step = s] = [cl EXCEPT !.step = s, !.todo = Rest(cl, t)]
      /\ cl1 = [cl EXCEPT !.step = cl.step, !.todo = Rest(cl, t)]
  BY DEF CallType
<1>2. Past(cl, t) = IF Rest(cl, t) = {} THEN Onward(cl1) ELSE cl1
  BY DEF Past, Rest
<1> HIDE DEF cl1
<1>3. Past(cl, t) = Moved(cl, PastStep(cl, t), PastTodo(cl, t))
  <2>1. CASE Rest(cl, t) # {}
    BY <2>1, <1>1, <1>2 DEF Moved, PastStep, PastTodo
  <2>2. CASE Rest(cl, t) = {} /\ cl.op = "group" /\ cl.step = "set" /\ cl.stale # {}
    <3>1. Onward(cl1) = [cl1 EXCEPT !.step = "remove", !.todo = {Main}]
      BY <2>2, <1>1 DEF Onward
    <3> QED
      BY <3>1, <2>2, <1>1, <1>2 DEF Moved, PastStep, PastTodo
  <2>3. CASE Rest(cl, t) = {} /\ cl.op = "fill"
    <3>1. Onward(cl1) = [cl1 EXCEPT !.step = "copy"]
      BY <2>3, <1>1 DEF Onward
    <3> QED
      BY <3>1, <2>3, <1>1, <1>2 DEF Moved, PastStep, PastTodo
  <2>4. CASE Rest(cl, t) = {} /\ cl.op = "gc" /\ cl.step = "forget"
    <3>1. Onward(cl1) = [cl1 EXCEPT !.step = "collect", !.todo = Dependents]
      BY <2>4, <1>1 DEF Onward
    <3> QED
      BY <3>1, <2>4, <1>1, <1>2 DEF Moved, PastStep, PastTodo
  <2>5. CASE /\ Rest(cl, t) = {} /\ cl.op # "fill" /\ ~(cl.op = "gc" /\ cl.step = "forget")
             /\ ~(cl.op = "group" /\ cl.step = "set" /\ cl.stale # {})
    <3>1. Onward(cl1) = [cl1 EXCEPT !.step = "done"]
      BY <2>5, <1>1 DEF Onward, Done
    <3> QED
      BY <3>1, <2>5, <1>1, <1>2 DEF Moved, PastStep, PastTodo
  <2> QED
    BY <2>1, <2>2, <2>3, <2>4, <2>5
<1>4. PastStep(cl, t) \in AllSteps /\ PastTodo(cl, t) \in SUBSET Target
  BY Parties DEF CallType, PastStep, PastTodo, Rest, AllSteps
<1> QED
  BY <1>3, <1>4, MovedMoves

\* Target t has been given what it is to be given at this step, or failed and was let off.
Served(cl, h, m, t) ==
    /\ cl.step \in {"set", "open"} => \A k \in cl.keys \ cl.raced :
          t \in ReachedBy(cl) => h[t][k] # Nothing /\ h[t][k].id = cl.id
    /\ cl.step \in {"remove", "forget"} => \A k \in cl.stale \ cl.raced :
          t \in ReachedBy(cl) => h[t][k] = Nothing
    /\ cl.step = "set" => cl.id # 0
    /\ cl.op = "group" /\ cl.raced = {} /\ t = Main =>
          /\ cl.step = "set" => cl.keys \subseteq AliveKeys(h, Main, m)
          /\ cl.step = "remove" => AliveKeys(h, Main, m) \cap cl.stale = {}
    /\ cl.step = "collect" /\ cl.raced = {} /\ t \in ReachedBy(cl) =>
          \/ RunOutKeys(h, t, m) = {}
          \/ Cardinality(cl.due[t] \ RunOutKeys(h, t, m)) >= GcLimit

LEMMA PastPlaced ==
    ASSUME NEW cl \in CallType, NEW t \in cl.todo, cl.step \in Syncing \ {"feed"}, Placed(cl),
           NEW cl2, Moves(cl, cl2, PastStep(cl, t), PastTodo(cl, t))
    PROVE  Placed(cl2)
<1>1. /\ cl2.op = cl.op /\ cl2.step = PastStep(cl, t) /\ cl2.todo = PastTodo(cl, t)
      /\ cl2.raised = cl.raised
  BY DEF Moves
<1>2. t = Main => cl.step \in {"set", "remove"}
  BY Parties DEF Placed, Syncing
<1>3. cl.step # "idle" /\ cl.op # "none" /\ ~cl.raised
  BY DEF Placed, Syncing
<1>4. CASE Rest(cl, t) # {}
  <2>1. cl2.step = cl.step /\ cl2.todo = Rest(cl, t)
    BY <1>1, <1>4 DEF PastStep, PastTodo
  <2>2. Rest(cl, t) \subseteq Dependents
    BY Parties DEF Rest, Placed, Syncing
  <2> QED
    BY <2>1, <2>2, <1>1, <1>3, <1>4 DEF Placed
<1>5. CASE Rest(cl, t) = {}
  BY <1>1, <1>3, <1>5, Parties DEF Placed, PastStep, PastTodo, Syncing
<1> QED
  BY <1>4, <1>5

LEMMA PastWriting ==
    ASSUME NEW h, NEW m, NEW cl \in CallType, NEW t \in cl.todo, cl.step \in Syncing \ {"feed"},
           Placed(cl), Writing(cl, h, m), Served(cl, h, m, t),
           NEW cl2, Moves(cl, cl2, PastStep(cl, t), PastTodo(cl, t))
    PROVE  Writing(cl2, h, m)
<1> SUFFICES ASSUME cl.op \in {"set", "delete", "stream", "group"} PROVE Writing(cl2, h, m)
  BY DEF Writing, Moves
<1>1. /\ cl2.op = cl.op /\ cl2.step = PastStep(cl, t) /\ cl2.todo = PastTodo(cl, t)
      /\ cl2.keys = cl.keys /\ cl2.stale = cl.stale /\ cl2.id = cl.id /\ cl2.val = cl.val
      /\ cl2.raised = cl.raised /\ cl2.raced = cl.raced /\ cl2.failed = cl.failed
  BY DEF Moves
<1>2. cl.step \in {"set", "remove", "open"}
  BY DEF Placed, Syncing
<1>3. /\ cl.op \in {"set", "stream"} => cl.stale = {}
      /\ cl.op = "delete" => cl.keys = {}
      /\ cl.op = "stream" => \E k \in Key : cl.keys = {k}
      /\ cl.keys \cap cl.stale = {}
      /\ cl.step \in {"set", "open", "feed"} /\ ~Waiting(cl) => cl.id # 0
      /\ ~cl.raised =>
             /\ \A u \in Given(cl) : \A k \in cl.keys \ cl.raced :
                   h[u][k] # Nothing /\ h[u][k].id = cl.id
             /\ \A u \in Cleared(cl) : \A k \in cl.stale \ cl.raced : h[u][k] = Nothing
      /\ cl.step \in {"open", "feed"} => \A k \in cl.keys \ cl.raced : Alive(h[Main][k], m)
  BY DEF Writing
<1>4. ReachedBy(cl2) = ReachedBy(cl)
  BY <1>1 DEF ReachedBy
<1>5. cl2.step \in {"set", "open"} => cl2.step = cl.step /\ cl2.todo = Rest(cl, t)
  BY <1>1 DEF PastStep, PastTodo
<1>6. cl2.step # "feed" /\ cl2.step \notin {"list", "stream"}
  BY <1>1, <1>2 DEF PastStep
<1>8. t = Main => cl.step \in {"set", "remove"} /\ cl.todo = {Main}
  BY <1>2, Parties DEF Placed
<1>9. t # Main => cl.todo \subseteq Dependents
  BY <1>2, Parties DEF Placed
<1>7. ~Waiting(cl2)
  BY <1>5, <1>6, <1>9, Parties DEF Waiting, Rest
<1>10. Rest(cl, t) = {} => t # Main /\ cl.todo = {t}
  BY Parties DEF Rest
<1>11. ASSUME NEW u \in Given(cl2), cl.keys # {}
       PROVE  u \in Given(cl) \/ (u = t /\ u \in ReachedBy(cl) /\ cl.step \in {"set", "open"})
  <2>1. u \in ReachedBy(cl)
    BY <1>4, <1>11, <1>7 DEF Given
  <2>2. CASE cl.step = "remove"
    BY <2>1, <2>2 DEF Given, Waiting
  <2>3. CASE cl.step \in {"set", "open"} /\ t = Main
    <3>1. cl2.todo = Dependents /\ cl2.step = cl.step
      BY <2>3, <1>1, Parties DEF PastStep, PastTodo, Rest
    <3> QED
      BY <3>1, <1>4, <1>7, <1>11, <2>1, <2>3 DEF Given, ReachedBy
  <2>4. CASE cl.step \in {"set", "open"} /\ t # Main
    <3>1. ~Waiting(cl)
      BY <2>4, <1>9, Parties DEF Waiting
    <3>2. cl2.step \in {"set", "open"} => u \notin cl.todo \ {t}
      BY <2>4, <1>5, <1>7, <1>11 DEF Given, Rest
    <3>3. u \notin cl.todo \ {t}
      BY <3>2, <1>1, <1>10, <2>4 DEF PastStep
    <3> QED
      BY <3>1, <3>3, <2>1, <2>4 DEF Given
  <2> QED
    BY <1>2, <2>2, <2>3, <2>4
<1>12. ASSUME NEW u \in Cleared(cl2), cl.stale # {}
       PROVE  u \in Cleared(cl) \/ (u = t /\ u \in ReachedBy(cl) /\ cl.step = "remove")
  <2>1. u \in ReachedBy(cl)
    BY <1>4, <1>12 DEF Cleared
  <2>2. cl.step = "remove"
    BY <1>1, <1>2, <1>3, <1>12 DEF Cleared, PastStep, PastTodo, Placed
  <2>3. CASE t = Main
    <3>1. cl2.todo = Dependents /\ cl2.step = cl.step
      BY <2>3, <1>1, Parties DEF PastStep, PastTodo, Rest
    <3> QED
      BY <3>1, <1>4, <1>12, <2>1, <2>2, <2>3 DEF Cleared, ReachedBy
  <2>4. CASE t # Main
    <3>1. Main \notin cl.todo
      BY <2>4, <1>9, Parties
    <3>2. cl2.step = "remove" => u \notin cl.todo \ {t}
      BY <2>2, <2>4, <1>1, <1>10, <1>12 DEF Cleared, Rest, PastStep, PastTodo
    <3>3. u \notin cl.todo \ {t}
      BY <3>2, <1>1, <1>10, <2>2, <2>4 DEF PastStep
    <3> QED
      BY <3>1, <3>3, <2>1, <2>2, <2>4 DEF Cleared
  <2> QED
    BY <2>3, <2>4
<1>13. ~cl.raised => \A u \in Given(cl2) : \A k \in cl.keys \ cl.raced :
                        h[u][k] # Nothing /\ h[u][k].id = cl.id
  BY <1>3, <1>11 DEF Served
<1>14. ~cl.raised => \A u \in Cleared(cl2) : \A k \in cl.stale \ cl.raced : h[u][k] = Nothing
  BY <1>3, <1>12 DEF Served
<1>15. cl2.step \in {"set", "open", "feed"} => cl.id # 0
  BY <1>3, <1>5, <1>6, <1>2 DEF Served, Waiting
<1>16. cl2.step \in {"open", "feed"} => \A k \in cl.keys \ cl.raced : Alive(h[Main][k], m)
  BY <1>3, <1>5, <1>6
<1> QED
  BY <1>1, <1>3, <1>6, <1>13, <1>14, <1>15, <1>16 DEF Writing

LEMMA PastGrouping ==
    ASSUME NEW h, NEW m, NEW cl \in CallType, NEW t \in cl.todo, cl.step \in Syncing \ {"feed"},
           Placed(cl), Grouping(cl, h, m), Served(cl, h, m, t),
           NEW cl2, Moves(cl, cl2, PastStep(cl, t), PastTodo(cl, t))
    PROVE  Grouping(cl2, h, m)
<1> SUFFICES ASSUME cl.op = "group", cl.raced = {}, ~cl.raised PROVE Grouping(cl2, h, m)
  BY DEF Grouping, Moves
<1>1. /\ cl2.op = cl.op /\ cl2.step = PastStep(cl, t) /\ cl2.todo = PastTodo(cl, t)
      /\ cl2.keys = cl.keys /\ cl2.stale = cl.stale
  BY DEF Moves
<1>2. cl.step \in {"set", "remove"}
  BY DEF Placed, Syncing
<1>3. /\ AliveKeys(h, Main, m) \subseteq cl.keys \cup cl.stale
      /\ ~Waiting(cl) => cl.keys \subseteq AliveKeys(h, Main, m)
      /\ cl.step = "remove" /\ Main \notin cl.todo => AliveKeys(h, Main, m) \cap cl.stale = {}
  BY <1>2 DEF Grouping
<1>4. t = Main \/ (cl.todo \subseteq Dependents /\ Main \notin cl.todo)
  BY <1>2, Parties DEF Placed
<1>5. cl.keys \subseteq AliveKeys(h, Main, m)
  BY <1>2, <1>3, <1>4 DEF Served, Waiting
<1>6. cl.step = "remove" => AliveKeys(h, Main, m) \cap cl.stale = {}
  BY <1>3, <1>4 DEF Served
<1>7. cl2.step = "done" => cl.step = "remove" \/ cl.stale = {}
  BY <1>1, <1>2 DEF PastStep
<1>8. cl2.step = "remove" /\ Main \notin cl2.todo => cl.step = "remove"
  BY <1>1, <1>2 DEF PastStep, PastTodo
<1> QED
  BY <1>1, <1>3, <1>5, <1>6, <1>7, <1>8 DEF Grouping

LEMMA PastCollecting ==
    ASSUME NEW h, NEW m, NEW cl \in CallType, NEW t \in cl.todo, cl.step \in Syncing \ {"feed"},
           Placed(cl), Collecting(cl, h, m), Served(cl, h, m, t),
           NEW cl2, Moves(cl, cl2, PastStep(cl, t), PastTodo(cl, t))
    PROVE  Collecting(cl2, h, m)
<1> SUFFICES ASSUME cl.op = "gc" PROVE Collecting(cl2, h, m)
  BY DEF Collecting, Moves
<1>1. /\ cl2.op = cl.op /\ cl2.step = PastStep(cl, t) /\ cl2.todo = PastTodo(cl, t)
      /\ cl2.stale = cl.stale /\ cl2.raised = cl.raised /\ cl2.raced = cl.raced
      /\ cl2.failed = cl.failed /\ cl2.due = cl.due
  BY DEF Moves
<1>2. cl.step \in {"forget", "collect"} /\ cl.todo \subseteq Dependents /\ t # Main
  BY Parties DEF Placed, Syncing
<1>3. ReachedBy(cl2) = ReachedBy(cl) /\ Main \in ReachedBy(cl)
  BY <1>1 DEF ReachedBy
<1>4. \/ cl2.step = cl.step /\ cl2.todo = cl.todo \ {t}
      \/ cl.todo = {t} /\ cl.step = "forget" /\ cl2.step = "collect" /\ cl2.todo = Dependents
      \/ cl.todo = {t} /\ cl.step = "collect" /\ cl2.step = "done"
  BY <1>1, <1>2 DEF PastStep, PastTodo, Rest
<1>5. ASSUME NEW u \in Forgetting(cl2)
      PROVE  u \in Forgetting(cl) \/ (u = t /\ u \in ReachedBy(cl) /\ cl.step = "forget")
  BY <1>2, <1>3, <1>4 DEF Forgetting
<1>6. ASSUME NEW u \in CollectedBy(cl2)
      PROVE  u \in CollectedBy(cl) \/ (u = t /\ u \in ReachedBy(cl) /\ cl.step = "collect")
  <2>1. CASE cl2.step = "collect" /\ cl.step = "forget"
    <3>1. u \in ReachedBy(cl) \ Dependents
      BY <2>1, <1>3, <1>4, <1>6 DEF CollectedBy
    <3> QED
      BY <3>1, <2>1 DEF CollectedBy, ReachedBy
  <2>2. CASE ~(cl2.step = "collect" /\ cl.step = "forget")
    BY <2>2, <1>2, <1>3, <1>4 DEF CollectedBy
  <2> QED
    BY <2>1, <2>2
<1> QED
  BY <1>1, <1>5, <1>6 DEF Collecting, Served

LEMMA PastFilling ==
    ASSUME NEW h, NEW m, NEW o, NEW r, NEW cl \in CallType, NEW t \in cl.todo,
           cl.step \in Syncing \ {"feed"}, Placed(cl), Filling(cl, h, m, o, r),
           NEW cl2, Moves(cl, cl2, PastStep(cl, t), PastTodo(cl, t))
    PROVE  Filling(cl2, h, m, o, r)
<1> SUFFICES ASSUME cl.op = "fill" PROVE Filling(cl2, h, m, o, r)
  BY DEF Filling, Moves
<1>1. /\ cl2.op = cl.op /\ cl2.step = PastStep(cl, t) /\ cl2.stale = cl.stale
      /\ cl2.src = cl.src /\ cl2.size = cl.size /\ cl2.limit = cl.limit /\ cl2.after = cl.after
      /\ cl2.page = cl.page /\ cl2.want = cl.want /\ cl2.found = cl.found
      /\ cl2.clocks = cl.clocks /\ cl2.left = cl.left /\ cl2.n = cl.n
      /\ cl2.raised = cl.raised /\ cl2.mine = cl.mine /\ cl2.unfair = cl.unfair
      /\ cl2.due = cl.due /\ cl2.raced = cl.raced /\ cl2.met = cl.met
  BY DEF Moves
<1>2. cl.step = "spread" /\ cl2.step \in {"spread", "copy"}
  BY <1>1 DEF Placed, Syncing, PastStep
<1>3. /\ cl.due \in [Key -> SUBSET Target] /\ cl.size # 0 /\ cl.limit # 0
      /\ \E f \in Older : cl.src = {f}
      /\ Checking(cl) /\ FoundOld(cl, h, o, r) /\ Accounts(cl, h) /\ StillThere(cl, h, m)
      /\ ~cl.raised => \A k \in Key \ cl.raced : \A f \in cl.due[k] : Owed(cl, h, m, k, f)
  BY <1>2 DEF Filling
<1>4. FoundOld(cl2, h, o, r)
  BY <1>1, <1>2, <1>3 DEF FoundOld, Reported
<1>5. Accounts(cl2, h) /\ StillThere(cl2, h, m) /\ Checking(cl2)
  BY <1>1, <1>2, <1>3 DEF Accounts, StillThere, Checking, Reported, Paging
<1>6. \A k, f : Owed(cl, h, m, k, f) => Owed(cl2, h, m, k, f)
  BY <1>1, <1>2 DEF Owed, ToCome, Reported
<1> QED
  BY <1>1, <1>2, <1>3, <1>4, <1>5, <1>6 DEF Filling

LEMMA PastKnows ==
    ASSUME NEW h, NEW m, NEW o, NEW r, NEW cl \in CallType, NEW t \in cl.todo,
           cl.step \in Syncing \ {"feed"}, Knows(cl, h, m, o, r), Served(cl, h, m, t)
    PROVE  Past(cl, t) \in CallType /\ Knows(Past(cl, t), h, m, o, r)
<1>1. PICK cl2 : cl2 = Past(cl, t)
  OBVIOUS
<1>2. Moves(cl, cl2, PastStep(cl, t), PastTodo(cl, t))
  BY <1>1, PastMoves DEF CallType
<1>3. /\ Placed(cl) /\ Writing(cl, h, m) /\ Grouping(cl, h, m) /\ Collecting(cl, h, m)
      /\ Filling(cl, h, m, o, r) /\ Fresh(cl.id, o)
  BY DEF Knows
<1>4. Placed(cl2) /\ Writing(cl2, h, m) /\ Grouping(cl2, h, m)
  BY <1>2, <1>3, PastPlaced, PastWriting, PastGrouping
<1>5. Collecting(cl2, h, m) /\ Filling(cl2, h, m, o, r)
  BY <1>2, <1>3, PastCollecting, PastFilling
<1>6. cl2.op = cl.op /\ cl2.id = cl.id /\ cl2 \in CallType
  BY <1>2 DEF Moves
<1>7. Reading(cl2, h, m)
  BY <1>3, <1>6 DEF Reading, Placed, Syncing
<1> QED
  BY <1>1, <1>3, <1>4, <1>5, <1>6, <1>7 DEF Knows

LEMMA StepNames == AllSteps = Syncing \cup {"idle", "done", "list", "stream", "look", "stat",
    "fill", "reread", "again", "gc", "page", "check", "get", "dates", "copy"}
BY DEF AllSteps, Syncing

LEMMA Stepping == {"idle", "done", "list", "set", "remove", "stream", "open", "feed", "look",
    "stat", "fill", "reread", "again", "gc", "forget", "collect", "page", "check", "get",
    "dates", "copy", "spread"} \subseteq AllSteps
BY DEF AllSteps

LEMMA Operating ==
    {"set", "delete", "stream", "read", "group", "gc", "fill"} \subseteq Operations \cup {"none"}
BY DEF Operations

-----------------------------------------------------------------------------
(***************************************************************************)
(* Calls begin and return.                                                 *)
(***************************************************************************)
Begun(c, cl) ==
    /\ calls[c] < MaxCalls /\ calls' = [calls EXCEPT ![c] = @ + 1]
    /\ Becomes(c, held, cl) /\ UNCHANGED <<now, lastId, old, redated, faults>>

LEMMA Begins ==
    ASSUME Inv, NEW c \in Client, NEW cl2 \in CallType, Begun(c, cl2),
           Knows(cl2, held, now, old, redated)
    PROVE  Inv'
<1>1. /\ Becomes(c, held, cl2) /\ UNCHANGED <<now, lastId, old, redated, faults>>
      /\ calls[c] < MaxCalls /\ calls' = [calls EXCEPT ![c] = @ + 1]
  BY DEF Begun
<1>2. calls \in [Client -> 0..MaxCalls] /\ held \in Holding /\ faults \in 0..MaxFaults
  BY DEF Inv
<1>3. calls' \in [Client -> 0..MaxCalls]
  BY <1>1, <1>2, Sizes
<1>4. PICK h2 : h2 = held
  OBVIOUS
<1>5. \A t \in Target, k \in Key : h2[t][k] \in {held[t][k], Nothing}
  BY <1>4
<1>6. Becomes(c, h2, cl2) /\ h2 \in Holding /\ Knows(cl2, h2, now, old, redated)
  BY <1>1, <1>2, <1>4
<1> QED
  BY <1>1, <1>2, <1>3, <1>5, <1>6, Loses

LEMMA FreshZero == ASSUME NEW o, NEW last, Aged(o, last) PROVE Fresh(0, o)
BY NothingApart DEF Fresh, Aged

LEMMA StartWriting ==
    ASSUME Inv, NEW c \in Client, NEW k \in Touches[c],
           StartSet(c, k) \/ StartDelete(c, k) \/ StartStream(c, k)
    PROVE  Inv'
<1>1. k \in Key /\ Main \in Target
  BY UpkeepAssumption, Parties
<1>2. Fresh(0, old)
  BY FreshZero DEF Inv
<1>3. CASE StartSet(c, k)
  <2>1. PICK cl : cl = [Idle EXCEPT !.step = "set", !.keys = {k}, !.todo = {Main}]
    OBVIOUS
  <2>2. PICK cl2 : cl2 = [cl EXCEPT !.op = "set"]
    OBVIOUS
  <2>21. cl \in CallType
    BY <2>1, <2>2, <1>1, IdleTyped, Stepping DEF CallType
  <2>3. cl2 \in CallType
    BY <2>21, <2>1, <2>2, <1>1, Operating DEF CallType
  <2>4. /\ cl2.op = "set" /\ cl2.step = "set" /\ cl2.keys = {k} /\ cl2.todo = {Main}
        /\ cl2.stale = {} /\ cl2.id = 0 /\ ~cl2.raised
    BY <2>1, <2>2 DEF Idle
  <2>5. Placed(cl2)
    BY <2>4 DEF Placed
  <2>6. Writing(cl2, held, now)
    BY <2>4 DEF Writing, Waiting, Given, Cleared
  <2>7. Knows(cl2, held, now, old, redated)
    BY <2>4, <2>5, <2>6, <1>2 DEF Knows, Grouping, Collecting, Reading, Filling
  <2>20. Begun(c, cl2)
    BY <2>1, <2>2, <2>3, <2>7, <1>3 DEF StartSet, Begin, Goes, Begun
  <2> QED
    BY <2>20, <2>1, <2>2, <2>3, <2>7, <1>3, Begins
<1>4. CASE StartDelete(c, k)
  <2>1. PICK cl : cl = [Idle EXCEPT !.step = "remove", !.stale = {k}, !.todo = {Main}]
    OBVIOUS
  <2>2. PICK cl2 : cl2 = [cl EXCEPT !.op = "delete"]
    OBVIOUS
  <2>21. cl \in CallType
    BY <2>1, <2>2, <1>1, IdleTyped, Stepping DEF CallType
  <2>3. cl2 \in CallType
    BY <2>21, <2>1, <2>2, <1>1, Operating DEF CallType
  <2>4. /\ cl2.op = "delete" /\ cl2.step = "remove" /\ cl2.stale = {k} /\ cl2.todo = {Main}
        /\ cl2.keys = {} /\ cl2.id = 0 /\ ~cl2.raised
    BY <2>1, <2>2 DEF Idle
  <2>5. Placed(cl2)
    BY <2>4 DEF Placed
  <2>6. Writing(cl2, held, now)
    BY <2>4 DEF Writing, Waiting, Given, Cleared
  <2>7. Knows(cl2, held, now, old, redated)
    BY <2>4, <2>5, <2>6, <1>2 DEF Knows, Grouping, Collecting, Reading, Filling
  <2>20. Begun(c, cl2)
    BY <2>1, <2>2, <2>3, <2>7, <1>4 DEF StartDelete, Begin, Goes, Begun
  <2> QED
    BY <2>20, <2>1, <2>2, <2>3, <2>7, <1>4, Begins
<1>5. CASE StartStream(c, k)
  <2>1. PICK cl : cl = [Idle EXCEPT !.step = "stream", !.keys = {k}]
    OBVIOUS
  <2>2. PICK cl2 : cl2 = [cl EXCEPT !.op = "stream"]
    OBVIOUS
  <2>21. cl \in CallType
    BY <2>1, <2>2, <1>1, IdleTyped, Stepping DEF CallType
  <2>3. cl2 \in CallType
    BY <2>21, <2>1, <2>2, <1>1, Operating DEF CallType
  <2>4. /\ cl2.op = "stream" /\ cl2.step = "stream" /\ cl2.stale = {}
        /\ cl2.keys = {k} /\ cl2.id = 0 /\ ~cl2.raised
    BY <2>1, <2>2 DEF Idle
  <2>5. Placed(cl2)
    BY <2>4 DEF Placed, Syncing
  <2>6. Writing(cl2, held, now)
    BY <2>4, <1>1 DEF Writing, Waiting, Given, Cleared
  <2>7. Knows(cl2, held, now, old, redated)
    BY <2>4, <2>5, <2>6, <1>2 DEF Knows, Grouping, Collecting, Reading, Filling
  <2>20. Begun(c, cl2)
    BY <2>1, <2>2, <2>3, <2>7, <1>5 DEF StartStream, Begin, Goes, Begun
  <2> QED
    BY <2>20, <2>1, <2>2, <2>3, <2>7, <1>5, Begins
<1> QED
  BY <1>3, <1>4, <1>5

LEMMA StartGrouping ==
    ASSUME Inv, NEW c \in Client, NEW K \in SUBSET Key, StartGroup(c, K) PROVE Inv'
<1>1. Fresh(0, old)
  BY FreshZero DEF Inv
<1>2. PICK cl : cl = [Idle EXCEPT !.step = "list", !.keys = K]
  OBVIOUS
<1>3. PICK cl2 : cl2 = [cl EXCEPT !.op = "group"]
  OBVIOUS
<1>21. cl \in CallType
  BY <1>2, <1>3, IdleTyped, Stepping DEF CallType
<1>4. cl2 \in CallType
  BY <1>21, <1>2, <1>3, Operating DEF CallType
<1>5. cl2.op = "group" /\ cl2.step = "list" /\ cl2.keys = K /\ cl2.stale = {} /\ cl2.id = 0 /\ ~cl2.raised
  BY <1>2, <1>3 DEF Idle
<1>6. Placed(cl2)
  BY <1>5 DEF Placed, Syncing
<1>7. Writing(cl2, held, now)
  BY <1>5 DEF Writing, Waiting, Given, Cleared
<1>8. Knows(cl2, held, now, old, redated)
  BY <1>5, <1>6, <1>7, <1>1 DEF Knows, Grouping, Collecting, Reading, Filling
<1>20. Begun(c, cl2)
  BY <1>2, <1>3, <1>4, <1>8 DEF StartGroup, Begin, Goes, Begun
<1> QED
  BY <1>20, <1>2, <1>3, <1>4, <1>8, Begins

LEMMA StartReading ==
    ASSUME Inv, NEW c \in Client, NEW k \in Touches[c], StartRead(c, k) PROVE Inv'
<1>1. k \in Key /\ Consulted \subseteq Target
  BY UpkeepAssumption, Parties
<1>2. Fresh(0, old)
  BY FreshZero DEF Inv
<1>3. PICK due : due = {t \in Consulted : k \in LiveKeys(t)}
  OBVIOUS
<1>4. \A t \in Consulted : Alive(held[t][k], now) <=> t \in due
  BY <1>1, <1>3, JudgedKeys DEF AliveKeys
<1>5. due \in SUBSET Target /\ due \subseteq Consulted
  BY <1>1, <1>3
<1>6. PICK cl : cl = [Idle EXCEPT !.step = "look", !.keys = {k}, !.todo = Consulted, !.due = due]
  OBVIOUS
<1>7. PICK cl2 : cl2 = [cl EXCEPT !.op = "read"]
  OBVIOUS
<1>8. due \in Due
  BY <1>5 DEF Due
<1>21. cl \in CallType
  BY <1>1, <1>6, <1>7, <1>8, IdleTyped, Stepping DEF CallType
<1>9. cl2 \in CallType
  BY <1>21, <1>7, Operating DEF CallType
<1>10. /\ cl2.op = "read" /\ cl2.step = "look" /\ cl2.keys = {k} /\ cl2.todo = Consulted
       /\ cl2.id = 0 /\ ~cl2.raised /\ cl2.due = due /\ cl2.val = 0 /\ cl2.missed = {}
  BY <1>6, <1>7 DEF Idle
<1>11. Placed(cl2)
  BY <1>10 DEF Placed, Syncing
<1>12. Reading(cl2, held, now)
  BY <1>1, <1>4, <1>5, <1>10 DEF Reading, Asking
<1>13. Knows(cl2, held, now, old, redated)
  BY <1>10, <1>11, <1>12, <1>2 DEF Knows, Grouping, Collecting, Writing, Filling
<1>20. Begun(c, cl2)
  BY <1>3, <1>6, <1>7, <1>9, <1>13 DEF StartRead, Begin, Goes, Begun
<1> QED
  BY <1>20, <1>3, <1>6, <1>7, <1>9, <1>13, Begins

LEMMA StartCollecting == ASSUME Inv, NEW c \in Client, StartGc(c) PROVE Inv'
<1>2. Fresh(0, old)
  BY FreshZero DEF Inv
<1>3. PICK due : due = [t \in Target |-> ExpiredKeys(t)]
  OBVIOUS
<1>4. due \in [Target -> SUBSET Key] /\ \A t \in Target : due[t] = RunOutKeys(held, t, now)
  BY <1>3, JudgedKeys DEF RunOutKeys
<1>6. PICK cl : cl = [Idle EXCEPT !.step = "gc", !.due = due]
  OBVIOUS
<1>7. PICK cl2 : cl2 = [cl EXCEPT !.op = "gc"]
  OBVIOUS
<1>8. due \in Due
  BY <1>4 DEF Due
<1>21. cl \in CallType
  BY <1>6, <1>7, <1>8, IdleTyped, Stepping DEF CallType
<1>9. cl2 \in CallType
  BY <1>21, <1>6, <1>7, <1>8, Operating DEF CallType
<1>10. cl2.op = "gc" /\ cl2.step = "gc" /\ cl2.id = 0 /\ ~cl2.raised /\ cl2.due = due
  BY <1>6, <1>7 DEF Idle
<1>11. Placed(cl2)
  BY <1>10 DEF Placed, Syncing
<1>12. Collecting(cl2, held, now)
  BY <1>4, <1>10 DEF Collecting, Forgetting, CollectedBy
<1>13. Knows(cl2, held, now, old, redated)
  BY <1>10, <1>11, <1>12, <1>2 DEF Knows, Grouping, Reading, Writing, Filling
<1>20. Begun(c, cl2)
  BY <1>3, <1>6, <1>7, <1>9, <1>13 DEF StartGc, Begin, Goes, Begun
<1> QED
  BY <1>20, <1>3, <1>6, <1>7, <1>9, <1>13, Begins

LEMMA ReturnKeeps == ASSUME Inv, NEW c \in Client, Return(c) PROVE Inv'
<1>1. PICK h2, cl2 : h2 = held /\ cl2 = Idle
  OBVIOUS
<1>2. Becomes(c, h2, cl2) /\ UNCHANGED <<now, calls, lastId, old, redated, faults>>
  BY <1>1 DEF Return, Goes, Still
<1>3. /\ h2 \in Holding /\ cl2 \in CallType /\ faults \in 0..MaxFaults
      /\ calls \in [Client -> 0..MaxCalls] /\ Aged(old, lastId)
  BY <1>1, IdleTyped DEF Inv
<1>4. Knows(cl2, h2, now, old, redated)
  BY <1>1, <1>3, IdleKnows
<1>5. \A t \in Target, k \in Key : h2[t][k] \in {held[t][k], Nothing}
  BY <1>1
<1> QED
  BY <1>2, <1>3, <1>4, <1>5, Loses

-----------------------------------------------------------------------------
(***************************************************************************)
(* Writes and deletes.                                                     *)
(***************************************************************************)

\* A caller's step that writes keys K of a target that is no fallback.
LEMMA Gives ==
    ASSUME Inv, NEW c \in Client, NEW h2, NEW cl2 \in CallType, NEW t \in Target, NEW K,
           Becomes(c, h2, cl2), Alters(held, h2, t, K), t \notin Fallbacks,
           UNCHANGED <<now, calls, old, faults>>,
           redated \subseteq redated', redated' \subseteq 1..MaxId,
           lastId' \in 0..MaxId, lastId <= lastId',
           \A k \in Key \cap K : \A e \in old[k] :
               h2[t][k] # Nothing /\ h2[t][k].id = e.id /\ e.id \notin redated'
                   => h2[t][k].clock = e.clock,
           Knows(cl2, h2, now, old, redated')
    PROVE  Inv'
<1>1. KeepsLife(held, old, redated) /\ faults \in 0..MaxFaults /\ calls \in [Client -> 0..MaxCalls]
  BY DEF Inv
<1>2. h2 \in Holding /\ \A u \in Target, k \in Key : u # t \/ k \notin K => h2[u][k] = held[u][k]
  BY DEF Alters, Holding
<1>3. KeepsLife(h2, old, redated')
  <2> SUFFICES ASSUME NEW u \in Target, NEW k \in Key, NEW e \in old[k],
                      h2[u][k] # Nothing, h2[u][k].id = e.id, e.id \notin redated'
               PROVE  h2[u][k].clock = e.clock
    BY DEF KeepsLife
  <2>1. CASE u = t /\ k \in K
    BY <2>1
  <2>2. CASE u # t \/ k \notin K
    <3>1. h2[u][k] = held[u][k] /\ e.id \notin redated
      BY <2>2, <1>2
    <3> QED
      BY <3>1, <1>1 DEF KeepsLife
  <2> QED
    BY <2>1, <2>2
<1>4. \A f \in Fallbacks, k \in Key : h2[f][k] \in {held[f][k], Nothing}
  BY <1>2, Parties
<1> QED
  BY <1>1, <1>2, <1>3, <1>4, Advances

LEMMA MaxOfTwo ==
    ASSUME NEW i \in Nat, NEW j \in Nat
    PROVE  Max({i, j}) \in {i, j} /\ Max({i, j}) >= i /\ Max({i, j}) >= j
<1>1. \E x \in {i, j} : \A y \in {i, j} : x >= y
  BY SMT
<1> QED
  BY <1>1 DEF Max

\* What is written now is alive.
LEMMA NewIsAlive ==
    ASSUME NEW m \in 0..MaxTime, NEW id \in 1..MaxId
    PROVE  Alive([id |-> id, clock |-> m], m) /\ [id |-> id, clock |-> m] # Nothing
BY Sizes, NothingApart DEF Alive, RunOut

LEMMA SetKnows ==
    ASSUME NEW h, NEW m \in 0..MaxTime, NEW o, NEW r, NEW cl \in CallType, Knows(cl, h, m, o, r),
           cl.step = "set", NEW t \in cl.todo, NEW id \in 1..MaxId, Fresh(id, o),
           t # Main => id = cl.id,
           NEW h2, Alters(h, h2, t, cl.keys),
           \A k \in cl.keys : h2[t][k] = [id |-> id, clock |-> m],
           NEW cl1, cl1 = [cl EXCEPT !.id = id]
    PROVE  cl1 \in CallType /\ Knows(cl1, h2, m, o, r) /\ Served(cl1, h2, m, t)
<1>1. cl1 \in CallType
  BY DEF CallType
<1>2. /\ cl1.op = cl.op /\ cl1.step = "set" /\ cl1.todo = cl.todo /\ cl1.id = id
      /\ cl1.keys = cl.keys /\ cl1.stale = cl.stale /\ cl1.raised = cl.raised
      /\ cl1.raced = cl.raced /\ cl1.failed = cl.failed
  BY DEF CallType
<1>3. Placed(cl) /\ Writing(cl, h, m) /\ Grouping(cl, h, m)
  BY DEF Knows
<1>4. Placed(cl1)
  BY <1>2, <1>3 DEF Placed
<1>5. cl.op \in {"set", "group"} /\ cl.keys \subseteq Key /\ cl.stale \subseteq Key
  BY <1>3 DEF Placed, CallType, Operations
<1>6. \A u \in Target, k \in Key : u # t \/ k \notin cl.keys => h2[u][k] = h[u][k]
  BY DEF Alters
<1>7. \A k \in cl.keys : Alive(h2[t][k], m) /\ h2[t][k] # Nothing /\ h2[t][k].id = id
  BY NewIsAlive
<1>8. t = Main \/ (Main \notin cl.todo /\ ~Waiting(cl))
  BY <1>3, Parties DEF Placed, Waiting
<1>9. Writing(cl1, h2, m)
  <2>1. Cleared(cl1) = {}
    BY <1>2 DEF Cleared
  <2>2. CASE t = Main
    <3>1. Given(cl1) = {} /\ Waiting(cl1)
      BY <2>2, <1>2 DEF Given, Waiting
    <3> QED
      BY <2>1, <3>1, <1>2, <1>3, <1>5 DEF Writing
  <2>3. CASE t # Main
    <3>1. ~Waiting(cl1) /\ Given(cl1) = Given(cl) /\ Given(cl) = ReachedBy(cl) \ cl.todo
      BY <2>3, <1>2, <1>8 DEF Given, Waiting, ReachedBy
    <3>2. Given(cl) \subseteq Target /\ t \notin Given(cl)
      BY <3>1, Parties DEF ReachedBy
    <3>3. \A u \in Given(cl) : \A k \in cl.keys : h2[u][k] = h[u][k]
      BY <3>2, <1>5, <1>6
    <3> QED
      BY <2>1, <2>3, <3>1, <3>3, <1>2, <1>3, <1>5, <1>8 DEF Writing
  <2> QED
    BY <2>2, <2>3
<1>10. AliveKeys(h2, Main, m) \subseteq AliveKeys(h, Main, m) \cup cl.keys
  BY <1>6, Parties DEF AliveKeys
<1>11. t # Main => AliveKeys(h2, Main, m) = AliveKeys(h, Main, m)
  BY <1>6, Parties DEF AliveKeys
<1>12. t = Main => cl.keys \subseteq AliveKeys(h2, Main, m)
  BY <1>5, <1>7 DEF AliveKeys
<1>13. Grouping(cl1, h2, m)
  BY <1>2, <1>3, <1>8, <1>10, <1>11, <1>12 DEF Grouping, Waiting
<1>14. Served(cl1, h2, m, t)
  BY <1>2, <1>7, <1>12 DEF Served
<1> QED
  BY <1>1, <1>2, <1>4, <1>5, <1>9, <1>13, <1>14
     DEF Knows, Collecting, Reading, Filling

LEMMA SetKeeps == ASSUME Inv, NEW c \in Client, NEW t \in Target, Set(c, t) PROVE Inv'
<1>1. PICK h, m, o, r, cl, id, h2, last :
        /\ h = held /\ m = now /\ o = old /\ r = redated /\ cl = call[c] /\ last = lastId
        /\ id = IF t = Main THEN lastId + 1 ELSE call[c].id
        /\ h2 = Put(t, cl.keys, Of(id), Of(m))
  OBVIOUS
<1>2. PICK cl1 : cl1 = [cl EXCEPT !.id = id]
  OBVIOUS
<1>3. /\ cl.step = "set" /\ t \in cl.todo /\ id <= MaxId
      /\ Becomes(c, h2, Past(cl1, t)) /\ lastId' = Max({id, last})
      /\ UNCHANGED <<now, calls, old, redated, faults>>
  BY <1>1, <1>2, FirstIsIn DEF Set, At
<1>4. /\ h \in Holding /\ m \in 0..MaxTime /\ cl \in CallType /\ Knows(cl, h, m, o, r)
      /\ last \in 0..MaxId /\ Aged(o, last) /\ r \subseteq 1..MaxId
  BY <1>1 DEF Inv
<1>5. id \in 1..MaxId /\ Fresh(id, o) /\ (t # Main => id = cl.id)
  <2>1. CASE t = Main
    <3>1. \A k \in Key : \A e \in o[k] : e.id \in Nat /\ e.id <= last
      BY <1>4, NothingApart, Sizes DEF Aged
    <3>2. id = last + 1
      BY <2>1, <1>1
    <3> QED
      BY <2>1, <3>1, <3>2, <1>3, <1>4, Sizes DEF Fresh
  <2>2. CASE t # Main
    <3>1. id = cl.id
      BY <2>2, <1>1
    <3>2. cl.id # 0 /\ Fresh(cl.id, o)
      <4>1. cl.op \in {"set", "group"} /\ Main \notin cl.todo
        BY <2>2, <1>3, <1>4, Parties DEF Knows, Placed, CallType, Operations
      <4> QED
        BY <4>1, <1>3, <1>4 DEF Knows, Writing, Waiting
    <3> QED
      BY <3>1, <3>2, <1>4, Sizes DEF CallType
  <2> QED
    BY <2>1, <2>2
<1>6. cl.keys \in SUBSET Key
  BY <1>4 DEF CallType
<1>7. \A k \in cl.keys : Of(id)[k] = id /\ Of(m)[k] = m
  BY <1>6 DEF Of
<1>8. Alters(h, h2, t, cl.keys) /\ \A k \in cl.keys : h2[t][k] = [id |-> id, clock |-> m]
  <2>1. PICK K, ids, clocks : K = cl.keys /\ ids = Of(id) /\ clocks = Of(m)
    OBVIOUS
  <2>2. Storable(K, ids, clocks)
    BY <2>1, <1>4, <1>5, <1>6, <1>7 DEF Storable
  <2>3. Stores(held, h2, t, K, ids, clocks)
    BY <2>1, <2>2, <1>1, <1>4, PutThere
  <2>4. h = held /\ \A k \in K : ids[k] = id /\ clocks[k] = m
    BY <2>1, <1>1, <1>7
  <2> QED
    BY <2>1, <2>3, <2>4 DEF Stores
<1>9. cl1 \in CallType /\ Knows(cl1, h2, m, o, r) /\ Served(cl1, h2, m, t)
  BY <1>2, <1>3, <1>4, <1>5, <1>8, SetKnows
<1>10. t \in cl1.todo /\ cl1.step \in Syncing \ {"feed"}
  BY <1>2, <1>3, <1>4 DEF CallType, Syncing
<1>11. PICK cl2 : cl2 = Past(cl1, t)
  OBVIOUS
<1>12. cl2 \in CallType /\ Knows(cl2, h2, m, o, r)
  BY <1>9, <1>10, <1>11, PastKnows
<1>13. lastId' \in 0..MaxId /\ lastId <= lastId'
  BY <1>1, <1>3, <1>4, <1>5, MaxOfTwo, Sizes
<1>14. \A k \in Key \cap cl.keys : \A e \in old[k] : h2[t][k].id # e.id
  BY <1>1, <1>5, <1>8 DEF Fresh
<1>15. t \notin Fallbacks
  BY <1>3, <1>4, Parties DEF Knows, Placed
<1>16. /\ Becomes(c, h2, cl2) /\ Alters(held, h2, t, cl.keys) /\ Knows(cl2, h2, now, old, redated')
       /\ redated \subseteq redated' /\ redated' \subseteq 1..MaxId
  BY <1>1, <1>3, <1>4, <1>8, <1>11, <1>12
<1> QED
  BY <1>3, <1>12, <1>13, <1>14, <1>15, <1>16, Gives

\* One value under one clock, for keys K.
StoresOne(h, h2, t, K, i, m) ==
    Alters(h, h2, t, K) /\ \A k \in K : h2[t][k] = [id |-> i, clock |-> m]

LEMMA PutOne ==
    ASSUME held \in Holding, NEW t \in Target, NEW K \in SUBSET Key, NEW i \in 1..MaxId,
           NEW m \in 0..MaxTime
    PROVE  StoresOne(held, Put(t, K, Of(i), Of(m)), t, K, i, m)
<1>1. PICK ids, clocks : ids = Of(i) /\ clocks = Of(m)
  OBVIOUS
<1>2. \A k \in K : ids[k] = i /\ clocks[k] = m
  BY <1>1 DEF Of
<1>3. Storable(K, ids, clocks)
  BY <1>2 DEF Storable
<1>4. Stores(held, Put(t, K, ids, clocks), t, K, ids, clocks)
  BY <1>3, PutThere
<1> QED
  BY <1>1, <1>2, <1>4 DEF Stores, StoresOne

\* What a removal and a lookup leave of keys K.
Drops(h, h2, t, K) == Alters(h, h2, t, K) /\ \A k \in K : h2[t][k] = Nothing
Looks(h, m, h2, t, K) ==
    Alters(h, h2, t, K) /\ \A k \in K : h2[t][k] = IF RunOut(h[t][k], m) THEN Nothing ELSE h[t][k]

LEMMA WithoutDrops ==
    ASSUME held \in Holding, NEW t \in Target, NEW K \in SUBSET Key
    PROVE  Drops(held, Without(t, K), t, K)
BY WithoutThem DEF Drops

LEMMA LookedUpLooks ==
    ASSUME held \in Holding, NEW t \in Target, NEW K \in SUBSET Key
    PROVE  Looks(held, now, LookedUp(t, K), t, K)
BY LookedUpThere DEF Looks

\* A removal takes, a lookup changes nothing alive.
Removed(h, m, h2, t, K) ==
    /\ h2 \in Holding
    /\ \A u \in Target, k \in Key : h2[u][k] \in {h[u][k], Nothing}
    /\ \A u \in Target, k \in Key : u # t \/ k \notin K => h2[u][k] = h[u][k]
    /\ \A k \in K : h2[t][k] = Nothing
    /\ AliveKeys(h2, t, m) = AliveKeys(h, t, m) \ K
    /\ RunOutKeys(h2, t, m) = RunOutKeys(h, t, m) \ K
    /\ \A u \in Target : u # t => /\ AliveKeys(h2, u, m) = AliveKeys(h, u, m)
                                  /\ RunOutKeys(h2, u, m) = RunOutKeys(h, u, m)

Seen(h, m, h2, t, K) ==
    /\ h2 \in Holding
    /\ \A u \in Target, k \in Key :
         /\ h2[u][k] \in {h[u][k], Nothing}
         /\ Alive(h2[u][k], m) <=> Alive(h[u][k], m)
         /\ Alive(h[u][k], m) => h2[u][k] = h[u][k]
         /\ u # t => h2[u][k] = h[u][k]
    /\ \A k \in Key \cap K : ~Alive(h[t][k], m) => h2[t][k] = Nothing
    /\ \A u \in Target : AliveKeys(h2, u, m) = AliveKeys(h, u, m)

LEMMA Removal ==
    ASSUME NEW h, NEW m, NEW h2, NEW t \in Target, NEW K, Drops(h, h2, t, K)
    PROVE  Removed(h, m, h2, t, K)
<1>1. /\ \A u \in Target, k \in Key : u # t \/ k \notin K => h2[u][k] = h[u][k]
      /\ \A k \in K : h2[t][k] = Nothing
      /\ h2 \in Holding
  BY DEF Drops, Alters, Holding
<1>2. \A k \in Key : k \in K => ~Alive(h2[t][k], m) /\ ~RunOut(h2[t][k], m)
  BY <1>1 DEF Alive, RunOut
<1>3. \A u \in Target, k \in Key : h2[u][k] \in {h[u][k], Nothing}
  BY <1>1
<1>4. AliveKeys(h2, t, m) = AliveKeys(h, t, m) \ K /\ RunOutKeys(h2, t, m) = RunOutKeys(h, t, m) \ K
  BY <1>1, <1>2 DEF AliveKeys, RunOutKeys
<1>5. \A u \in Target : u # t => /\ AliveKeys(h2, u, m) = AliveKeys(h, u, m)
                                 /\ RunOutKeys(h2, u, m) = RunOutKeys(h, u, m)
  BY <1>1 DEF AliveKeys, RunOutKeys
<1> QED
  BY <1>1, <1>3, <1>4, <1>5 DEF Removed

LEMMA Lookup ==
    ASSUME NEW h, NEW m, NEW h2, NEW t \in Target, NEW K, Looks(h, m, h2, t, K)
    PROVE  Seen(h, m, h2, t, K)
<1>1. /\ \A u \in Target, k \in Key : u # t \/ k \notin K => h2[u][k] = h[u][k]
      /\ \A k \in K : h2[t][k] = IF RunOut(h[t][k], m) THEN Nothing ELSE h[t][k]
      /\ h2 \in Holding
  BY DEF Looks, Alters, Holding
<1>2. \A u \in Target, k \in Key :
         /\ h2[u][k] \in {h[u][k], Nothing}
         /\ Alive(h2[u][k], m) <=> Alive(h[u][k], m)
         /\ Alive(h[u][k], m) => h2[u][k] = h[u][k]
         /\ u # t => h2[u][k] = h[u][k]
  BY <1>1 DEF Alive, RunOut
<1>3. \A k \in Key \cap K : ~Alive(h[t][k], m) => h2[t][k] = Nothing
  BY <1>1 DEF Alive, RunOut
<1>4. \A u \in Target : AliveKeys(h2, u, m) = AliveKeys(h, u, m)
  BY <1>2 DEF AliveKeys
<1> QED
  BY <1>1, <1>2, <1>3, <1>4 DEF Seen

-----------------------------------------------------------------------------
LEMMA RemoveKnows ==
    ASSUME NEW h, NEW m, NEW o, NEW r, NEW cl \in CallType, Knows(cl, h, m, o, r),
           cl.step \in {"remove", "forget"}, NEW t \in cl.todo, NEW h2,
           Drops(h, h2, t, cl.stale)
    PROVE  Knows(cl, h2, m, o, r) /\ Served(cl, h2, m, t)
<1>1. /\ Placed(cl) /\ Writing(cl, h, m) /\ Grouping(cl, h, m) /\ Collecting(cl, h, m)
      /\ Fresh(cl.id, o)
  BY DEF Knows
<1>2. cl.op \in {"delete", "group", "gc"} /\ cl.stale \subseteq Key /\ t \in Target
  BY <1>1 DEF Placed, CallType, Operations
<1>20. Removed(h, m, h2, t, cl.stale)
  BY <1>2, Removal
<1>3. /\ \A u \in Target, k \in Key : h2[u][k] \in {h[u][k], Nothing}
      /\ \A u \in Target, k \in Key : u # t \/ k \notin cl.stale => h2[u][k] = h[u][k]
      /\ \A k \in cl.stale : h2[t][k] = Nothing
      /\ AliveKeys(h2, t, m) = AliveKeys(h, t, m) \ cl.stale
      /\ RunOutKeys(h2, t, m) = RunOutKeys(h, t, m) \ cl.stale
      /\ \A u \in Target : u # t => /\ AliveKeys(h2, u, m) = AliveKeys(h, u, m)
                                    /\ RunOutKeys(h2, u, m) = RunOutKeys(h, u, m)
  BY <1>20 DEF Removed
<1>4. Given(cl) \subseteq Target /\ Cleared(cl) \subseteq Target /\ Forgetting(cl) \subseteq Target
  BY Parties DEF Given, Cleared, ReachedBy, Forgetting
<1>5. ASSUME cl.op \in {"delete", "group"} PROVE Writing(cl, h2, m)
  <2>1. cl.keys \cap cl.stale = {} /\ cl.keys \subseteq Key /\ cl.step = "remove"
    BY <1>1, <1>5 DEF Writing, CallType, Placed
  <2>2. \A u \in Given(cl) : \A k \in cl.keys : h2[u][k] = h[u][k]
    BY <2>1, <1>3, <1>4
  <2>3. \A u \in Cleared(cl) : \A k \in cl.stale : h[u][k] = Nothing => h2[u][k] = Nothing
    BY <1>2, <1>3, <1>4
  <2> QED
    BY <2>1, <2>2, <2>3, <1>1, <1>5 DEF Writing
<1>6. ASSUME cl.op = "group" PROVE Grouping(cl, h2, m)
  <2>1. cl.keys \cap cl.stale = {}
    BY <1>1, <1>6 DEF Writing
  <2>2. AliveKeys(h2, Main, m) \in {AliveKeys(h, Main, m), AliveKeys(h, Main, m) \ cl.stale}
    BY <1>3, Parties
  <2>3. PICK A, A2 : A = AliveKeys(h, Main, m) /\ A2 = AliveKeys(h2, Main, m)
    OBVIOUS
  <2>4. SUFFICES ASSUME cl.raced = {}, ~cl.raised, cl.step # "list"
                 PROVE  /\ A2 \subseteq cl.keys \cup cl.stale
                        /\ ~Waiting(cl) => cl.keys \subseteq A2
                        /\ cl.step = "done" \/ (cl.step = "remove" /\ Main \notin cl.todo)
                             => A2 \cap cl.stale = {}
    BY <2>3 DEF Grouping
  <2>5. /\ A \subseteq cl.keys \cup cl.stale
        /\ ~Waiting(cl) => cl.keys \subseteq A
        /\ cl.step = "done" \/ (cl.step = "remove" /\ Main \notin cl.todo) => A \cap cl.stale = {}
    BY <2>3, <2>4, <1>1, <1>6 DEF Grouping
  <2> QED
    BY <2>1, <2>2, <2>3, <2>5
<1>7. ASSUME cl.op = "gc" PROVE Collecting(cl, h2, m)
  <2>1. cl.step = "forget" /\ t # Main
    BY <1>1, <1>7, Parties DEF Placed
  <2>2. CollectedBy(cl) = {Main} /\ RunOutKeys(h2, Main, m) = RunOutKeys(h, Main, m)
    BY <2>1, <1>3, Parties DEF CollectedBy
  <2>3. \A u \in Forgetting(cl) : \A k \in cl.stale : h[u][k] = Nothing => h2[u][k] = Nothing
    BY <1>2, <1>3, <1>4
  <2>4. \A u \in Target : RunOutKeys(h2, u, m) \subseteq RunOutKeys(h, u, m)
    BY <1>3
  <2> QED
    BY <2>2, <2>3, <2>4, <1>1, <1>7 DEF Collecting
<1>8. Served(cl, h2, m, t)
  BY <1>2, <1>3 DEF Served
<1> QED
  BY <1>1, <1>2, <1>5, <1>6, <1>7, <1>8 DEF Knows, Writing, Grouping, Collecting, Reading, Filling

LEMMA RemoveKeeps == ASSUME Inv, NEW c \in Client, NEW t \in Target, Remove(c, t) PROVE Inv'
<1>1. PICK h, m, o, r, cl, h2 :
        /\ h = held /\ m = now /\ o = old /\ r = redated /\ cl = call[c]
        /\ h2 = Without(t, cl.stale)
  OBVIOUS
<1>2. /\ cl.step \in {"remove", "forget"} /\ t \in cl.todo
      /\ Becomes(c, h2, Past(cl, t)) /\ Still
  BY <1>1, FirstIsIn DEF Remove
<1>3. /\ h \in Holding /\ cl \in CallType /\ Knows(cl, h, m, o, r)
      /\ faults \in 0..MaxFaults /\ calls \in [Client -> 0..MaxCalls]
  BY <1>1 DEF Inv
<1>4. cl.stale \in SUBSET Key
  BY <1>3 DEF CallType
<1>5. Drops(h, h2, t, cl.stale)
  BY <1>1, <1>3, <1>4, WithoutDrops
<1>6. h2 \in Holding /\ \A u \in Target, k \in Key : h2[u][k] \in {h[u][k], Nothing}
  BY <1>5, Removal DEF Removed
<1>7. Knows(cl, h2, m, o, r) /\ Served(cl, h2, m, t)
  BY <1>2, <1>3, <1>5, RemoveKnows
<1>8. PICK cl2 : cl2 = Past(cl, t)
  OBVIOUS
<1>9. cl2 \in CallType /\ Knows(cl2, h2, m, o, r)
  BY <1>2, <1>3, <1>7, <1>8, PastKnows DEF Syncing
<1>10. Becomes(c, h2, cl2) /\ Knows(cl2, h2, now, old, redated)
  BY <1>1, <1>2, <1>8, <1>9
<1>11. \A u \in Target, k \in Key : h2[u][k] \in {held[u][k], Nothing}
  BY <1>1, <1>6
<1> QED
  BY <1>2, <1>3, <1>6, <1>9, <1>10, <1>11, Loses DEF Still
-----------------------------------------------------------------------------
(***************************************************************************)
(* Lookups: what a call knows outlives a lookup of its own.                *)
(***************************************************************************)
LEMMA SeenReading ==
    ASSUME NEW h, NEW m, NEW h2, NEW u \in Target, NEW K, Seen(h, m, h2, u, K),
           NEW cl \in CallType, Reading(cl, h, m)
    PROVE  Reading(cl, h2, m)
<1> SUFFICES ASSUME cl.op = "read" PROVE Reading(cl, h2, m)
  BY DEF Reading
<1>1. \A t \in Target, k \in Key :
        /\ Alive(h2[t][k], m) <=> Alive(h[t][k], m)
        /\ Alive(h[t][k], m) => h2[t][k] = h[t][k]
  BY DEF Seen
<1>2. PICK k \in Key :
        /\ cl.keys = {k} /\ cl.due \subseteq Consulted /\ Asking(cl, h, m, k)
        /\ cl.step \in {"stat", "fill", "reread", "again"} => \E s \in Target : Sourced(cl, h, m, k, s)
        /\ cl.step = "done" /\ cl.raced = {} /\ ~cl.raised => (cl.val # 0 <=> cl.due # {})
  BY DEF Reading
<1>3. Asking(cl, h2, m, k)
  BY <1>1, <1>2, Parties DEF Asking
<1>4. ASSUME NEW s \in Target, Sourced(cl, h, m, k, s) PROVE Sourced(cl, h2, m, k, s)
  <2>1. Fillable(s, Target) \subseteq Target
    BY DEF Fillable
  <2>2. cl.raced = {} => Alive(h2[s][k], m) /\ h2[s][k] = h[s][k]
    BY <1>1, <1>4 DEF Sourced
  <2>3. cl.raced = {} /\ cl.step = "reread" => h2[cl.filled][k] = h2[s][k]
    BY <1>1, <1>4, <2>1, <2>2 DEF Sourced
  <2> QED
    BY <1>4, <2>2, <2>3 DEF Sourced
<1> QED
  BY <1>2, <1>3, <1>4 DEF Reading

LEMMA SeenFilling ==
    ASSUME NEW h, NEW m, NEW o, NEW r, NEW h2, NEW u \in Target, NEW K, Seen(h, m, h2, u, K),
           NEW cl \in CallType, Filling(cl, h, m, o, r)
    PROVE  Filling(cl, h2, m, o, r)
<1> SUFFICES ASSUME cl.op = "fill" PROVE Filling(cl, h2, m, o, r)
  BY DEF Filling
<1>1. \A t \in Target, k \in Key :
        /\ h2[t][k] \in {h[t][k], Nothing}
        /\ Alive(h2[t][k], m) <=> Alive(h[t][k], m)
        /\ Alive(h[t][k], m) => h2[t][k] = h[t][k]
  BY DEF Seen
<1>2. /\ cl.due \in [Key -> SUBSET Target] /\ cl.size # 0 /\ cl.limit # 0
      /\ cl.step # "done" => \E f \in Older : cl.src = {f}
      /\ Checking(cl) /\ FoundOld(cl, h, o, r) /\ Accounts(cl, h) /\ StillThere(cl, h, m)
      /\ ~cl.raised => \A k \in Key \ cl.raced : \A f \in cl.due[k] : Owed(cl, h, m, k, f)
  BY DEF Filling
<1>3. cl.src \subseteq Target /\ cl.page \subseteq Key /\ DOMAIN cl.found \subseteq Key
  BY DEF CallType, Partial
<1>4. FoundOld(cl, h2, o, r)
  <2> SUFFICES ASSUME NEW f \in cl.src, cl.step = "dates", NEW k \in DOMAIN cl.found, NEW e \in o[k],
                      h[f][k] \in {e, Nothing}
               PROVE  h2[f][k] \in {e, Nothing}
    BY <1>2 DEF FoundOld
  <2> QED
    BY <1>1, <1>3
<1>5. Accounts(cl, h2)
  <2>1. \A k \in Key : h[Main][k] = Nothing => h2[Main][k] = Nothing
    BY <1>1, Parties
  <2> QED
    BY <2>1, <1>2, <1>3 DEF Accounts
<1>6. StillThere(cl, h2, m)
  BY <1>1, <1>2, <1>3 DEF StillThere
<1>7. ASSUME NEW k \in Key, NEW f, Owed(cl, h, m, k, f) PROVE Owed(cl, h2, m, k, f)
  <2>1. f = Main => Alive(h2[Main][k], m)
    BY <1>1, <1>7, Parties DEF Owed
  <2>2. f # Main => f \in Older /\ f \in Target /\ Alive(h2[f][k], m) /\ h2[f][k] = h[f][k]
    BY <1>1, <1>7, Parties DEF Owed
  <2>3. f # Main /\ h[Main][k] = h[f][k] => h2[Main][k] = h2[f][k]
    BY <2>2, <1>1, Parties
  <2>4. \A g \in Older : ~Alive(h[g][k], m) => ~Alive(h2[g][k], m)
    BY <1>1, Parties
  <2>5. ~Alive(h[Main][k], m) => ~Alive(h2[Main][k], m)
    BY <1>1, Parties
  <2> QED
    BY <2>1, <2>2, <2>3, <2>4, <2>5, <1>7 DEF Owed
<1> QED
  BY <1>2, <1>4, <1>5, <1>6, <1>7 DEF Filling

LEMMA SeenKnows ==
    ASSUME NEW h, NEW m, NEW o, NEW r, NEW h2, NEW u \in Target, NEW K, Seen(h, m, h2, u, K),
           NEW cl \in CallType, Knows(cl, h, m, o, r), cl.op \in {"read", "fill"}
    PROVE  Knows(cl, h2, m, o, r)
<1>1. Placed(cl) /\ Fresh(cl.id, o) /\ Reading(cl, h, m) /\ Filling(cl, h, m, o, r)
  BY DEF Knows
<1>2. Reading(cl, h2, m) /\ Filling(cl, h2, m, o, r)
  BY <1>1, SeenReading, SeenFilling
<1> QED
  BY <1>1, <1>2 DEF Knows, Writing, Grouping, Collecting
\* What reading a call's only key answers.
Replies(h, m, t, k, ans) ==
    /\ Alive(h[t][k], m) => ans = h[t][k].id /\ ans \in 1..MaxId
    /\ ~Alive(h[t][k], m) => ans = 0

LEMMA Answers ==
    ASSUME held \in Holding, NEW c \in Client, NEW t \in Target, NEW k \in Key, call[c].keys = {k}
    PROVE  TheKey(c) = k /\ Replies(held, now, t, k, Answer(c, t))
<1>1. TheKey(c) = k
  BY DEF TheKey
<1>2. held[t][k] # Nothing => held[t][k].id \in 1..MaxId
  BY NothingApart DEF Holding, Entries
<1> QED
  BY <1>1, <1>2, Judged DEF Answer, Replies, Alive

\* The same answer after the lookup, which changes nothing alive.
LEMMA SeenReplies ==
    ASSUME NEW h, NEW m, NEW h2, NEW t \in Target, NEW K, Seen(h, m, h2, t, K),
           NEW k \in Key, NEW u \in Target, NEW ans, Replies(h, m, u, k, ans)
    PROVE  Replies(h2, m, u, k, ans)
BY DEF Seen, Replies

LEMMA OnlyReads ==
    ASSUME NEW h, NEW m, NEW o, NEW r, NEW cl \in CallType, cl.op = "read", Placed(cl),
           Fresh(cl.id, o), Reading(cl, h, m)
    PROVE  Knows(cl, h, m, o, r)
BY DEF Knows, Writing, Grouping, Collecting, Filling

LEMMA FillableGrows ==
    ASSUME NEW s \in Target, NEW S \in SUBSET Target
    PROVE  Fillable(s, S) \subseteq Fillable(s, Target) /\ Fillable(s, S) \in SUBSET Target
BY DEF Fillable

\* The call after it looked at target t.
Looked(cl, cl2, t, ans, into) ==
    cl2 = IF ans # 0
          THEN [cl EXCEPT !.src = {t}, !.val = ans, !.todo = into,
                          !.step = IF into = {} THEN "done" ELSE "stat"]
          ELSE [cl EXCEPT !.missed = @ \cup {t}, !.todo = @ \ {t},
                          !.step = IF cl.todo = {t} THEN "done" ELSE "look"]

LEMMA LookKnows ==
    ASSUME NEW h \in Holding, NEW m, NEW o, NEW r, NEW cl \in CallType, Knows(cl, h, m, o, r),
           cl.step = "look", NEW t \in cl.todo, NEW ans,
           \A k \in Key : cl.keys = {k} => Replies(h, m, t, k, ans),
           NEW into, into = Fillable(t, cl.missed), NEW cl2, Looked(cl, cl2, t, ans, into)
    PROVE  cl2 \in CallType /\ Knows(cl2, h, m, o, r)
<1>1. Placed(cl) /\ Fresh(cl.id, o) /\ Reading(cl, h, m)
  BY DEF Knows
<1>2. cl.op = "read" /\ ~cl.raised
  BY <1>1 DEF Placed, CallType, Operations
<1>3. PICK k \in Key :
        /\ cl.keys = {k} /\ cl.due \subseteq Consulted /\ Asking(cl, h, m, k)
  BY <1>1, <1>2 DEF Reading
<1>4. Replies(h, m, t, k, ans) /\ t \in Target /\ cl.missed \in SUBSET Target
  BY <1>3 DEF CallType
<1>5. into \subseteq Fillable(t, Target) /\ into \in SUBSET Target
  BY <1>4, FillableGrows
<1>6. /\ cl.val = 0 /\ cl.missed \cup cl.todo = Consulted
      /\ cl.raced = {} =>
           /\ cl.missed \cap cl.due = {}
           /\ \A u \in Consulted : Alive(h[u][k], m) <=> u \in cl.due
  BY <1>3 DEF Asking
<1>7. CASE ans # 0
  <2>0. PICK st : st = IF into = {} THEN "done" ELSE "stat"
    OBVIOUS
  <2>1. cl2 = [cl EXCEPT !.src = {t}, !.val = ans, !.todo = into, !.step = st]
    BY <1>7, <2>0 DEF Looked
  <2>2. Alive(h[t][k], m) /\ ans = h[t][k].id /\ ans \in 1..MaxId
    BY <1>7, <1>4 DEF Replies
  <2>3. ans \in 0..MaxId /\ st \in AllSteps /\ st \in {"done", "stat"}
    BY <2>0, <2>2, Sizes, Stepping
  <2>4. cl2 \in CallType
    <3>1. PICK src : src = {t}
      OBVIOUS
    <3>2. src \in SUBSET Target
      BY <3>1, <1>4
    <3>3. cl2 = [cl EXCEPT !.src = src, !.val = ans, !.todo = into, !.step = st]
      BY <2>1, <3>1
    <3> QED
      BY <3>2, <3>3, <2>3, <1>5 DEF CallType
  <2>5. /\ cl2.op = "read" /\ cl2.step = st /\ cl2.src = {t} /\ cl2.val = ans /\ cl2.todo = into
        /\ cl2.keys = {k} /\ cl2.due = cl.due /\ cl2.raced = cl.raced /\ cl2.raised = cl.raised
        /\ cl2.id = cl.id
    BY <2>1, <1>2, <1>3 DEF CallType
  <2>6. Placed(cl2)
    BY <2>3, <2>5, <1>2 DEF Placed, Syncing
  <2>7. cl.raced = {} => cl.due # {}
    BY <1>6, <2>2
  <2>8. st = "stat" => Sourced(cl2, h, m, k, t)
    BY <2>2, <2>5, <2>7, <1>5, <1>7 DEF Sourced
  <2>9. Asking(cl2, h, m, k)
    BY <2>3, <2>5 DEF Asking
  <2>10. Reading(cl2, h, m)
    BY <2>3, <2>5, <2>7, <2>8, <2>9, <1>3, <1>4, <1>7 DEF Reading
  <2> QED
    BY <2>4, <2>5, <2>6, <2>10, <1>1, OnlyReads
<1>8. CASE ans = 0
  <2>0. PICK st : st = IF cl.todo = {t} THEN "done" ELSE "look"
    OBVIOUS
  <2>1. cl2 = [cl EXCEPT !.missed = @ \cup {t}, !.todo = @ \ {t}, !.step = st]
    BY <1>8, <2>0 DEF Looked
  <2>2. ~Alive(h[t][k], m)
    BY <1>8, <1>4 DEF Replies
  <2>3. st \in AllSteps /\ st \in {"done", "look"}
    BY <2>0, Stepping
  <2>4. cl2 \in CallType
    BY <2>1, <2>3, <1>4 DEF CallType
  <2>5. /\ cl2.op = "read" /\ cl2.step = st /\ cl2.missed = cl.missed \cup {t}
        /\ cl2.todo = cl.todo \ {t} /\ cl2.val = cl.val
        /\ cl2.keys = {k} /\ cl2.due = cl.due /\ cl2.raced = cl.raced /\ cl2.raised = cl.raised
        /\ cl2.id = cl.id
    BY <2>1, <1>2, <1>3 DEF CallType
  <2>6. Placed(cl2)
    BY <2>3, <2>5, <1>2 DEF Placed, Syncing
  <2>7. cl.raced = {} => t \notin cl.due
    BY <1>6, <2>2
  <2>8. Asking(cl2, h, m, k)
    BY <2>5, <2>7, <1>6 DEF Asking
  <2>9. st = "done" /\ cl.raced = {} => cl.due = {}
    BY <2>0, <2>7, <1>3, <1>6
  <2>10. Reading(cl2, h, m)
    BY <2>3, <2>5, <2>8, <2>9, <1>3, <1>6 DEF Reading
  <2> QED
    BY <2>4, <2>5, <2>6, <2>10, <1>1, OnlyReads
<1> QED
  BY <1>7, <1>8
LEMMA LookupKnown ==
    ASSUME Inv, NEW c \in Client, NEW t \in Target, NEW K \in SUBSET Key,
           call[c].op \in {"read", "fill"}, NEW h2, h2 = LookedUp(t, K)
    PROVE  /\ h2 \in Holding /\ Seen(held, now, h2, t, K)
           /\ \A u \in Target, k \in Key : h2[u][k] \in {held[u][k], Nothing}
           /\ call[c] \in CallType /\ Knows(call[c], h2, now, old, redated)
<1>1. PICK h, m, o, r, cl : h = held /\ m = now /\ o = old /\ r = redated /\ cl = call[c]
  OBVIOUS
<1>2. held \in Holding /\ cl \in CallType /\ Knows(cl, h, m, o, r)
  BY <1>1 DEF Inv
<1>3. Looks(h, m, h2, t, K)
  BY <1>1, <1>2, LookedUpLooks
<1>4. Seen(h, m, h2, t, K)
  BY <1>3, Lookup
<1>5. Knows(cl, h2, m, o, r)
  BY <1>1, <1>2, <1>4, SeenKnows
<1> QED
  BY <1>1, <1>2, <1>4, <1>5 DEF Seen

\* A caller's step that only looks a target up.
LEMMA LooksOnly ==
    ASSUME Inv, NEW c \in Client, NEW t \in Target, NEW K \in SUBSET Key, NEW h2,
           h2 = LookedUp(t, K), NEW cl2 \in CallType, Becomes(c, h2, cl2), Still,
           Knows(cl2, h2, now, old, redated)
    PROVE  Inv'
<1>1. Looks(held, now, h2, t, K)
  BY LookedUpLooks DEF Inv
<1>2. Seen(held, now, h2, t, K)
  BY <1>1, Lookup
<1>3. h2 \in Holding /\ \A u \in Target, k \in Key : h2[u][k] \in {held[u][k], Nothing}
  BY <1>2 DEF Seen
<1>4. faults' \in 0..MaxFaults /\ calls' \in [Client -> 0..MaxCalls]
  BY DEF Inv, Still
<1> QED
  BY <1>3, <1>4, Loses DEF Still

\* The operation a call is in, from its step.
LEMMA StepOps ==
    ASSUME NEW cl \in CallType, Placed(cl)
    PROVE  /\ cl.step \in {"look", "stat", "fill", "reread", "again"} => cl.op = "read"
           /\ cl.step \in {"page", "check", "get", "dates", "copy", "spread"} => cl.op = "fill"
           /\ cl.step \in {"stream", "open", "feed"} => cl.op = "stream"
           /\ cl.step \in {"gc", "forget", "collect"} => cl.op = "gc"
           /\ cl.step = "list" => cl.op = "group"
           /\ cl.step \notin {"idle", "done"} => ~cl.raised
BY DEF Placed, CallType, Operations

LEMMA LookKeeps == ASSUME Inv, NEW c \in Client, NEW t \in Target, Look(c, t) PROVE Inv'
<1>1. PICK cl, ans, into, h2, cl2 :
        /\ cl = call[c] /\ ans = Answer(c, t) /\ into = Fillable(t, cl.missed)
        /\ h2 = LookedUp(t, cl.keys)
        /\ Looked(cl, cl2, t, ans, into)
  BY DEF Looked
<1>2. /\ cl.step = "look" /\ t \in cl.todo /\ Becomes(c, h2, cl2) /\ Still
  BY <1>1, FirstIsIn DEF Look, At, Looked
<1>3. cl \in CallType /\ Placed(cl) /\ Reading(cl, held, now) /\ held \in Holding
  BY <1>1 DEF Inv, Knows
<1>4. cl.op = "read" /\ cl.keys \in SUBSET Key
  BY <1>2, <1>3, StepOps DEF CallType
<1>5. /\ h2 \in Holding /\ Seen(held, now, h2, t, cl.keys) /\ Knows(cl, h2, now, old, redated)
  BY <1>1, <1>4, LookupKnown
<1>6. \A k \in Key : cl.keys = {k} => Replies(h2, now, t, k, ans)
  <2> SUFFICES ASSUME NEW k \in Key, cl.keys = {k} PROVE Replies(h2, now, t, k, ans)
    OBVIOUS
  <2>1. Replies(held, now, t, k, ans)
    BY <1>1, <1>3, Answers
  <2>2. PICK h, m : h = held /\ m = now
    OBVIOUS
  <2>3. Seen(h, m, h2, t, cl.keys) /\ Replies(h, m, t, k, ans)
    BY <2>1, <2>2, <1>5
  <2>4. Replies(h2, m, t, k, ans)
    BY <2>3, SeenReplies
  <2> QED
    BY <2>2, <2>4
<1>7. cl2 \in CallType /\ Knows(cl2, h2, now, old, redated)
  <2>1. PICK m, o, r : m = now /\ o = old /\ r = redated
    OBVIOUS
  <2>2. Knows(cl, h2, m, o, r) /\ \A k \in Key : cl.keys = {k} => Replies(h2, m, t, k, ans)
    BY <2>1, <1>5, <1>6
  <2>3. cl2 \in CallType /\ Knows(cl2, h2, m, o, r)
    BY <2>2, <1>1, <1>2, <1>3, <1>5, LookKnows
  <2> QED
    BY <2>1, <2>3
<1> QED
  BY <1>1, <1>2, <1>4, <1>7, LooksOnly
\* A read past its lookups knows its source.
LEMMA AtSource ==
    ASSUME NEW h, NEW m, NEW cl \in CallType, Placed(cl), Reading(cl, h, m),
           cl.step \in {"stat", "fill", "reread", "again"}
    PROVE  /\ cl.op = "read" /\ ~cl.raised /\ cl.due \subseteq Consulted
           /\ \E k \in Key : cl.keys = {k} /\ \E s \in Target : Sourced(cl, h, m, k, s)
<1>1. cl.op = "read" /\ ~cl.raised
  BY StepOps
<1> QED
  BY <1>1 DEF Reading

\* A read at one of those steps, or done with what its source holds.
LEMMA StillSourced ==
    ASSUME NEW h, NEW m, NEW o, NEW r, NEW cl \in CallType, cl.op = "read", ~cl.raised,
           cl.step \in {"stat", "fill", "reread", "again", "done"}, Fresh(cl.id, o),
           cl.due \subseteq Consulted, NEW k \in Key, cl.keys = {k}, NEW s \in Target,
           cl.step # "done" => Sourced(cl, h, m, k, s),
           cl.step = "done" /\ cl.raced = {} => (cl.val # 0 <=> cl.due # {})
    PROVE  Knows(cl, h, m, o, r)
<1>1. Placed(cl)
  BY DEF Placed, Syncing
<1>2. Asking(cl, h, m, k)
  BY DEF Asking
<1>3. Reading(cl, h, m)
  BY <1>2 DEF Reading
<1> QED
  BY <1>1, <1>3, OnlyReads

\* The call after it asked its source for the clock.
Statted(cl, cl2, clock) == cl2 = [cl EXCEPT !.step = "fill", !.clock = clock]

LEMMA StatKnows ==
    ASSUME NEW h \in Holding, NEW m, NEW o, NEW r, NEW cl \in CallType, Knows(cl, h, m, o, r),
           cl.step = "stat", NEW t \in cl.src, NEW clock \in Clock,
           \A k \in Key : cl.keys = {k} /\ Alive(h[t][k], m) => clock = h[t][k].clock,
           NEW cl2, Statted(cl, cl2, clock)
    PROVE  cl2 \in CallType /\ Knows(cl2, h, m, o, r)
<1>1. Placed(cl) /\ Fresh(cl.id, o) /\ Reading(cl, h, m)
  BY DEF Knows
<1>2. cl2 \in CallType
  BY Stepping DEF CallType, Statted
<1>3. cl.op = "read" /\ ~cl.raised /\ cl.due \subseteq Consulted
  BY <1>1, AtSource
<1>4. PICK k \in Key, s \in Target : cl.keys = {k} /\ Sourced(cl, h, m, k, s)
  BY <1>1, AtSource
<1>5. /\ cl2.op = "read" /\ cl2.step = "fill" /\ cl2.clock = clock /\ cl2.src = cl.src
      /\ cl2.todo = cl.todo /\ cl2.val = cl.val /\ cl2.id = cl.id /\ cl2.keys = {k}
      /\ cl2.due = cl.due /\ cl2.raced = cl.raced /\ ~cl2.raised
  BY <1>3, <1>4 DEF CallType, Statted
<1>6. t = s
  BY <1>4 DEF Sourced
<1>7. Sourced(cl2, h, m, k, s)
  BY <1>4, <1>5, <1>6 DEF Sourced
<1> QED
  BY <1>1, <1>2, <1>3, <1>5, <1>7, StillSourced

LEMMA StatKeeps == ASSUME Inv, NEW c \in Client, NEW t \in Target, Stat(c, t) PROVE Inv'
<1>1. PICK h, m, o, r, cl, ans, clock, h2, cl2 :
        /\ h = held /\ m = now /\ o = old /\ r = redated
        /\ cl = call[c] /\ ans = Answer(c, t) /\ h2 = LookedUp(t, cl.keys)
        /\ clock = IF ans = 0 THEN Nothing ELSE held[t][TheKey(c)].clock
        /\ Statted(cl, cl2, clock)
  BY DEF Statted
<1>2. cl.step = "stat" /\ t \in cl.src /\ Becomes(c, h2, cl2) /\ Still
  BY <1>1 DEF Stat, At, Statted
<1>3. cl \in CallType /\ Placed(cl) /\ Reading(cl, held, now) /\ held \in Holding
  BY <1>1 DEF Inv, Knows
<1>4. cl.op = "read" /\ cl.keys \in SUBSET Key
  BY <1>2, <1>3, StepOps DEF CallType
<1>5. /\ h2 \in Holding /\ Seen(h, m, h2, t, cl.keys) /\ Knows(cl, h2, m, o, r)
  BY <1>1, <1>4, LookupKnown
<1>6. PICK k \in Key : cl.keys = {k}
  BY <1>2, <1>3, AtSource
<1>7. TheKey(c) = k /\ Replies(h, m, t, k, ans)
  BY <1>1, <1>3, <1>6, Answers
<1>8. clock \in Clock /\ (Alive(h[t][k], m) => clock = h[t][k].clock)
  <2>1. Alive(h[t][k], m) => h[t][k] \in Entry
    BY <1>1, <1>3 DEF Alive, Holding, Entries
  <2>2. ans # 0 => Alive(h[t][k], m)
    BY <1>7 DEF Replies
  <2>3. Alive(h[t][k], m) => ans # 0
    BY <1>7, Sizes DEF Replies
  <2> QED
    BY <2>1, <2>2, <2>3, <1>1, <1>7, NothingApart DEF Clock
<1>9. \A j \in Key : cl.keys = {j} /\ Alive(h2[t][j], m) => clock = h2[t][j].clock
  BY <1>5, <1>6, <1>8 DEF Seen
<1>10. cl2 \in CallType /\ Knows(cl2, h2, m, o, r)
  <2>1. clock \in Clock /\ cl.step = "stat" /\ t \in cl.src /\ Statted(cl, cl2, clock)
    BY <1>1, <1>2, <1>8
  <2> QED
    BY <2>1, <1>3, <1>5, <1>9, StatKnows
<1>11. Knows(cl2, h2, now, old, redated)
  BY <1>1, <1>10
<1> QED
  BY <1>1, <1>2, <1>4, <1>10, <1>11, LooksOnly

\* The stream goes on with target t's answer.
Resumed(cl, cl2, ans, otherwise) ==
    cl2 = [cl EXCEPT !.val = ans, !.step = IF ans = 0 THEN otherwise
                                           ELSE IF cl.todo = {} THEN "done" ELSE "fill"]

LEMMA ResumeKnows ==
    ASSUME NEW h \in Holding, NEW m, NEW o, NEW r, NEW cl \in CallType, Knows(cl, h, m, o, r),
           NEW t \in Target, NEW otherwise, NEW ans,
           \/ cl.step = "reread" /\ t = cl.filled /\ otherwise = "again"
           \/ cl.step = "again" /\ t \in cl.src /\ otherwise = "done",
           \A k \in Key : cl.keys = {k} => Replies(h, m, t, k, ans),
           NEW cl2, Resumed(cl, cl2, ans, otherwise)
    PROVE  cl2 \in CallType /\ Knows(cl2, h, m, o, r)
<1>1. Placed(cl) /\ Fresh(cl.id, o) /\ Reading(cl, h, m)
  BY DEF Knows
<1>3. cl.op = "read" /\ ~cl.raised /\ cl.due \subseteq Consulted
  BY <1>1, AtSource
<1>4. PICK k \in Key, s \in Target : cl.keys = {k} /\ Sourced(cl, h, m, k, s)
  BY <1>1, AtSource
<1>5. Replies(h, m, t, k, ans)
  BY <1>4
<1>6. PICK st : st = IF ans = 0 THEN otherwise ELSE IF cl.todo = {} THEN "done" ELSE "fill"
  OBVIOUS
<1>7. /\ st \in {"again", "done", "fill"} /\ st \in AllSteps /\ ans \in 0..MaxId
      /\ cl2 = [cl EXCEPT !.val = ans, !.step = st]
  <2>1. ans \in 0..MaxId
    BY <1>5, Sizes DEF Replies
  <2>2. st \in {"again", "done", "fill"}
    BY <1>6
  <2> QED
    BY <2>1, <2>2, <1>6, Stepping DEF Resumed
<1>8. cl2 \in CallType
  BY <1>7 DEF CallType
<1>9. /\ cl2.op = "read" /\ cl2.step = st /\ cl2.clock = cl.clock /\ cl2.src = cl.src
      /\ cl2.todo = cl.todo /\ cl2.val = ans /\ cl2.id = cl.id /\ cl2.keys = {k}
      /\ cl2.due = cl.due /\ cl2.raced = cl.raced /\ ~cl2.raised
  BY <1>3, <1>4, <1>7 DEF CallType
<1>10. cl.raced = {} => Alive(h[t][k], m) /\ h[t][k] = h[s][k] /\ ans = h[s][k].id /\ ans # 0
  <2>1. cl.raced = {} => Alive(h[t][k], m) /\ h[t][k] = h[s][k]
    BY <1>4 DEF Sourced
  <2> QED
    BY <2>1, <1>5, Sizes DEF Replies
<1>11. st = "fill" => ans # 0
  BY <1>6
<1>12. st # "done" => Sourced(cl2, h, m, k, s)
  BY <1>4, <1>6, <1>7, <1>9, <1>10, <1>11 DEF Sourced
<1>13. st = "done" /\ cl.raced = {} => ans # 0 /\ cl.due # {}
  BY <1>4, <1>10 DEF Sourced
<1> QED
  BY <1>1, <1>3, <1>7, <1>8, <1>9, <1>12, <1>13, StillSourced

LEMMA ResumeKeeps ==
    ASSUME Inv, NEW c \in Client, NEW t \in Target,
           (Reread(c) /\ t = call[c].filled) \/ RereadSource(c, t)
    PROVE  Inv'
<1>1. PICK h, m, o, r, cl, ans, h2, otherwise, cl2 :
        /\ h = held /\ m = now /\ o = old /\ r = redated
        /\ cl = call[c] /\ ans = Answer(c, t) /\ h2 = LookedUp(t, cl.keys)
        /\ otherwise = IF cl.step = "reread" THEN "again" ELSE "done"
        /\ Resumed(cl, cl2, ans, otherwise)
  BY DEF Resumed
<1>2. /\ \/ cl.step = "reread" /\ t = cl.filled /\ otherwise = "again"
         \/ cl.step = "again" /\ t \in cl.src /\ otherwise = "done"
      /\ Becomes(c, h2, cl2) /\ Still
  BY <1>1 DEF Reread, RereadSource, At, Resume, Resumed
<1>3. cl \in CallType /\ Placed(cl) /\ Reading(cl, held, now) /\ held \in Holding
  BY <1>1 DEF Inv, Knows
<1>4. cl.op = "read" /\ cl.keys \in SUBSET Key
  BY <1>2, <1>3, StepOps DEF CallType
<1>5. /\ h2 \in Holding /\ Seen(h, m, h2, t, cl.keys) /\ Knows(cl, h2, m, o, r)
  BY <1>1, <1>4, LookupKnown
<1>6. \A k \in Key : cl.keys = {k} => Replies(h2, m, t, k, ans)
  <2> SUFFICES ASSUME NEW k \in Key, cl.keys = {k} PROVE Replies(h2, m, t, k, ans)
    OBVIOUS
  <2>1. Replies(h, m, t, k, ans)
    BY <1>1, <1>3, Answers
  <2> QED
    BY <2>1, <1>5, SeenReplies
<1>7. cl2 \in CallType /\ Knows(cl2, h2, m, o, r)
  BY <1>1, <1>2, <1>3, <1>5, <1>6, ResumeKnows
<1>8. Knows(cl2, h2, now, old, redated)
  BY <1>1, <1>7
<1> QED
  BY <1>1, <1>2, <1>4, <1>7, <1>8, LooksOnly
LEMMA ClockGiven ==
    ASSUME now \in 0..MaxTime, NEW clock \in Clock
    PROVE  WriteClock(clock) \in 0..MaxTime /\ (clock # Nothing => WriteClock(clock) = clock)
BY DEF WriteClock, Clock

\* The call after it filled target t.
Filled(cl, cl2, t) == cl2 = [cl EXCEPT !.step = "reread", !.filled = t, !.todo = @ \ {t}]

LEMMA FillStreamKnows ==
    ASSUME NEW h \in Holding, NEW m, NEW o, NEW r, NEW r2, NEW cl \in CallType, Knows(cl, h, m, o, r),
           cl.step = "fill", NEW t \in cl.todo, NEW clock \in 0..MaxTime,
           cl.clock # Nothing => clock = cl.clock, NEW h2 \in Holding,
           StoresOne(h, h2, t, cl.keys, cl.val, clock),
           NEW cl2, Filled(cl, cl2, t)
    PROVE  cl2 \in CallType /\ Knows(cl2, h2, m, o, r2)
<1>1. Placed(cl) /\ Fresh(cl.id, o) /\ Reading(cl, h, m)
  BY DEF Knows
<1>2. cl2 \in CallType
  <2>1. t \in Target /\ cl.todo \ {t} \in SUBSET Target
    BY DEF CallType
  <2> QED
    BY <2>1, Stepping DEF CallType, Filled
<1>3. cl.op = "read" /\ ~cl.raised /\ cl.due \subseteq Consulted
  BY <1>1, AtSource
<1>4. PICK k \in Key, s \in Target : cl.keys = {k} /\ Sourced(cl, h, m, k, s)
  BY <1>1, AtSource
<1>5. /\ cl2.op = "read" /\ cl2.step = "reread" /\ cl2.clock = cl.clock /\ cl2.src = cl.src
      /\ cl2.todo = cl.todo \ {t} /\ cl2.filled = t /\ cl2.val = cl.val /\ cl2.id = cl.id
      /\ cl2.keys = {k} /\ cl2.due = cl.due /\ cl2.raced = cl.raced /\ ~cl2.raised
  BY <1>3, <1>4 DEF CallType, Filled
<1>6. t \in Fillable(s, Target) /\ t # s /\ t \in Target
  BY <1>4, Downstream DEF Sourced
<1>7. h2[s][k] = h[s][k] /\ h2[t][k] = [id |-> cl.val, clock |-> clock]
  BY <1>4, <1>6 DEF StoresOne, Alters
<1>8. cl.raced = {} => /\ cl.due # {} /\ Alive(h[s][k], m) /\ cl.val = h[s][k].id
                       /\ cl.clock = h[s][k].clock
  BY <1>4 DEF Sourced
<1>9. cl.raced = {} => h2[t][k] = h2[s][k]
  <2>1. ASSUME Alive(h[s][k], m) PROVE h[s][k] \in Entry
    BY <2>1 DEF Alive, Holding, Entries
  <2>2. ASSUME cl.raced = {} PROVE h[s][k] = [id |-> cl.val, clock |-> clock]
    <3>1. h[s][k] \in Entry
      BY <2>2, <1>8, <2>1
    <3>2. cl.clock # Nothing
      BY <3>1, <2>2, <1>8, NothingApart, Sizes
    <3> QED
      BY <3>1, <3>2, <2>2, <1>8, NothingApart
  <2> QED
    BY <2>2, <1>7
<1>10. Sourced(cl2, h2, m, k, s)
  BY <1>4, <1>5, <1>6, <1>7, <1>8, <1>9 DEF Sourced
<1> QED
  BY <1>1, <1>2, <1>3, <1>5, <1>10, StillSourced

\* A fill by a read: what it writes keeps its life, or is noted as redated.
LEMMA FillStreamKeeps == ASSUME Inv, NEW c \in Client, NEW t \in Target, FillStream(c, t) PROVE Inv'
<1>1. PICK h, m, o, r, r2, cl, clock, h2, cl2 :
        /\ h = held /\ m = now /\ o = old /\ r = redated /\ cl = call[c]
        /\ r2 = IF cl.clock = Nothing \/ cl.raced # {} THEN redated \cup {cl.val} ELSE redated
        /\ clock = WriteClock(cl.clock) /\ h2 = Put(t, cl.keys, Of(cl.val), Of(clock))
        /\ Filled(cl, cl2, t)
  BY DEF Filled
<1>2. /\ cl.step = "fill" /\ t \in cl.todo /\ Becomes(c, h2, cl2) /\ redated' = r2
      /\ UNCHANGED <<now, calls, lastId, old, faults>>
  BY <1>1, FirstIsIn DEF FillStream, At, Filled
<1>3. /\ h \in Holding /\ m \in 0..MaxTime /\ cl \in CallType /\ Knows(cl, h, m, o, r)
      /\ Placed(cl) /\ Reading(cl, h, m) /\ r \subseteq 1..MaxId /\ KeepsLife(h, o, r)
      /\ lastId \in 0..MaxId
  BY <1>1 DEF Inv, Knows
<1>4. PICK k \in Key, s \in Target : cl.keys = {k} /\ Sourced(cl, h, m, k, s)
  BY <1>2, <1>3, AtSource
<1>5. cl.val \in 1..MaxId
  BY <1>2, <1>3, <1>4, Sizes DEF Sourced, CallType
<1>6. clock \in 0..MaxTime /\ (cl.clock # Nothing => clock = cl.clock)
  BY <1>1, <1>3, ClockGiven DEF CallType
<1>7. t \notin Fallbacks /\ t # s
  BY <1>2, <1>4, Downstream DEF Sourced
<1>8. StoresOne(h, h2, t, cl.keys, cl.val, clock)
  <2>1. PICK K, v : K = cl.keys /\ v = cl.val
    OBVIOUS
  <2>2. StoresOne(held, h2, t, K, v, clock)
    BY <2>1, <1>1, <1>3, <1>4, <1>5, <1>6, PutOne
  <2> QED
    BY <2>1, <2>2, <1>1
<1>9. h2 \in Holding /\ Alters(h, h2, t, cl.keys) /\ h2[t][k] = [id |-> cl.val, clock |-> clock]
  BY <1>4, <1>8 DEF StoresOne, Alters, Holding
<1>10. cl2 \in CallType /\ Knows(cl2, h2, m, o, r2)
  <2>1. cl.step = "fill" /\ t \in cl.todo /\ Filled(cl, cl2, t)
    BY <1>1, <1>2
  <2> QED
    BY <2>1, <1>3, <1>6, <1>8, <1>9, FillStreamKnows
<1>11. r \subseteq r2 /\ r2 \subseteq 1..MaxId
  BY <1>1, <1>3, <1>5
<1>12. ASSUME NEW e \in o[k], h2[t][k].id = e.id, e.id \notin r2
       PROVE  h2[t][k].clock = e.clock
  <2>1. e.id = cl.val /\ cl.clock # Nothing /\ cl.raced = {} /\ e.id \notin r
    BY <1>1, <1>9, <1>12
  <2>2. /\ h[s][k] # Nothing /\ h[s][k].id = cl.val /\ h[s][k].clock = cl.clock
    BY <2>1, <1>2, <1>4 DEF Sourced, Alive
  <2>3. h[s][k].clock = e.clock
    BY <2>1, <2>2, <1>3 DEF KeepsLife
  <2> QED
    BY <2>1, <2>2, <2>3, <1>6, <1>9
<1>13. \A j \in Key \cap cl.keys : \A e \in old[j] :
          h2[t][j] # Nothing /\ h2[t][j].id = e.id /\ e.id \notin redated' => h2[t][j].clock = e.clock
  <2> SUFFICES ASSUME NEW j \in Key \cap cl.keys, NEW e \in old[j], h2[t][j].id = e.id,
                      e.id \notin redated'
               PROVE  h2[t][j].clock = e.clock
    OBVIOUS
  <2>1. j = k /\ e \in o[k] /\ e.id \notin r2
    BY <1>1, <1>2, <1>4
  <2> QED
    BY <2>1, <1>12
<1>14. /\ Alters(held, h2, t, cl.keys) /\ redated \subseteq redated' /\ redated' \subseteq 1..MaxId
       /\ lastId' \in 0..MaxId /\ lastId <= lastId' /\ Knows(cl2, h2, now, old, redated')
  BY <1>1, <1>2, <1>3, <1>9, <1>10, <1>11, Sizes
<1> QED
  BY <1>2, <1>7, <1>10, <1>13, <1>14, Gives
-----------------------------------------------------------------------------
(***************************************************************************)
(* A call to a target fails.                                               *)
(***************************************************************************)
LEMMA Fails ==
    ASSUME Inv, NEW c \in Client, NEW cl2 \in CallType, Failing(c, cl2),
           Knows(cl2, held, now, old, redated)
    PROVE  Inv'
<1>1. PICK h2 : h2 = held
  OBVIOUS
<1>2. /\ Becomes(c, h2, cl2) /\ UNCHANGED <<now, calls, lastId, old, redated>>
      /\ faults < MaxFaults /\ faults' = faults + 1
  BY <1>1 DEF Failing, Goes
<1>3. h2 \in Holding /\ faults \in 0..MaxFaults /\ calls \in [Client -> 0..MaxCalls]
  BY <1>1 DEF Inv
<1>4. faults' \in 0..MaxFaults /\ calls' \in [Client -> 0..MaxCalls]
  BY <1>2, <1>3, Sizes
<1>5. Knows(cl2, h2, now, old, redated) /\ \A t \in Target, k \in Key : h2[t][k] \in {held[t][k], Nothing}
  BY <1>1
<1> QED
  BY <1>2, <1>3, <1>4, <1>5, Loses

\* A call that raises promises nothing more.
LEMMA RaisedKnows ==
    ASSUME NEW h, NEW m, NEW o, NEW r, NEW cl \in CallType, Knows(cl, h, m, o, r),
           cl.step \notin {"idle", "done"}
    PROVE  Raised(cl) \in CallType /\ Knows(Raised(cl), h, m, o, r)
<1>1. PICK cl2 : cl2 = Raised(cl)
  OBVIOUS
<1>2. cl2 \in CallType
  BY <1>1, Stepping DEF Raised, CallType
<1>3. /\ cl2.step = "done" /\ cl2.raised /\ cl2.op = cl.op /\ cl2.keys = cl.keys
      /\ cl2.stale = cl.stale /\ cl2.id = cl.id /\ cl2.due = cl.due /\ cl2.n = cl.n
      /\ cl2.size = cl.size /\ cl2.limit = cl.limit /\ cl2.mine = cl.mine
      /\ cl2.unfair = cl.unfair /\ cl2.met = cl.met /\ cl2.raced = cl.raced
  BY <1>1 DEF Raised, CallType
<1>4. /\ Placed(cl) /\ Writing(cl, h, m) /\ Collecting(cl, h, m) /\ Reading(cl, h, m)
      /\ Filling(cl, h, m, o, r) /\ Fresh(cl.id, o)
  BY DEF Knows
<1>5. Placed(cl2)
  BY <1>3, <1>4 DEF Placed, Syncing
<1>6. Writing(cl2, h, m)
  BY <1>3, <1>4 DEF Writing
<1>7. Grouping(cl2, h, m)
  BY <1>3 DEF Grouping
<1>8. Collecting(cl2, h, m)
  BY <1>3, <1>4 DEF Collecting
<1>9. Reading(cl2, h, m)
  BY <1>3, <1>4 DEF Reading, Asking
<1>10. Filling(cl2, h, m, o, r)
  BY <1>3, <1>4 DEF Filling, Checking, FoundOld, Accounts, StillThere, Reported, Paging
<1> QED
  BY <1>1, <1>2, <1>3, <1>4, <1>5, <1>6, <1>7, <1>8, <1>9, <1>10 DEF Knows

LEMMA CallFailsKeeps == ASSUME Inv, NEW c \in Client, CallFails(c) PROVE Inv'
<1>1. PICK h, m, o, r, cl, cl2 :
        h = held /\ m = now /\ o = old /\ r = redated /\ cl = call[c] /\ cl2 = Raised(cl)
  OBVIOUS
<1>2. cl \in CallType /\ Knows(cl, h, m, o, r) /\ cl.step \notin {"idle", "done"}
  BY <1>1 DEF Inv, CallFails
<1>3. cl2 \in CallType /\ Knows(cl2, h, m, o, r)
  BY <1>1, <1>2, RaisedKnows
<1>4. Failing(c, cl2)
  BY <1>1 DEF CallFails
<1> QED
  BY <1>1, <1>3, <1>4, Fails

\* A fill that failed used its stream up: the read goes back to its source.
LEMMA FillFailsKeeps == ASSUME Inv, NEW c \in Client, NEW t \in Target, FillFails(c, t) PROVE Inv'
<1>1. PICK h, m, o, r, cl, cl2 :
        /\ h = held /\ m = now /\ o = old /\ r = redated /\ cl = call[c]
        /\ cl2 = [cl EXCEPT !.step = "again", !.todo = @ \ {t}]
  OBVIOUS
<1>2. /\ cl \in CallType /\ Placed(cl) /\ Reading(cl, h, m) /\ Fresh(cl.id, o)
      /\ cl.step = "fill" /\ Failing(c, cl2)
  BY <1>1 DEF Inv, Knows, FillFails, At
<1>3. cl.op = "read" /\ ~cl.raised /\ cl.due \subseteq Consulted
  BY <1>2, AtSource
<1>4. PICK k \in Key, s \in Target : cl.keys = {k} /\ Sourced(cl, h, m, k, s)
  BY <1>2, AtSource
<1>5. cl2 \in CallType
  <2>1. cl.todo \ {t} \in SUBSET Target
    BY <1>2 DEF CallType
  <2> QED
    BY <2>1, <1>1, <1>2, Stepping DEF CallType
<1>6. /\ cl2.op = "read" /\ cl2.step = "again" /\ cl2.clock = cl.clock /\ cl2.src = cl.src
      /\ cl2.todo = cl.todo \ {t} /\ cl2.id = cl.id /\ cl2.keys = {k}
      /\ cl2.due = cl.due /\ cl2.raced = cl.raced /\ ~cl2.raised
  BY <1>1, <1>2, <1>3, <1>4 DEF CallType
<1>7. Sourced(cl2, h, m, k, s)
  BY <1>2, <1>4, <1>6 DEF Sourced
<1>8. Knows(cl2, h, m, o, r)
  BY <1>2, <1>3, <1>5, <1>6, <1>7, StillSourced
<1> QED
  BY <1>1, <1>2, <1>5, <1>8, Fails
\* The call is let off target t.
LetOff(cl, cl2, t, left) ==
    cl2 = [cl EXCEPT !.failed = @ \cup {t}, !.step = IF @ = "feed" THEN "open" ELSE @,
                     !.left = left]

LEMMA LetOffKnows ==
    ASSUME NEW h, NEW m, NEW o, NEW r, NEW cl \in CallType, Knows(cl, h, m, o, r),
           cl.step \in Syncing, NEW t \in cl.todo, t # Main, NEW left \in SUBSET Key,
           left \subseteq cl.left \/ left = cl.stale, NEW cl2, LetOff(cl, cl2, t, left)
    PROVE  /\ cl2 \in CallType /\ Knows(cl2, h, m, o, r) /\ Served(cl2, h, m, t)
           /\ cl2.step \in Syncing \ {"feed"} /\ cl2.todo = cl.todo /\ cl2.op = cl.op
           /\ cl2.step = (IF cl.step = "feed" THEN "open" ELSE cl.step)
<1>1. PICK st, failed : st = (IF cl.step = "feed" THEN "open" ELSE cl.step) /\ failed = cl.failed \cup {t}
  OBVIOUS
<1>2. cl2 = [cl EXCEPT !.failed = failed, !.step = st, !.left = left]
  BY <1>1 DEF LetOff, CallType
<1>3. st \in AllSteps /\ failed \in SUBSET Target /\ st \in Syncing \ {"feed"}
  BY <1>1, Stepping DEF CallType, Syncing
<1>4. cl2 \in CallType
  BY <1>2, <1>3 DEF CallType
<1>5. /\ cl2.op = cl.op /\ cl2.step = st /\ cl2.keys = cl.keys /\ cl2.stale = cl.stale
      /\ cl2.id = cl.id /\ cl2.todo = cl.todo /\ cl2.src = cl.src /\ cl2.val = cl.val
      /\ cl2.size = cl.size /\ cl2.limit = cl.limit /\ cl2.after = cl.after
      /\ cl2.page = cl.page /\ cl2.want = cl.want /\ cl2.found = cl.found
      /\ cl2.clocks = cl.clocks /\ cl2.left = left /\ cl2.n = cl.n /\ cl2.raised = cl.raised
      /\ cl2.raced = cl.raced /\ cl2.met = cl.met /\ cl2.mine = cl.mine
      /\ cl2.unfair = cl.unfair /\ cl2.failed = failed /\ cl2.due = cl.due
  BY <1>2 DEF CallType
<1>6. /\ Placed(cl) /\ Writing(cl, h, m) /\ Grouping(cl, h, m) /\ Collecting(cl, h, m)
      /\ Filling(cl, h, m, o, r) /\ Fresh(cl.id, o)
  BY DEF Knows
<1>7. Placed(cl2)
  BY <1>1, <1>5, <1>6 DEF Placed, Syncing
<1>8. ReachedBy(cl2) \subseteq ReachedBy(cl) /\ t \notin ReachedBy(cl2)
  BY <1>1, <1>5 DEF ReachedBy
<1>9. Waiting(cl2) <=> Waiting(cl)
  BY <1>1, <1>5 DEF Waiting
<1>10. Writing(cl2, h, m)
  <2>1. Given(cl2) \subseteq Given(cl)
    BY <1>1, <1>3, <1>5, <1>8, <1>9 DEF Given
  <2>2. Cleared(cl2) \subseteq Cleared(cl)
    BY <1>1, <1>5, <1>8 DEF Cleared
  <2> QED
    BY <2>1, <2>2, <1>1, <1>5, <1>6, <1>9 DEF Writing
<1>11. Grouping(cl2, h, m)
  BY <1>1, <1>5, <1>6, <1>9 DEF Grouping
<1>12. Collecting(cl2, h, m)
  <2>1. cl.op = "gc" => Forgetting(cl2) \subseteq Forgetting(cl) /\ CollectedBy(cl2) \subseteq CollectedBy(cl)
    BY <1>1, <1>5, <1>6, <1>8 DEF Forgetting, CollectedBy, Placed
  <2> QED
    BY <2>1, <1>5, <1>6 DEF Collecting
<1>13. Filling(cl2, h, m, o, r)
  <2> SUFFICES ASSUME cl.op = "fill" PROVE Filling(cl2, h, m, o, r)
    BY <1>5 DEF Filling
  <2>1. st = cl.step
    BY <1>1, <1>6 DEF Placed
  <2>2. /\ cl.due \in [Key -> SUBSET Target] /\ cl.size # 0 /\ cl.limit # 0
        /\ cl.step # "done" => \E f \in Older : cl.src = {f}
        /\ Checking(cl) /\ FoundOld(cl, h, o, r) /\ Accounts(cl, h) /\ StillThere(cl, h, m)
        /\ ~cl.raised => \A k \in Key \ cl.raced : \A f \in cl.due[k] : Owed(cl, h, m, k, f)
    BY <1>6 DEF Filling
  <2>3. FoundOld(cl2, h, o, r)
    BY <2>1, <2>2, <1>5 DEF FoundOld
  <2>4. Accounts(cl2, h) /\ StillThere(cl2, h, m) /\ Checking(cl2)
    BY <2>1, <2>2, <1>5 DEF Accounts, StillThere, Checking
  <2>5. \A k, f : Owed(cl, h, m, k, f) => Owed(cl2, h, m, k, f)
    BY <2>1, <1>5 DEF Owed, ToCome
  <2> QED
    BY <2>1, <2>2, <2>3, <2>4, <2>5, <1>5 DEF Filling
<1>14. Reading(cl2, h, m)
  BY <1>5, <1>6 DEF Reading, Placed, Syncing
<1>15. Served(cl2, h, m, t)
  <2>1. cl.step = "set" => cl.op \in {"set", "group"} /\ ~Waiting(cl)
    BY <1>6, Parties DEF Placed, Waiting, CallType, Operations
  <2>2. cl2.step = "set" => cl2.id # 0
    BY <2>1, <1>1, <1>5, <1>6 DEF Writing
  <2> QED
    BY <2>2, <1>8 DEF Served
<1> QED
  BY <1>1, <1>3, <1>4, <1>5, <1>6, <1>7, <1>10, <1>11, <1>12, <1>13, <1>14, <1>15 DEF Knows

\* A failure the declaration tolerates leaves the target out; any other is raised.
LEMMA SyncFailsKeeps == ASSUME Inv, NEW c \in Client, NEW t \in Target, SyncFails(c, t) PROVE Inv'
<1>1. PICK h, m, o, r, cl, cl2 :
        h = held /\ m = now /\ o = old /\ r = redated /\ cl = call[c] /\ cl2 = Settled(cl, t)
  OBVIOUS
<1>2. /\ cl \in CallType /\ Knows(cl, h, m, o, r) /\ Placed(cl) /\ Filling(cl, h, m, o, r)
      /\ cl.step \in Syncing /\ t \in cl.todo /\ Failing(c, cl2)
  BY <1>1, FirstIsIn DEF Inv, Knows, SyncFails
<1>3. cl2 \in CallType /\ Knows(cl2, h, m, o, r)
  <2>1. CASE t = Main \/ (t \in Required /\ cl.op # "gc")
    <3>1. cl2 = Raised(cl) /\ cl.step \notin {"idle", "done"}
      BY <2>1, <1>1, <1>2 DEF Settled, Syncing
    <3> QED
      BY <3>1, <1>2, RaisedKnows
  <2>2. CASE ~(t = Main \/ (t \in Required /\ cl.op # "gc"))
    <3> DEFINE tolerated == [cl EXCEPT !.failed = @ \cup {t},
                                       !.step = IF @ = "feed" THEN "open" ELSE @]
               other == {k \in cl.left : cl.clocks[k] # cl.clocks[Min(cl.left)]}
    <3>1. /\ cl2 = IF cl.step = "spread" /\ other # {}
                   THEN [tolerated EXCEPT !.left = {k \in @ : cl.clocks[k] # cl.clocks[Min(@)]}]
                   ELSE Past([tolerated EXCEPT !.left = cl.stale], t)
      BY <2>2, <1>1 DEF Settled
    <3>2. tolerated.left = cl.left
      BY <1>2 DEF CallType
    <3>3. \A S : LetOff(cl, [tolerated EXCEPT !.left = S], t, S)
      BY <1>2 DEF LetOff, CallType
    <3>4. [tolerated EXCEPT !.left = {k \in @ : cl.clocks[k] # cl.clocks[Min(@)]}]
            = [tolerated EXCEPT !.left = other]
      BY <3>2
    <3>5. other \subseteq cl.left /\ other \in SUBSET Key /\ cl.stale \in SUBSET Key
      BY <1>2 DEF CallType
    <3> HIDE DEF tolerated, other
    <3>6. CASE cl.step = "spread" /\ other # {}
      <4>1. LetOff(cl, cl2, t, other)
        BY <3>1, <3>3, <3>4, <3>6
      <4> QED
        BY <4>1, <3>5, <2>2, <1>2, LetOffKnows
    <3>7. CASE ~(cl.step = "spread" /\ other # {})
      <4>1. PICK cl1, left : cl1 = [tolerated EXCEPT !.left = cl.stale] /\ left = cl.stale
        OBVIOUS
      <4>2. LetOff(cl, cl1, t, left) /\ cl2 = Past(cl1, t)
        BY <4>1, <3>1, <3>3, <3>7
      <4>3. /\ cl1 \in CallType /\ Knows(cl1, h, m, o, r) /\ Served(cl1, h, m, t)
            /\ cl1.step \in Syncing \ {"feed"} /\ cl1.todo = cl.todo
        <5>1. left \in SUBSET Key /\ left = cl.stale /\ t # Main
          BY <4>1, <3>5, <2>2
        <5>2. LetOff(cl, cl1, t, left)
          BY <4>2
        <5> QED
          BY <5>1, <5>2, <1>2, LetOffKnows
      <4>4. t \in cl1.todo
        BY <4>3, <1>2
      <4> QED
        BY <4>2, <4>3, <4>4, PastKnows
    <3> QED
      BY <3>6, <3>7
  <2> QED
    BY <2>1, <2>2
<1> QED
  BY <1>1, <1>2, <1>3, Fails
-----------------------------------------------------------------------------
(***************************************************************************)
(* A group's listing, and a stream's steps.                                *)
(***************************************************************************)
LEMMA OnlyWrites ==
    ASSUME NEW h, NEW m, NEW o, NEW r, NEW cl \in CallType,
           cl.op \in {"set", "delete", "stream", "group"}, Placed(cl), Fresh(cl.id, o),
           Writing(cl, h, m), Grouping(cl, h, m)
    PROVE  Knows(cl, h, m, o, r)
BY DEF Knows, Collecting, Reading, Filling

\* The call after it listed the group's members, of which stale are to go.
Listed(cl, cl2, stale) ==
    cl2 = IF cl.keys # {} THEN [cl EXCEPT !.stale = stale, !.todo = {Main}, !.step = "set"]
          ELSE IF stale # {} THEN [cl EXCEPT !.stale = stale, !.todo = {Main}, !.step = "remove"]
          ELSE [cl EXCEPT !.stale = stale, !.todo = {Main}, !.step = "done"]

LEMMA ListKnows ==
    ASSUME NEW h, NEW m, NEW o, NEW r, NEW cl \in CallType, Knows(cl, h, m, o, r), cl.step = "list",
           NEW stale, stale = AliveKeys(h, Main, m) \ cl.keys, NEW h2,
           AliveKeys(h2, Main, m) = AliveKeys(h, Main, m), NEW cl2, Listed(cl, cl2, stale)
    PROVE  cl2 \in CallType /\ Knows(cl2, h2, m, o, r)
<1>1. Placed(cl) /\ Fresh(cl.id, o)
  BY DEF Knows
<1>2. cl.op = "group" /\ ~cl.raised
  BY <1>1, StepOps
<1>3. PICK st : st = IF cl.keys # {} THEN "set" ELSE IF stale # {} THEN "remove" ELSE "done"
  OBVIOUS
<1>4. cl2 = [cl EXCEPT !.stale = stale, !.todo = {Main}, !.step = st]
  BY <1>3 DEF Listed
<1>5. stale \in SUBSET Key /\ {Main} \in SUBSET Target /\ st \in AllSteps
  BY <1>3, Parties, Stepping DEF AliveKeys
<1>6. cl2 \in CallType
  BY <1>4, <1>5 DEF CallType
<1>7. /\ cl2.op = "group" /\ cl2.step = st /\ cl2.keys = cl.keys /\ cl2.stale = stale
      /\ cl2.todo = {Main} /\ cl2.id = cl.id /\ ~cl2.raised
  BY <1>2, <1>4 DEF CallType
<1>8. Placed(cl2)
  BY <1>3, <1>7 DEF Placed
<1>9. cl.keys \cap stale = {} /\ AliveKeys(h2, Main, m) \subseteq cl.keys \cup stale
  OBVIOUS
<1>10. /\ st = "set" => Waiting(cl2)
       /\ st # "set" => cl.keys = {}
       /\ st = "done" => stale = {}
       /\ st \in {"set", "remove", "done"}
  BY <1>3, <1>7 DEF Waiting
<1>11. Writing(cl2, h2, m)
  BY <1>7, <1>9, <1>10 DEF Writing, Given, Cleared
<1>12. Grouping(cl2, h2, m)
  BY <1>7, <1>9, <1>10 DEF Grouping
<1> QED
  BY <1>1, <1>6, <1>7, <1>8, <1>11, <1>12, OnlyWrites

LEMMA ListKeeps == ASSUME Inv, NEW c \in Client, ListGroup(c) PROVE Inv'
<1>1. PICK h, m, o, r, cl, stale, h2 :
        /\ h = held /\ m = now /\ o = old /\ r = redated /\ cl = call[c]
        /\ stale = LiveKeys(Main) \ cl.keys /\ h2 = LookedUp(Main, Key)
  OBVIOUS
<1>2. PICK cl2 : Listed(cl, cl2, stale)
  BY DEF Listed
<1>3. cl \in CallType /\ Knows(cl, h, m, o, r) /\ held \in Holding
  BY <1>1 DEF Inv
<1>4. cl.step = "list" /\ Becomes(c, h2, cl2) /\ Still
  <2> DEFINE cl1 == [cl EXCEPT !.stale = stale, !.todo = {Main}]
  <2>1. /\ cl1.keys = cl.keys /\ cl1.stale = stale
        /\ \A s : [cl1 EXCEPT !.step = s] = [cl EXCEPT !.stale = stale, !.todo = {Main}, !.step = s]
    BY <1>3 DEF CallType
  <2>2. /\ cl.step = "list" /\ Still
        /\ Becomes(c, h2, IF cl1.keys # {} THEN [cl1 EXCEPT !.step = "set"]
                          ELSE IF cl1.stale # {} THEN [cl1 EXCEPT !.step = "remove"]
                          ELSE [cl1 EXCEPT !.step = "done"])
    BY <1>1 DEF ListGroup, At, Done
  <2> HIDE DEF cl1
  <2>3. cl2 = IF cl1.keys # {} THEN [cl1 EXCEPT !.step = "set"]
              ELSE IF cl1.stale # {} THEN [cl1 EXCEPT !.step = "remove"]
              ELSE [cl1 EXCEPT !.step = "done"]
    BY <2>1, <1>2 DEF Listed
  <2> QED
    BY <2>2, <2>3
<1>5. stale = AliveKeys(h, Main, m) \ cl.keys /\ Main \in Target
  BY <1>1, JudgedKeys, Parties
<1>6. Seen(h, m, h2, Main, Key)
  <2>1. Looks(h, m, h2, Main, Key)
    BY <1>1, <1>3, <1>5, LookedUpLooks
  <2> QED
    BY <2>1, <1>5, Lookup
<1>7. AliveKeys(h2, Main, m) = AliveKeys(h, Main, m)
  BY <1>5, <1>6 DEF Seen
<1>8. cl2 \in CallType /\ Knows(cl2, h2, m, o, r)
  BY <1>2, <1>3, <1>4, <1>5, <1>7, ListKnows
<1>9. Knows(cl2, h2, now, old, redated)
  BY <1>1, <1>8
<1> QED
  BY <1>1, <1>4, <1>5, <1>8, <1>9, LooksOnly
\* A stream's call at its steps.
LEMMA Streaming ==
    ASSUME NEW h, NEW m, NEW cl \in CallType, Placed(cl), Writing(cl, h, m),
           cl.step \in {"stream", "open", "feed"}
    PROVE  /\ cl.op = "stream" /\ ~cl.raised /\ cl.stale = {} /\ \E k \in Key : cl.keys = {k}
           /\ cl.step # "stream" =>
                /\ cl.id # 0 /\ cl.todo \subseteq Dependents /\ Main \notin cl.todo
                /\ \A t \in ReachedBy(cl) \ cl.todo : \A k \in cl.keys \ cl.raced :
                      h[t][k] # Nothing /\ h[t][k].id = cl.id
                /\ \A k \in cl.keys \ cl.raced : Alive(h[Main][k], m)
<1>1. cl.op = "stream" /\ ~cl.raised
  BY StepOps
<1>2. cl.step # "stream" => ~Waiting(cl) /\ Given(cl) = ReachedBy(cl) \ cl.todo
  BY DEF Waiting, Given
<1> QED
  BY <1>1, <1>2, Parties DEF Writing, Placed

\* A stream that feeds, with what the authority holds and what is still to be reached.
LEMMA StreamOn ==
    ASSUME NEW h, NEW m, NEW o, NEW r, NEW cl \in CallType, cl.op = "stream", ~cl.raised,
           cl.stale = {}, \E k \in Key : cl.keys = {k}, cl.step \in {"open", "feed"},
           cl.id # 0, Fresh(cl.id, o), cl.todo \subseteq Dependents, cl.todo # {},
           \A t \in ReachedBy(cl) \ cl.todo : \A k \in cl.keys \ cl.raced :
               h[t][k] # Nothing /\ h[t][k].id = cl.id,
           \A k \in cl.keys \ cl.raced : Alive(h[Main][k], m),
           cl.step = "feed" => cl.val # 0 /\ (cl.keys \ cl.raced # {} => cl.val = cl.id)
    PROVE  Knows(cl, h, m, o, r)
<1>1. Placed(cl)
  BY DEF Placed, Syncing
<1>2. Writing(cl, h, m)
  BY DEF Writing, Given, Cleared, Waiting
<1> QED
  BY <1>1, <1>2, OnlyWrites DEF Grouping

\* The call after the authority took the stream as value id.
Streamed(cl, cl2, id) == cl2 = [cl EXCEPT !.id = id, !.step = "open", !.todo = Dependents]

LEMMA StreamKeeps == ASSUME Inv, NEW c \in Client, Stream(c) PROVE Inv'
<1>1. PICK h, m, o, r, cl, id, h2 :
        /\ h = held /\ m = now /\ o = old /\ r = redated /\ cl = call[c] /\ id = lastId + 1
        /\ h2 = Put(Main, cl.keys, Of(id), Of(m))
  OBVIOUS
<1>2. PICK cl2 : Streamed(cl, cl2, id)
  BY DEF Streamed
<1>3. /\ cl.step = "stream" /\ lastId < MaxId /\ lastId' = id /\ Becomes(c, h2, cl2)
      /\ UNCHANGED <<now, calls, old, redated, faults>>
  BY <1>1, <1>2 DEF Stream, At, Streamed
<1>4. /\ h \in Holding /\ m \in 0..MaxTime /\ cl \in CallType /\ Placed(cl) /\ Writing(cl, h, m)
      /\ lastId \in 0..MaxId /\ Aged(o, lastId) /\ r \subseteq 1..MaxId
  BY <1>1 DEF Inv, Knows
<1>5. /\ cl.op = "stream" /\ ~cl.raised /\ cl.stale = {}
  BY <1>3, <1>4, Streaming
<1>6. PICK k \in Key : cl.keys = {k}
  BY <1>3, <1>4, Streaming
<1>7. id \in 1..MaxId /\ Fresh(id, o)
  <2>1. \A j \in Key : \A e \in o[j] : e.id \in Nat /\ e.id <= lastId
    BY <1>4, NothingApart, Sizes DEF Aged
  <2> QED
    BY <2>1, <1>1, <1>3, <1>4, Sizes DEF Fresh
<1>8. Main \in Target /\ Dependents \in SUBSET Target /\ Dependents # {} /\ Main \notin Fallbacks
  BY Parties
<1>9. StoresOne(h, h2, Main, {k}, id, m)
  <2>1. {k} \in SUBSET Key
    OBVIOUS
  <2> QED
    BY <2>1, <1>1, <1>4, <1>6, <1>7, <1>8, PutOne
<1>10. Alters(h, h2, Main, {k}) /\ h2[Main][k] = [id |-> id, clock |-> m]
  BY <1>9 DEF StoresOne
<1>11. Alive(h2[Main][k], m) /\ h2[Main][k] # Nothing /\ h2[Main][k].id = id
  BY <1>4, <1>7, <1>10, NewIsAlive
<1>12. cl2 \in CallType
  <2>1. id \in 0..MaxId /\ "open" \in AllSteps /\ Dependents \in SUBSET Target
    BY <1>7, <1>8, Stepping, Sizes
  <2> QED
    BY <2>1, <1>2, <1>4 DEF Streamed, CallType
<1>13. /\ cl2.op = "stream" /\ ~cl2.raised /\ cl2.stale = {} /\ cl2.keys = {k}
       /\ cl2.step = "open" /\ cl2.id = id /\ cl2.todo = Dependents
  BY <1>2, <1>4, <1>5, <1>6 DEF Streamed, CallType
<1>14. ReachedBy(cl2) \ cl2.todo = {Main}
  BY <1>13, Parties DEF ReachedBy
<1>15. Knows(cl2, h2, m, o, r)
  BY <1>7, <1>8, <1>11, <1>12, <1>13, <1>14, Sizes, StreamOn
<1>16. \A j \in Key \cap {k} : \A e \in old[j] : h2[Main][j].id # e.id
  BY <1>1, <1>7, <1>11 DEF Fresh
<1>17. /\ Alters(held, h2, Main, {k}) /\ Knows(cl2, h2, now, old, redated')
       /\ redated \subseteq redated' /\ redated' \subseteq 1..MaxId
       /\ lastId' \in 0..MaxId /\ lastId <= lastId'
  BY <1>1, <1>3, <1>4, <1>7, <1>10, <1>15, Sizes
<1> QED
  BY <1>3, <1>8, <1>12, <1>16, <1>17, Gives

\* The call with what the authority answers for the next dependent.
Opened(cl, cl2, ans) == cl2 = [cl EXCEPT !.step = "feed", !.val = ans]

LEMMA OpenKeeps == ASSUME Inv, NEW c \in Client, NEW t \in Target, Open(c, t) PROVE Inv'
<1>1. PICK h, m, o, r, cl, ans, h2 :
        /\ h = held /\ m = now /\ o = old /\ r = redated /\ cl = call[c]
        /\ ans = Answer(c, Main) /\ h2 = LookedUp(Main, cl.keys)
  OBVIOUS
<1>2. PICK cl1 : Opened(cl, cl1, ans)
  BY DEF Opened
<1>3. PICK cl2 : cl2 = IF ans = 0 THEN Past(cl, t) ELSE cl1
  OBVIOUS
<1>4. cl.step = "open" /\ t \in cl.todo /\ Becomes(c, h2, cl2) /\ Still
  BY <1>1, <1>2, <1>3, FirstIsIn DEF Open, At, Opened
<1>5. /\ h \in Holding /\ cl \in CallType /\ Knows(cl, h, m, o, r) /\ Placed(cl) /\ Writing(cl, h, m)
      /\ Fresh(cl.id, o)
  BY <1>1 DEF Inv, Knows
<1>6. /\ cl.op = "stream" /\ ~cl.raised /\ cl.stale = {}
      /\ cl.id # 0 /\ cl.todo \subseteq Dependents /\ Main \notin cl.todo
      /\ \A u \in ReachedBy(cl) \ cl.todo : \A k \in cl.keys \ cl.raced :
            h[u][k] # Nothing /\ h[u][k].id = cl.id
      /\ \A k \in cl.keys \ cl.raced : Alive(h[Main][k], m)
  BY <1>4, <1>5, Streaming
<1>7. PICK k \in Key : cl.keys = {k}
  BY <1>4, <1>5, Streaming
<1>8. Main \in Target /\ Main \in ReachedBy(cl) /\ ReachedBy(cl) \subseteq Target
  BY Parties DEF ReachedBy
<1>9. Replies(h, m, Main, k, ans)
  BY <1>1, <1>5, <1>7, <1>8, Answers
<1>10. Seen(h, m, h2, Main, {k})
  <2>1. Looks(h, m, h2, Main, {k})
    BY <1>1, <1>5, <1>7, <1>8, LookedUpLooks
  <2> QED
    BY <2>1, <1>8, Lookup
<1>11. \A u \in ReachedBy(cl) \ cl.todo : \A j \in cl.keys \ cl.raced :
            h2[u][j] # Nothing /\ h2[u][j].id = cl.id
  <2> SUFFICES ASSUME NEW u \in ReachedBy(cl) \ cl.todo, k \notin cl.raced
               PROVE  h2[u][k] # Nothing /\ h2[u][k].id = cl.id
    BY <1>7
  <2>1. h2[u][k] = h[u][k]
    BY <1>6, <1>7, <1>8, <1>10 DEF Seen
  <2> QED
    BY <2>1, <1>6, <1>7
<1>12. \A j \in cl.keys \ cl.raced : Alive(h2[Main][j], m)
  BY <1>6, <1>7, <1>8, <1>10 DEF Seen
<1>13. cl2 \in CallType /\ Knows(cl2, h2, m, o, r)
  <2>1. CASE ans = 0
    <3>1. cl.keys \subseteq cl.raced
      BY <2>1, <1>6, <1>7, <1>9, Sizes DEF Replies
    <3>2. Knows(cl, h2, m, o, r)
      BY <1>4, <1>5, <1>6, <1>7, <1>11, <1>12, StreamOn DEF Placed, Syncing
    <3>3. Served(cl, h2, m, t)
      BY <3>1, <1>4, <1>6 DEF Served
    <3>4. cl.step \in Syncing \ {"feed"}
      BY <1>4 DEF Syncing
    <3> QED
      BY <2>1, <3>2, <3>3, <3>4, <1>3, <1>4, <1>5, PastKnows
  <2>2. CASE ans # 0
    <3>1. Alive(h[Main][k], m) /\ ans = h[Main][k].id /\ ans \in 1..MaxId
      BY <2>2, <1>9 DEF Replies
    <3>2. cl1 \in CallType
      <4>1. ans \in 0..MaxId /\ "feed" \in AllSteps
        BY <3>1, Stepping, Sizes
      <4> QED
        BY <4>1, <1>2, <1>5 DEF Opened, CallType
    <3>3. /\ cl1.op = "stream" /\ ~cl1.raised /\ cl1.stale = {} /\ cl1.keys = {k}
          /\ cl1.step = "feed" /\ cl1.id = cl.id /\ cl1.todo = cl.todo /\ cl1.val = ans
          /\ cl1.raced = cl.raced /\ cl1.failed = cl.failed
      BY <1>2, <1>5, <1>6, <1>7 DEF Opened, CallType
    <3>4. ReachedBy(cl1) = ReachedBy(cl)
      BY <3>3 DEF ReachedBy
    <3>5. cl1.keys \ cl1.raced # {} => ans = cl.id
      BY <3>1, <3>3, <1>6, <1>7, <1>8
    <3>6. Knows(cl1, h2, m, o, r)
      BY <3>2, <3>3, <3>4, <3>5, <2>2, <1>4, <1>5, <1>6, <1>7, <1>11, <1>12, StreamOn
    <3> QED
      BY <2>2, <3>2, <3>6, <1>3
  <2> QED
    BY <2>1, <2>2
<1>14. Knows(cl2, h2, now, old, redated) /\ h2 = LookedUp(Main, {k}) /\ {k} \in SUBSET Key
  BY <1>1, <1>7, <1>13
<1> QED
  BY <1>4, <1>8, <1>13, <1>14, LooksOnly
\* The call with the stream it opened behind it.
Shut(cl, cl1) == cl1 = [cl EXCEPT !.step = "open"]

LEMMA FeedKeeps == ASSUME Inv, NEW c \in Client, NEW t \in Target, Feed(c, t) PROVE Inv'
<1>1. PICK h, m, o, r, r2, cl, h2 :
        /\ h = held /\ m = now /\ o = old /\ r = redated /\ cl = call[c]
        /\ r2 = redated \cup ({cl.val} \ {cl.id}) /\ h2 = Put(t, cl.keys, Of(cl.val), Of(m))
  OBVIOUS
<1>2. PICK cl1 : Shut(cl, cl1)
  BY DEF Shut
<1>3. PICK cl2 : cl2 = Past(cl1, t)
  OBVIOUS
<1>4. /\ cl.step = "feed" /\ t \in cl.todo /\ Becomes(c, h2, cl2) /\ redated' = r2
      /\ UNCHANGED <<now, calls, lastId, old, faults>>
  BY <1>1, <1>2, <1>3, FirstIsIn DEF Feed, At, Shut
<1>5. /\ h \in Holding /\ m \in 0..MaxTime /\ cl \in CallType /\ Knows(cl, h, m, o, r)
      /\ Placed(cl) /\ Writing(cl, h, m) /\ Fresh(cl.id, o) /\ r \subseteq 1..MaxId
      /\ lastId \in 0..MaxId
  BY <1>1 DEF Inv, Knows
<1>6. /\ cl.op = "stream" /\ ~cl.raised /\ cl.stale = {}
      /\ cl.id # 0 /\ cl.todo \subseteq Dependents /\ Main \notin cl.todo
      /\ \A u \in ReachedBy(cl) \ cl.todo : \A k \in cl.keys \ cl.raced :
            h[u][k] # Nothing /\ h[u][k].id = cl.id
      /\ \A k \in cl.keys \ cl.raced : Alive(h[Main][k], m)
  BY <1>4, <1>5, Streaming
<1>7. PICK k \in Key : cl.keys = {k}
  BY <1>4, <1>5, Streaming
<1>8. cl.val # 0 /\ (k \notin cl.raced => cl.val = cl.id)
  BY <1>4, <1>5, <1>6, <1>7 DEF Writing
<1>9. cl.val \in 1..MaxId
  BY <1>5, <1>8, Sizes DEF CallType
<1>10. t \in Target /\ t # Main /\ t \notin Fallbacks /\ Main \in Target /\ ReachedBy(cl) \subseteq Target
  BY <1>4, <1>6, Parties DEF ReachedBy
<1>11. StoresOne(h, h2, t, {k}, cl.val, m)
  <2>1. {k} \in SUBSET Key
    OBVIOUS
  <2>2. PICK v : v = cl.val
    OBVIOUS
  <2>3. StoresOne(held, h2, t, {k}, v, m)
    BY <2>1, <2>2, <1>1, <1>5, <1>7, <1>9, <1>10, PutOne
  <2> QED
    BY <2>2, <2>3, <1>1
<1>12. /\ Alters(h, h2, t, {k}) /\ h2[t][k] = [id |-> cl.val, clock |-> m]
       /\ \A u \in Target : u # t => h2[u][k] = h[u][k]
  BY <1>11 DEF StoresOne, Alters
<1>13. h2[t][k] # Nothing /\ h2[t][k].id = cl.val
  BY <1>5, <1>9, <1>12, NewIsAlive
<1>14. cl1 \in CallType
  BY <1>2, <1>5, Stepping DEF Shut, CallType
<1>15. /\ cl1.op = "stream" /\ ~cl1.raised /\ cl1.stale = {} /\ cl1.keys = {k}
       /\ cl1.step = "open" /\ cl1.id = cl.id /\ cl1.todo = cl.todo
       /\ cl1.raced = cl.raced /\ cl1.failed = cl.failed
  BY <1>2, <1>5, <1>6, <1>7 DEF Shut, CallType
<1>16. ReachedBy(cl1) = ReachedBy(cl)
  BY <1>15 DEF ReachedBy
<1>17. \A u \in ReachedBy(cl1) \ cl1.todo : \A j \in cl1.keys \ cl1.raced :
            h2[u][j] # Nothing /\ h2[u][j].id = cl1.id
  <2> SUFFICES ASSUME NEW u \in ReachedBy(cl) \ cl.todo, k \notin cl.raced
               PROVE  h2[u][k] # Nothing /\ h2[u][k].id = cl.id
    BY <1>15, <1>16
  <2>1. u # t /\ u \in Target
    BY <1>4, <1>10
  <2>2. h2[u][k] = h[u][k]
    BY <2>1, <1>12
  <2> QED
    BY <2>2, <1>6, <1>7
<1>18. \A j \in cl1.keys \ cl1.raced : Alive(h2[Main][j], m)
  BY <1>6, <1>7, <1>10, <1>12, <1>15
<1>19. Knows(cl1, h2, m, o, r2)
  <2>1. cl1.id # 0 /\ Fresh(cl1.id, o) /\ cl1.todo \subseteq Dependents /\ cl1.todo # {}
    BY <1>4, <1>5, <1>6, <1>15
  <2> QED
    BY <2>1, <1>14, <1>15, <1>17, <1>18, StreamOn
<1>20. Served(cl1, h2, m, t)
  BY <1>8, <1>13, <1>15 DEF Served
<1>21. cl2 \in CallType /\ Knows(cl2, h2, m, o, r2)
  <2>1. cl1.step \in Syncing \ {"feed"} /\ t \in cl1.todo
    BY <1>4, <1>15 DEF Syncing
  <2> QED
    BY <2>1, <1>3, <1>14, <1>19, <1>20, PastKnows
<1>22. \A j \in Key \cap {k} : \A e \in old[j] :
          h2[t][j] # Nothing /\ h2[t][j].id = e.id /\ e.id \notin redated' => h2[t][j].clock = e.clock
  <2> SUFFICES ASSUME NEW e \in o[k], e.id = cl.val, e.id \notin r2 PROVE FALSE
    BY <1>1, <1>4, <1>13
  <2>1. cl.val = cl.id
    BY <1>1
  <2> QED
    BY <2>1, <1>5 DEF Fresh
<1>23. /\ Alters(held, h2, t, {k}) /\ Knows(cl2, h2, now, old, redated')
       /\ redated \subseteq redated' /\ redated' \subseteq 1..MaxId
       /\ lastId' \in 0..MaxId /\ lastId <= lastId'
  BY <1>1, <1>4, <1>5, <1>9, <1>12, <1>21, Sizes
<1> QED
  BY <1>4, <1>10, <1>21, <1>22, <1>23, Gives
-----------------------------------------------------------------------------
(***************************************************************************)
(* gc.                                                                     *)
(***************************************************************************)

\* Whoever collects as many as it may leaves nothing, or was not starved.
LEMMA Enough ==
    ASSUME NEW D \in SUBSET Key, NEW X \in SUBSET D, NEW E \in SUBSET X,
           Cardinality(E) = Min({GcLimit, Cardinality(X)})
    PROVE  X \ E = {} \/ Cardinality(D \ (X \ E)) >= GcLimit
<1>1. IsFiniteSet(D) /\ IsFiniteSet(X) /\ IsFiniteSet(E)
  BY KeysCounted, FS_Subset
<1>2. Cardinality(X) \in Nat /\ Cardinality(E) \in Nat /\ GcLimit \in Nat
  BY <1>1, FS_CardinalityType, Sizes
<1>3. Min({GcLimit, Cardinality(X)}) \in {GcLimit, Cardinality(X)}
  <2>1. \A i, j \in Nat : \E x \in {i, j} : \A y \in {i, j} : x <= y
    BY SMT
  <2> QED
    BY <2>1, <1>2 DEF Min
<1>4. CASE Cardinality(E) = Cardinality(X)
  <2>1. X = E
    BY <1>1, <1>4, FS_Subset
  <2> QED
    BY <2>1
<1>5. CASE Cardinality(E) = GcLimit
  <2>1. PICK F : F = D \ (X \ E)
    OBVIOUS
  <2>2. IsFiniteSet(F) /\ E \in SUBSET F
    BY <2>1, <1>1, FS_Subset
  <2>3. Cardinality(E) <= Cardinality(F)
    BY <2>2, FS_Subset
  <2> QED
    BY <2>1, <2>3, <1>5
<1> QED
  BY <1>3, <1>4, <1>5

LEMMA CollectableKeys ==
    ASSUME NEW t, NEW E \in Collectable(t)
    PROVE  /\ E \in SUBSET Key /\ E \in SUBSET RunOutKeys(held, t, now)
           /\ Cardinality(E) = Min({GcLimit, Cardinality(RunOutKeys(held, t, now))})
BY JudgedKeys DEF Collectable, RunOutKeys

LEMMA OnlyCollects ==
    ASSUME NEW h, NEW m, NEW o, NEW r, NEW cl \in CallType, cl.op = "gc", Placed(cl),
           Fresh(cl.id, o), Collecting(cl, h, m)
    PROVE  Knows(cl, h, m, o, r)
BY DEF Knows, Writing, Grouping, Reading, Filling

\* The call after the authority collected keys E.
Collected(cl, cl2, E) ==
    cl2 = [cl EXCEPT !.stale = E, !.todo = Dependents, !.step = IF E = {} THEN "collect" ELSE "forget"]

LEMMA GcKnows ==
    ASSUME NEW h, NEW m, NEW o, NEW r, NEW cl \in CallType, Knows(cl, h, m, o, r), cl.step = "gc",
           NEW E \in SUBSET RunOutKeys(h, Main, m),
           Cardinality(E) = Min({GcLimit, Cardinality(RunOutKeys(h, Main, m))}),
           NEW h2, Removed(h, m, h2, Main, E), NEW cl2, Collected(cl, cl2, E)
    PROVE  cl2 \in CallType /\ Knows(cl2, h2, m, o, r)
<1>1. Placed(cl) /\ Fresh(cl.id, o) /\ Collecting(cl, h, m)
  BY DEF Knows
<1>2. cl.op = "gc" /\ ~cl.raised
  BY <1>1, StepOps
<1>3. PICK st : st = IF E = {} THEN "collect" ELSE "forget"
  OBVIOUS
<1>4. st \in AllSteps /\ E \in SUBSET Key /\ Dependents \in SUBSET Target
  BY <1>3, Stepping, Parties DEF RunOutKeys
<1>5. cl2 = [cl EXCEPT !.stale = E, !.todo = Dependents, !.step = st]
  BY <1>3 DEF Collected
<1>6. cl2 \in CallType
  BY <1>4, <1>5 DEF CallType
<1>7. /\ cl2.op = "gc" /\ ~cl2.raised /\ cl2.step = st /\ cl2.stale = E /\ cl2.todo = Dependents
      /\ cl2.id = cl.id /\ cl2.due = cl.due /\ cl2.raced = cl.raced
  BY <1>2, <1>5 DEF CallType
<1>8. Placed(cl2)
  BY <1>3, <1>7, Parties DEF Placed
<1>9. /\ \A k \in E : h2[Main][k] = Nothing
      /\ RunOutKeys(h2, Main, m) = RunOutKeys(h, Main, m) \ E
      /\ \A u \in Target : u # Main => RunOutKeys(h2, u, m) = RunOutKeys(h, u, m)
  BY DEF Removed
<1>10. ReachedBy(cl2) \ cl2.todo = {Main}
  BY <1>7, Parties DEF ReachedBy
<1>11. (st = "forget" => Forgetting(cl2) = {Main}) /\ CollectedBy(cl2) = {Main}
  BY <1>3, <1>7, <1>10 DEF Forgetting, CollectedBy
<1>12. /\ cl.due \in [Target -> SUBSET Key]
       /\ cl.raced = {} => \A t \in Target : RunOutKeys(h, t, m) \subseteq cl.due[t]
  BY <1>1, <1>2 DEF Collecting
<1>13. \A k \in E : st = "forget"
  BY <1>3
<1>14. cl.raced = {} => \/ RunOutKeys(h2, Main, m) = {}
                        \/ Cardinality(cl.due[Main] \ RunOutKeys(h2, Main, m)) >= GcLimit
  <2> SUFFICES ASSUME cl.raced = {}
               PROVE  \/ RunOutKeys(h2, Main, m) = {}
                      \/ Cardinality(cl.due[Main] \ RunOutKeys(h2, Main, m)) >= GcLimit
    OBVIOUS
  <2>1. PICK D, X : D = cl.due[Main] /\ X = RunOutKeys(h, Main, m)
    OBVIOUS
  <2>2. D \in SUBSET Key /\ X \in SUBSET D /\ E \in SUBSET X
    BY <2>1, <1>12, Parties
  <2>3. X \ E = {} \/ Cardinality(D \ (X \ E)) >= GcLimit
    BY <2>1, <2>2, Enough
  <2> QED
    BY <2>1, <2>3, <1>9
<1>15. cl.raced = {} => \A t \in Target : RunOutKeys(h2, t, m) \subseteq cl.due[t]
  BY <1>9, <1>12
<1>16. Collecting(cl2, h2, m)
  BY <1>7, <1>9, <1>11, <1>12, <1>13, <1>14, <1>15 DEF Collecting
<1> QED
  BY <1>1, <1>6, <1>7, <1>8, <1>16, OnlyCollects

LEMMA GcKeeps == ASSUME Inv, NEW c \in Client, NEW E, Gc(c, E) PROVE Inv'
<1>1. PICK h, m, o, r, cl, h2 :
        h = held /\ m = now /\ o = old /\ r = redated /\ cl = call[c] /\ h2 = Without(Main, E)
  OBVIOUS
<1>2. PICK cl2 : Collected(cl, cl2, E)
  BY DEF Collected
<1>3. cl.step = "gc" /\ E \in Collectable(Main) /\ Becomes(c, h2, cl2) /\ Still
  BY <1>1, <1>2 DEF Gc, At, Collected
<1>4. /\ held \in Holding /\ cl \in CallType /\ Knows(cl, h, m, o, r) /\ Main \in Target
      /\ faults \in 0..MaxFaults /\ calls \in [Client -> 0..MaxCalls]
  BY <1>1, Parties DEF Inv
<1>5. /\ E \in SUBSET Key /\ E \in SUBSET RunOutKeys(h, Main, m)
      /\ Cardinality(E) = Min({GcLimit, Cardinality(RunOutKeys(h, Main, m))})
  BY <1>1, <1>3, CollectableKeys
<1>6. Removed(h, m, h2, Main, E)
  <2>1. Drops(h, h2, Main, E)
    BY <1>1, <1>4, <1>5, WithoutDrops
  <2> QED
    BY <2>1, <1>4, Removal
<1>7. cl2 \in CallType /\ Knows(cl2, h2, m, o, r)
  BY <1>2, <1>3, <1>4, <1>5, <1>6, GcKnows
<1>8. /\ h2 \in Holding /\ Knows(cl2, h2, now, old, redated)
      /\ \A u \in Target, k \in Key : h2[u][k] \in {held[u][k], Nothing}
  BY <1>1, <1>6, <1>7 DEF Removed
<1> QED
  BY <1>3, <1>4, <1>7, <1>8, Loses DEF Still

LEMMA CollectKnows ==
    ASSUME NEW h, NEW m, NEW o, NEW r, NEW cl \in CallType, Knows(cl, h, m, o, r),
           cl.step = "collect", NEW t \in cl.todo, NEW E \in SUBSET RunOutKeys(h, t, m),
           Cardinality(E) = Min({GcLimit, Cardinality(RunOutKeys(h, t, m))}),
           NEW h2, Removed(h, m, h2, t, E)
    PROVE  Knows(cl, h2, m, o, r) /\ Served(cl, h2, m, t)
<1>1. Placed(cl) /\ Fresh(cl.id, o) /\ Collecting(cl, h, m)
  BY DEF Knows
<1>2. cl.op = "gc" /\ ~cl.raised /\ t \in Target
  BY <1>1, StepOps DEF CallType
<1>3. /\ \A u \in Target, k \in Key : h2[u][k] \in {h[u][k], Nothing}
      /\ RunOutKeys(h2, t, m) = RunOutKeys(h, t, m) \ E
      /\ \A u \in Target : u # t => RunOutKeys(h2, u, m) = RunOutKeys(h, u, m)
  BY DEF Removed
<1>4. /\ cl.due \in [Target -> SUBSET Key]
      /\ \A u \in Forgetting(cl) : \A k \in cl.stale \ cl.raced : h[u][k] = Nothing
      /\ cl.raced = {} => \A u \in Target : RunOutKeys(h, u, m) \subseteq cl.due[u]
      /\ cl.raced = {} =>
           \A u \in CollectedBy(cl) :
              \/ RunOutKeys(h, u, m) = {}
              \/ Cardinality(cl.due[u] \ RunOutKeys(h, u, m)) >= GcLimit
  BY <1>1, <1>2 DEF Collecting
<1>5. /\ Forgetting(cl) \subseteq Target /\ CollectedBy(cl) \subseteq Target /\ t \notin CollectedBy(cl)
  BY Parties DEF Forgetting, CollectedBy, ReachedBy
<1>6. cl.stale \subseteq Key
  BY DEF CallType
<1>7. \A u \in Forgetting(cl) : \A k \in cl.stale \ cl.raced : h2[u][k] = Nothing
  BY <1>3, <1>4, <1>5, <1>6
<1>8. cl.raced = {} => \A u \in Target : RunOutKeys(h2, u, m) \subseteq cl.due[u]
  BY <1>2, <1>3, <1>4
<1>9. cl.raced = {} =>
        \A u \in CollectedBy(cl) :
              \/ RunOutKeys(h2, u, m) = {}
              \/ Cardinality(cl.due[u] \ RunOutKeys(h2, u, m)) >= GcLimit
  <2> SUFFICES ASSUME cl.raced = {}, NEW u \in CollectedBy(cl)
               PROVE  \/ RunOutKeys(h2, u, m) = {}
                      \/ Cardinality(cl.due[u] \ RunOutKeys(h2, u, m)) >= GcLimit
    OBVIOUS
  <2>1. RunOutKeys(h2, u, m) = RunOutKeys(h, u, m)
    BY <1>3, <1>5
  <2> QED
    BY <2>1, <1>4
<1>10. Collecting(cl, h2, m)
  BY <1>2, <1>4, <1>7, <1>8, <1>9 DEF Collecting
<1>11. cl.raced = {} => \/ RunOutKeys(h2, t, m) = {}
                        \/ Cardinality(cl.due[t] \ RunOutKeys(h2, t, m)) >= GcLimit
  <2> SUFFICES ASSUME cl.raced = {}
               PROVE  \/ RunOutKeys(h2, t, m) = {}
                      \/ Cardinality(cl.due[t] \ RunOutKeys(h2, t, m)) >= GcLimit
    OBVIOUS
  <2>1. PICK D, X : D = cl.due[t] /\ X = RunOutKeys(h, t, m)
    OBVIOUS
  <2>2. D \in SUBSET Key /\ X \in SUBSET D /\ E \in SUBSET X
    BY <2>1, <1>2, <1>4
  <2>3. X \ E = {} \/ Cardinality(D \ (X \ E)) >= GcLimit
    BY <2>1, <2>2, Enough
  <2> QED
    BY <2>1, <2>3, <1>3
<1>12. Served(cl, h2, m, t)
  BY <1>2, <1>11 DEF Served
<1> QED
  BY <1>1, <1>2, <1>10, <1>12, OnlyCollects

LEMMA CollectKeeps ==
    ASSUME Inv, NEW c \in Client, NEW t \in Target, NEW E, Collect(c, t, E) PROVE Inv'
<1>1. PICK h, m, o, r, cl, h2, cl2 :
        /\ h = held /\ m = now /\ o = old /\ r = redated /\ cl = call[c] /\ h2 = Without(t, E)
        /\ cl2 = Past(cl, t)
  OBVIOUS
<1>3. /\ cl.step = "collect" /\ t \in cl.todo /\ E \in Collectable(t)
      /\ Becomes(c, h2, cl2) /\ Still
  BY <1>1, FirstIsIn DEF Collect, At
<1>4. /\ held \in Holding /\ cl \in CallType /\ Knows(cl, h, m, o, r)
      /\ faults \in 0..MaxFaults /\ calls \in [Client -> 0..MaxCalls]
  BY <1>1 DEF Inv
<1>5. /\ E \in SUBSET Key /\ E \in SUBSET RunOutKeys(h, t, m)
      /\ Cardinality(E) = Min({GcLimit, Cardinality(RunOutKeys(h, t, m))})
  BY <1>1, <1>3, CollectableKeys
<1>6. Removed(h, m, h2, t, E)
  <2>1. Drops(h, h2, t, E)
    BY <1>1, <1>4, <1>5, WithoutDrops
  <2> QED
    BY <2>1, <1>4, Removal
<1>7. Knows(cl, h2, m, o, r) /\ Served(cl, h2, m, t)
  BY <1>3, <1>4, <1>5, <1>6, CollectKnows
<1>8. cl2 \in CallType /\ Knows(cl2, h2, m, o, r)
  <2>1. cl.step \in Syncing \ {"feed"}
    BY <1>3 DEF Syncing
  <2> QED
    BY <2>1, <1>1, <1>3, <1>4, <1>7, PastKnows
<1>9. /\ h2 \in Holding /\ Knows(cl2, h2, now, old, redated)
      /\ \A u \in Target, k \in Key : h2[u][k] \in {held[u][k], Nothing}
  BY <1>1, <1>6, <1>8 DEF Removed
<1> QED
  BY <1>3, <1>4, <1>8, <1>9, Loses DEF Still
-----------------------------------------------------------------------------
(***************************************************************************)
(* The orders a fill_missing goes by: fallbacks by rank, keys by number.   *)
(***************************************************************************)
LEMMA LeastIn == ASSUME NEW S \in SUBSET Nat, S # {} PROVE \E n \in S : \A i \in S : n <= i
<1>1. PICK R : R = OpToRel(<, Nat)
  OBVIOUS
<1>2. IsWellFoundedOn(R, Nat)
  BY <1>1, NatLessThanWellFounded
<1>3. PICK n \in S : \A i \in S : <<i, n>> \notin R
  BY <1>2, WFMin
<1>4. \A i \in Nat : i < n => <<i, n>> \in R
  BY <1>1 DEF OpToRel
<1>5. \A i \in S : i \in Nat /\ n \in Nat /\ ~(i < n)
  BY <1>3, <1>4
<1>6. \A i \in S : n <= i
  BY <1>5
<1> QED
  BY <1>6

LEMMA GreatestIn ==
    ASSUME NEW S \in SUBSET Nat, IsFiniteSet(S), S # {} PROVE \E n \in S : \A i \in S : n >= i
<1> DEFINE Above(n) == {j \in S : j > n}
           Sized == {Cardinality(Above(n)) : n \in S}
<1>1. \A n \in S : IsFiniteSet(Above(n)) /\ Cardinality(Above(n)) \in Nat
  <2> SUFFICES ASSUME NEW n \in S PROVE IsFiniteSet(Above(n)) /\ Cardinality(Above(n)) \in Nat
    OBVIOUS
  <2>1. Above(n) \in SUBSET S
    OBVIOUS
  <2>2. IsFiniteSet(Above(n))
    BY <2>1, FS_Subset
  <2> QED
    BY <2>2, FS_CardinalityType
<1>2. Sized \in SUBSET Nat /\ Sized # {}
  BY <1>1
<1>3. PICK x \in Sized : \A y \in Sized : x <= y
  BY <1>2, LeastIn
<1>4. PICK n \in S : x = Cardinality(Above(n))
  OBVIOUS
<1>5. ASSUME NEW m \in S, m > n PROVE FALSE
  <2>1. PICK A, B : A = Above(n) /\ B = Above(m)
    OBVIOUS
  <2>2. B \in SUBSET A /\ A # B
    <3>1. n \in Nat /\ m \in Nat /\ m > n
      BY <1>5
    <3>2. \A j \in S : j \in Nat /\ (j > m => j > n)
      BY <3>1
    <3>3. m \in A /\ m \notin B
      BY <2>1, <3>1
    <3> QED
      BY <2>1, <3>2, <3>3
  <2>3. IsFiniteSet(A) /\ Cardinality(A) \in Nat /\ Cardinality(B) \in Nat
    BY <2>1, <1>1
  <2>4. Cardinality(B) <= Cardinality(A) /\ Cardinality(A) # Cardinality(B)
    BY <2>2, <2>3, FS_Subset
  <2>5. Cardinality(A) <= Cardinality(B)
    BY <2>1, <1>3, <1>4
  <2> QED
    BY <2>3, <2>4, <2>5
<1> QED
  BY <1>5

\* Before is a strict total order of the targets.
Sooner(s, t) ==
    LookupRank[s] < LookupRank[t] \/ (LookupRank[s] = LookupRank[t] /\ Position[s] < Position[t])

LEMMA Ranked ==
    ASSUME NEW s \in Target
    PROVE  LookupRank[s] \in Nat /\ Position[s] \in Nat
BY PlacementAssumption DEF WellPlaced, LookupRank

LEMMA BeforeIsSooner == ASSUME NEW s \in Target, NEW t \in Target PROVE Before(s, t) <=> Sooner(s, t)
<1>1. Position[s] = Position[t] => s = t
  BY PlacementAssumption DEF WellPlaced
<1>2. s \in First({s, t}, LookupRank) <=>
        \/ LookupRank[s] < LookupRank[t]
        \/ LookupRank[s] = LookupRank[t] /\ Position[s] <= Position[t]
  <2>1. PICK rank : rank = LookupRank
    OBVIOUS
  <2>2. rank[s] \in Nat /\ rank[t] \in Nat /\ Position[s] \in Nat /\ Position[t] \in Nat
    BY <2>1, Ranked
  <2>3. s \in First({s, t}, rank) <=>
          \A u \in {s, t} : rank[s] < rank[u] \/ (rank[s] = rank[u] /\ Position[s] <= Position[u])
    BY DEF First
  <2>4. rank[s] = rank[s] /\ Position[s] <= Position[s]
    BY <2>2
  <2> QED
    BY <2>1, <2>3, <2>4
<1>3. PICK a, b, p, q : /\ a = LookupRank[s] /\ b = LookupRank[t]
                        /\ p = Position[s] /\ q = Position[t]
  OBVIOUS
<1>4. a \in Nat /\ b \in Nat /\ p \in Nat /\ q \in Nat
  BY <1>3, Ranked
<1>5. s = t => a = b /\ p = q
  BY <1>3
<1>6. s # t => p # q
  BY <1>1, <1>3
<1>7. Before(s, t) <=> s # t /\ (a < b \/ (a = b /\ p <= q))
  BY <1>2, <1>3 DEF Before
<1>8. Sooner(s, t) <=> a < b \/ (a = b /\ p < q)
  BY <1>3 DEF Sooner
<1>9. CASE s = t
  BY <1>4, <1>5, <1>7, <1>8, <1>9
<1>10. CASE s # t
  BY <1>4, <1>6, <1>7, <1>8, <1>10
<1> QED
  BY <1>9, <1>10

LEMMA BeforeOrders ==
    /\ \A s \in Target : ~Before(s, s)
    /\ \A s, t \in Target : s = t \/ Before(s, t) \/ Before(t, s)
    /\ \A s, t, u \in Target : Before(s, t) /\ Before(t, u) => Before(s, u)
<1>1. \A s, t \in Target : Before(s, t) <=> Sooner(s, t)
  BY BeforeIsSooner
<1>2. \A s, t \in Target : Position[s] = Position[t] => s = t
  BY PlacementAssumption DEF WellPlaced
<1>3. ASSUME NEW s \in Target PROVE ~Sooner(s, s)
  <2>1. PICK a, p : a = LookupRank[s] /\ p = Position[s]
    OBVIOUS
  <2>2. a \in Nat /\ p \in Nat
    BY <2>1, Ranked
  <2>3. Sooner(s, s) => a < a \/ p < p
    BY <2>1 DEF Sooner
  <2> QED
    BY <2>2, <2>3
<1>4. ASSUME NEW s \in Target, NEW t \in Target, s # t PROVE Sooner(s, t) \/ Sooner(t, s)
  <2>1. PICK a, b, p, q : /\ a = LookupRank[s] /\ b = LookupRank[t]
                          /\ p = Position[s] /\ q = Position[t]
    OBVIOUS
  <2>2. a \in Nat /\ b \in Nat /\ p \in Nat /\ q \in Nat
    BY <2>1, Ranked
  <2>3. p # q
    BY <1>2, <1>4, <2>1
  <2>4. /\ Sooner(s, t) <=> a < b \/ (a = b /\ p < q)
        /\ Sooner(t, s) <=> b < a \/ (b = a /\ q < p)
    BY <2>1 DEF Sooner
  <2> QED
    BY <2>2, <2>3, <2>4
<1>5. ASSUME NEW s \in Target, NEW t \in Target, NEW u \in Target, Sooner(s, t), Sooner(t, u)
      PROVE  Sooner(s, u)
  <2>1. PICK a, b, d, p, q, x : /\ a = LookupRank[s] /\ b = LookupRank[t] /\ d = LookupRank[u]
                                /\ p = Position[s] /\ q = Position[t] /\ x = Position[u]
    OBVIOUS
  <2>2. {a, b, d, p, q, x} \subseteq Nat
    BY <2>1, Ranked
  <2>3. /\ a < b \/ (a = b /\ p < q)
        /\ b < d \/ (b = d /\ q < x)
    BY <1>5, <2>1 DEF Sooner
  <2>4. a < d \/ (a = d /\ p < x)
    BY <2>2, <2>3
  <2> QED
    BY <2>1, <2>4 DEF Sooner
<1> QED
  BY <1>1, <1>3, <1>4, <1>5

\* Some target of a set comes first, before all the others.
LEMMA FirstExists ==
    ASSUME NEW S \in SUBSET Target, S # {}
    PROVE  \E f \in S : First(S, LookupRank) = {f} /\ \A g \in S : g = f \/ Before(f, g)
<1> DEFINE ranks == {LookupRank[s] : s \in S}
<1>1. ranks \in SUBSET Nat /\ ranks # {}
  BY Ranked
<1>2. PICK a \in ranks : \A x \in ranks : a <= x
  BY <1>1, LeastIn
<1> DEFINE T == {s \in S : LookupRank[s] = a}
           places == {Position[s] : s \in T}
<1>3. places \in SUBSET Nat /\ places # {}
  BY <1>2, Ranked
<1>4. PICK b \in places : \A x \in places : b <= x
  BY <1>3, LeastIn
<1>5. PICK f \in S : LookupRank[f] = a /\ Position[f] = b
  BY <1>4
<1>6. \A g \in S : g = f \/ Sooner(f, g)
  <2> SUFFICES ASSUME NEW g \in S PROVE g = f \/ Sooner(f, g)
    OBVIOUS
  <2>1. LookupRank[f] <= LookupRank[g] /\ (LookupRank[f] = LookupRank[g] => Position[f] <= Position[g])
    BY <1>2, <1>4, <1>5
  <2>2. Position[f] = Position[g] => f = g
    BY PlacementAssumption DEF WellPlaced
  <2> QED
    BY <2>1, <2>2, Ranked DEF Sooner
<1>7. \A g \in S : g = f \/ Before(f, g)
  BY <1>6, BeforeIsSooner
<1>8. First(S, LookupRank) = {f}
  <2>1. f \in First(S, LookupRank)
    BY <1>6, Ranked DEF First, Sooner
  <2>2. ASSUME NEW g \in First(S, LookupRank) PROVE g = f
    BY <2>2, <1>6, Ranked DEF First, Sooner
  <2> QED
    BY <2>1, <2>2
<1> QED
  BY <1>7, <1>8

-----------------------------------------------------------------------------
(***************************************************************************)
(* fill_missing: its beginning.                                            *)
(***************************************************************************)
LEMMA OnlyFills ==
    ASSUME NEW h, NEW m, NEW o, NEW r, NEW cl \in CallType, cl.op = "fill", Placed(cl),
           Fresh(cl.id, o), Filling(cl, h, m, o, r)
    PROVE  Knows(cl, h, m, o, r)
BY DEF Knows, Writing, Grouping, Collecting, Reading

\* Who has a key to give when the call begins.
OwnerOf(h, m, k) ==
    IF k \in AliveKeys(h, Main, m) THEN {Main}
    ELSE First({t \in Older : k \in AliveKeys(h, t, m)}, LookupRank)

LEMMA OwedAtFirst ==
    ASSUME NEW h, NEW m, NEW k \in Key, NEW f \in OwnerOf(h, m, k),
           NEW cl, cl.step = IF Older = {} THEN "done" ELSE "page", cl.after = 0,
           cl.src = First(Older, LookupRank)
    PROVE  Owed(cl, h, m, k, f) /\ f \in Target
<1> DEFINE able == {t \in Older : k \in AliveKeys(h, t, m)}
<1>1. /\ Older \subseteq Target /\ Main \notin Older /\ Main \in Target
  BY Parties
<1>2. CASE k \in AliveKeys(h, Main, m)
  BY <1>1, <1>2 DEF OwnerOf, Owed, AliveKeys
<1>3. CASE k \notin AliveKeys(h, Main, m)
  <2>1. f \in First(able, LookupRank) /\ f \in able
    BY <1>3, FirstIsIn DEF OwnerOf
  <2>2. able # {} /\ able \in SUBSET Target
    BY <1>1, <2>1
  <2>3. PICK f1 \in able : First(able, LookupRank) = {f1} /\ \A g \in able : g = f1 \/ Before(f1, g)
    <3> HIDE DEF able
    <3> QED
      BY <2>2, FirstExists
  <2>4. f1 = f
    BY <2>1, <2>3
  <2>5. \A g \in Older : Before(g, f) => g \notin able
    BY <1>1, <2>1, <2>3, <2>4, BeforeOrders
  <2>6. PICK f0 \in Older : First(Older, LookupRank) = {f0} /\ \A g \in Older : g = f0 \/ Before(f0, g)
    BY <1>1, <2>1, FirstExists
  <2>7. f \in Older /\ f # Main /\ Alive(h[f][k], m) /\ ~Alive(h[Main][k], m)
    BY <1>1, <1>3, <2>1 DEF AliveKeys
  <2>8. k > 0
    BY KeysCounted
  <2>9. ToCome(cl, k, f)
    BY <2>6, <2>7, <2>8 DEF ToCome
  <2>10. \A g \in Older : Before(g, f) => ~Alive(h[g][k], m)
    BY <2>5 DEF AliveKeys
  <2> QED
    BY <1>1, <2>7, <2>9, <2>10 DEF Owed
<1> QED
  BY <1>2, <1>3

LEMMA StartFilling ==
    ASSUME Inv, NEW c \in Client, NEW size \in Nat \ {0}, NEW limit \in Nat \ {0},
           StartFill(c, size, limit)
    PROVE  Inv'
<1>1. PICK h, m, o, r, step, src, due :
        /\ h = held /\ m = now /\ o = old /\ r = redated
        /\ step = (IF Older = {} THEN "done" ELSE "page") /\ src = First(Older, LookupRank)
        /\ due = [k \in Key |-> OwnerOf(h, m, k)]
  OBVIOUS
<1>2. PICK cl : cl = [Idle EXCEPT !.step = step, !.size = size, !.limit = limit, !.src = src,
                                  !.due = due]
  OBVIOUS
<1>3. PICK cl2 : cl2 = [cl EXCEPT !.op = "fill"]
  OBVIOUS
<1>4. src \in SUBSET Target /\ step \in AllSteps
  BY <1>1, FirstIsIn, Parties, Stepping
<1>5. ASSUME NEW k \in Key, NEW f \in OwnerOf(h, m, k) PROVE f \in Target
  <2>1. {t \in Older : k \in AliveKeys(h, t, m)} \subseteq Target /\ Main \in Target
    BY Parties
  <2>2. First({t \in Older : k \in AliveKeys(h, t, m)}, LookupRank) \subseteq Target
    BY <2>1, FirstIsIn
  <2> QED
    BY <2>1, <2>2, <1>5 DEF OwnerOf
<1>6. due \in [Key -> SUBSET Target] /\ due \in Due
  BY <1>1, <1>5 DEF Due
<1>7. cl \in CallType
  BY <1>2, <1>4, <1>6, IdleTyped DEF CallType
<1>8. cl2 \in CallType
  BY <1>3, <1>7, Operating DEF CallType
<1>9. /\ cl2.op = "fill" /\ cl2.step = step /\ cl2.size = size /\ cl2.limit = limit
      /\ cl2.src = src /\ cl2.due = due /\ cl2.id = 0 /\ ~cl2.raised /\ cl2.n = Counts
      /\ cl2.mine = {} /\ cl2.unfair = {} /\ cl2.met = {} /\ cl2.raced = {} /\ cl2.after = 0
  BY <1>2, <1>3 DEF Idle
<1>10. step \in {"done", "page"}
  BY <1>1
<1>11. Placed(cl2)
  BY <1>9, <1>10 DEF Placed, Syncing
<1>12. Fresh(0, old)
  BY FreshZero DEF Inv
<1>13. Filling(cl2, h, m, o, r)
  <2>1. cl2.step # "done" => \E f \in Older : cl2.src = {f}
    BY <1>1, <1>9, FirstExists, Parties
  <2>2. Checking(cl2) /\ FoundOld(cl2, h, o, r) /\ StillThere(cl2, h, m)
    BY <1>9, <1>10 DEF Checking, FoundOld, StillThere, Reported, Paging
  <2>3. Accounts(cl2, h)
    BY <1>9, <1>10, FS_EmptySet DEF Accounts, Paging, Counts
  <2>4. ASSUME NEW k \in Key, NEW f \in cl2.due[k] PROVE Owed(cl2, h, m, k, f)
    <3>1. f \in OwnerOf(h, m, k)
      BY <2>4, <1>1, <1>9
    <3> QED
      BY <3>1, <1>1, <1>9, OwedAtFirst
  <2> QED
    BY <1>6, <1>9, <2>1, <2>2, <2>3, <2>4 DEF Filling
<1>14. Knows(cl2, held, now, old, redated)
  BY <1>1, <1>8, <1>9, <1>11, <1>12, <1>13, OnlyFills
<1>15. Begun(c, cl2)
  <2>1. due = [k \in Key |-> IF k \in LiveKeys(Main) THEN {Main}
                             ELSE First({t \in Older : k \in LiveKeys(t)}, LookupRank)]
    <3>1. \A t : LiveKeys(t) = AliveKeys(h, t, m)
      BY <1>1, JudgedKeys
    <3>2. \A k \in Key : OwnerOf(h, m, k) = IF k \in LiveKeys(Main) THEN {Main}
                             ELSE First({t \in Older : k \in LiveKeys(t)}, LookupRank)
      BY <3>1 DEF OwnerOf
    <3> QED
      BY <3>2, <1>1
  <2> QED
    BY <2>1, <1>1, <1>2, <1>3 DEF StartFill, Begin, Goes, Begun
<1> QED
  BY <1>8, <1>14, <1>15, Begins

-----------------------------------------------------------------------------
(***************************************************************************)
(* fill_missing: a page of a fallback.                                     *)
(***************************************************************************)
LEMMA AtFallback ==
    ASSUME NEW h, NEW m, NEW o, NEW r, NEW cl \in CallType, Knows(cl, h, m, o, r),
           cl.step \in Paging \cup {"page"}
    PROVE  /\ cl.op = "fill" /\ ~cl.raised /\ Placed(cl) /\ Fresh(cl.id, o)
           /\ \E f \in Older : cl.src = {f}
           /\ cl.due \in [Key -> SUBSET Target] /\ cl.size # 0 /\ cl.limit # 0
           /\ Checking(cl) /\ FoundOld(cl, h, o, r) /\ Accounts(cl, h) /\ StillThere(cl, h, m)
           /\ \A k \in Key \ cl.raced : \A f \in cl.due[k] : Owed(cl, h, m, k, f)
<1>1. Placed(cl) /\ Fresh(cl.id, o) /\ Filling(cl, h, m, o, r)
  BY DEF Knows
<1>2. cl.op = "fill" /\ ~cl.raised /\ cl.step # "done"
  BY <1>1, StepOps DEF Paging
<1> QED
  BY <1>1, <1>2 DEF Filling

LEMMA AheadTyped ==
    ASSUME NEW f \in Target
    PROVE  Ahead(f) \in SUBSET Target /\ Main \in Ahead(f)
BY Parties DEF Ahead

\* The keys of target f after one of them, and the first of these.
LaterKeys(h, m, f, after) == {k \in AliveKeys(h, f, m) : k > after}
PageOf(h, m, f, after, size) ==
    {k \in LaterKeys(h, m, f, after) : Cardinality({j \in LaterKeys(h, m, f, after) : j < k}) < size}

LEMMA PageIsFirst ==
    ASSUME NEW h, NEW m, NEW f, NEW after \in Nat, NEW size \in Nat, size # 0,
           NEW keys, keys = PageOf(h, m, f, after, size)
    PROVE  /\ keys \in SUBSET Key /\ \A k \in keys : Alive(h[f][k], m) /\ k > after
           /\ keys = {} => \A k \in Key : Alive(h[f][k], m) => ~(k > after)
           /\ keys # {} =>
                /\ Max(keys) \in keys
                /\ \A k \in Key : Alive(h[f][k], m) /\ k > after => k \in keys \/ k > Max(keys)
<1>1. PICK later : later = LaterKeys(h, m, f, after)
  OBVIOUS
<1>2. /\ later \in SUBSET Key /\ later \in SUBSET Nat
      /\ \A k \in Key : k \in later <=> Alive(h[f][k], m) /\ k > after
  BY <1>1, KeysCounted DEF LaterKeys, AliveKeys
<1>3. keys = {k \in later : Cardinality({j \in later : j < k}) < size}
  BY <1>1 DEF PageOf
<1>4. IsFiniteSet(later) /\ \A S \in SUBSET later : IsFiniteSet(S) /\ Cardinality(S) \in Nat
  BY <1>2, KeysCounted, FS_Subset, FS_CardinalityType
<1>5. ASSUME keys = {}, later # {} PROVE FALSE
  <2>1. PICK n \in later : \A i \in later : n <= i
    BY <1>2, <1>5, LeastIn
  <2>2. {j \in later : j < n} = {}
    <3>1. \A j \in later : j \in Nat /\ n \in Nat /\ n <= j
      BY <2>1, <1>2
    <3>2. \A j \in later : ~(j < n)
      BY <3>1
    <3> QED
      BY <3>2
  <2>3. Cardinality({j \in later : j < n}) = 0
    BY <2>2, FS_EmptySet
  <2> QED
    BY <2>1, <2>3, <1>3, <1>5
<1>6. ASSUME keys # {}
      PROVE  Max(keys) \in keys /\ \A k \in later : k \in keys \/ k > Max(keys)
  <2>1. keys \in SUBSET Nat /\ IsFiniteSet(keys)
    BY <1>2, <1>3, <1>4
  <2>2. PICK x \in keys : \A i \in keys : x >= i
    BY <2>1, <1>6, GreatestIn
  <2>3. Max(keys) \in keys /\ \A i \in keys : Max(keys) >= i
    BY <2>2 DEF Max
  <2>4. PICK y : y = Max(keys)
    OBVIOUS
  <2>5. ASSUME NEW k \in later, k \notin keys, ~(k > y) PROVE FALSE
    <3>1. PICK A, B : A = {j \in later : j < k} /\ B = {j \in later : j < y}
      OBVIOUS
    <3>2. y \in later /\ Cardinality(B) < size
      BY <3>1, <2>3, <2>4, <1>3
    <3>3. y \in Nat /\ k \in Nat /\ k <= y
      BY <3>2, <2>5, <1>2
    <3>4. A \subseteq B
      <4>1. \A j \in later : j \in Nat
        BY <1>2
      <4>2. \A j \in later : j < k => j < y
        BY <4>1, <3>3
      <4> QED
        BY <4>2, <3>1
    <3>5. B \in SUBSET later /\ A \in SUBSET later
      BY <3>1
    <3>6. IsFiniteSet(B) /\ Cardinality(A) \in Nat /\ Cardinality(B) \in Nat
      BY <3>5, <1>4
    <3>7. Cardinality(A) <= Cardinality(B)
      BY <3>4, <3>6, FS_Subset
    <3>8. Cardinality(A) < size
      BY <3>2, <3>6, <3>7
    <3>9. ~(Cardinality(A) < size)
      BY <3>1, <2>5, <1>3
    <3> QED
      BY <3>8, <3>9
  <2> QED
    BY <2>3, <2>4, <2>5
<1> QED
  BY <1>2, <1>3, <1>5, <1>6

\* The call when a fallback has no more keys, and when it listed a page of them.
Skipped(cl, cl2, src) ==
    cl2 = [cl EXCEPT !.found = <<>>, !.clocks = <<>>, !.page = {}, !.want = {}, !.src = src,
                     !.after = 0, !.step = IF src = {} THEN "done" ELSE "page"]
Paged(cl, cl2, keys, todo) ==
    cl2 = [cl EXCEPT !.found = <<>>, !.clocks = <<>>, !.page = keys, !.want = keys,
                     !.after = Max(keys), !.step = "check", !.todo = todo, !.met = {}]

LEMMA PageToCome ==
    ASSUME NEW cl, cl.step = "page", NEW f, cl.src = {f}, NEW k, NEW g, ToCome(cl, k, g)
    PROVE  Before(f, g) \/ (g = f /\ k > cl.after)
<1>1. cl.step # "done" /\ cl.step \notin {"check", "get"} /\ cl.step \notin Reported
  BY DEF Reported
<1>2. \E s \in cl.src : Before(s, g) \/ (s = g /\ k > cl.after)
  BY <1>1 DEF ToCome
<1> QED
  BY <1>2

LEMMA SkipKnows ==
    ASSUME NEW h, NEW m, NEW o, NEW r, NEW cl \in CallType, Knows(cl, h, m, o, r),
           cl.step = "page", NEW f \in cl.src, PageOf(h, m, f, cl.after, cl.size) = {},
           NEW src, src = NextFallback(f), NEW cl2, Skipped(cl, cl2, src)
    PROVE  cl2 \in CallType /\ Knows(cl2, h, m, o, r)
<1>1. /\ cl.op = "fill" /\ ~cl.raised /\ Placed(cl) /\ Fresh(cl.id, o)
      /\ \E g \in Older : cl.src = {g}
      /\ cl.due \in [Key -> SUBSET Target] /\ cl.size # 0 /\ cl.limit # 0 /\ Accounts(cl, h)
      /\ \A k \in Key \ cl.raced : \A g \in cl.due[k] : Owed(cl, h, m, k, g)
  BY AtFallback
<1>2. cl.src = {f} /\ f \in Older /\ Older \subseteq Target
  BY <1>1, Parties
<1>3. src \in SUBSET Target
  <2>1. {t \in Older : Before(f, t)} \subseteq Target
    BY <1>2
  <2> QED
    BY <2>1, FirstIsIn DEF NextFallback
<1>4. {t \in Older : Before(f, t)} # {} =>
         \E g \in Older : /\ src = {g}
                          /\ \A u \in Older : Before(f, u) => u = g \/ Before(g, u)
  <2>1. {t \in Older : Before(f, t)} \in SUBSET Target
    BY <1>2
  <2> QED
    BY <2>1, FirstExists DEF NextFallback
<1>5. {t \in Older : Before(f, t)} = {} => src = {}
  BY FirstIsIn DEF NextFallback
<1>6. cl2 \in CallType
  <2>1. <<>> \in Partial(1..MaxId) /\ <<>> \in Partial(Clock)
    BY EmptyIsPartial
  <2> QED
    BY <2>1, <1>3, Stepping DEF CallType, Skipped
<1>7. /\ cl2.op = "fill" /\ cl2.step = (IF src = {} THEN "done" ELSE "page") /\ cl2.src = src
      /\ cl2.after = 0 /\ cl2.id = cl.id /\ ~cl2.raised /\ cl2.size = cl.size
      /\ cl2.limit = cl.limit /\ cl2.n = cl.n /\ cl2.mine = cl.mine /\ cl2.unfair = cl.unfair
      /\ cl2.met = cl.met /\ cl2.raced = cl.raced /\ cl2.due = cl.due
  BY <1>1 DEF CallType, Skipped
<1>8. cl2.step \in {"done", "page"}
  BY <1>7
<1>9. Placed(cl2)
  BY <1>7, <1>8 DEF Placed, Syncing
<1>10. cl2.step # "done" => \E g \in Older : cl2.src = {g}
  BY <1>4, <1>5, <1>7
<1>11. Checking(cl2) /\ FoundOld(cl2, h, o, r) /\ StillThere(cl2, h, m)
  BY <1>8 DEF Checking, FoundOld, StillThere, Reported, Paging
<1>12. Accounts(cl2, h)
  BY <1>1, <1>7, <1>8 DEF Accounts, Paging
<1>13. \A k \in Key : Alive(h[f][k], m) => ~(k > cl.after)
  <2>1. PICK keys, after, size : /\ after = cl.after /\ size = cl.size
                                 /\ keys = PageOf(h, m, f, after, size)
    OBVIOUS
  <2>2. after \in Nat /\ size \in Nat /\ size # 0 /\ keys = {}
    BY <2>1, <1>1 DEF CallType
  <2>3. \A k \in Key : Alive(h[f][k], m) => ~(k > after)
    BY <2>1, <2>2, PageIsFirst
  <2> QED
    BY <2>1, <2>3
<1>14. ASSUME NEW k \in Key, NEW g, Owed(cl, h, m, k, g) PROVE Owed(cl2, h, m, k, g)
  <2>1. SUFFICES ASSUME g # Main, h[Main][k] # h[g][k] PROVE ToCome(cl2, k, g)
    BY <1>14 DEF Owed
  <2>2. g \in Older /\ Alive(h[g][k], m) /\ ToCome(cl, k, g)
    BY <2>1, <1>14 DEF Owed
  <2>3. Before(f, g) \/ (g = f /\ k > cl.after)
    BY <2>2, <1>2, PageToCome
  <2>4. Before(f, g)
    BY <2>2, <2>3, <1>13
  <2>5. PICK f1 \in Older : src = {f1} /\ (g = f1 \/ Before(f1, g))
    BY <2>2, <2>4, <1>4
  <2>6. k > 0
    BY KeysCounted
  <2> QED
    BY <2>5, <2>6, <1>7 DEF ToCome
<1>15. Filling(cl2, h, m, o, r)
  BY <1>1, <1>7, <1>10, <1>11, <1>12, <1>14 DEF Filling
<1> QED
  BY <1>1, <1>6, <1>7, <1>9, <1>15, OnlyFills

LEMMA PageKnows ==
    ASSUME NEW h, NEW m, NEW o, NEW r, NEW cl \in CallType, Knows(cl, h, m, o, r),
           cl.step = "page", NEW f \in cl.src, NEW keys,
           keys = PageOf(h, m, f, cl.after, cl.size), keys # {},
           NEW cl2, Paged(cl, cl2, keys, Ahead(f))
    PROVE  cl2 \in CallType /\ Knows(cl2, h, m, o, r)
<1>1. /\ cl.op = "fill" /\ ~cl.raised /\ Placed(cl) /\ Fresh(cl.id, o)
      /\ \E g \in Older : cl.src = {g}
      /\ cl.due \in [Key -> SUBSET Target] /\ cl.size # 0 /\ cl.limit # 0 /\ Accounts(cl, h)
      /\ \A k \in Key \ cl.raced : \A g \in cl.due[k] : Owed(cl, h, m, k, g)
  BY AtFallback
<1>2. cl.src = {f} /\ f \in Older /\ Older \subseteq Target
  BY <1>1, Parties
<1>3. PICK todo, after : todo = Ahead(f) /\ after = Max(keys)
  OBVIOUS
<1>4. todo \in SUBSET Target /\ Main \in todo
  BY <1>2, <1>3, AheadTyped
<1>5. /\ keys \in SUBSET Key /\ \A k \in keys : Alive(h[f][k], m)
      /\ after \in keys
      /\ \A k \in Key : Alive(h[f][k], m) /\ k > cl.after => k \in keys \/ k > after
  <2>1. PICK first, size : first = cl.after /\ size = cl.size /\ keys = PageOf(h, m, f, first, size)
    OBVIOUS
  <2>2. first \in Nat /\ size \in Nat /\ size # 0
    BY <2>1, <1>1 DEF CallType
  <2>3. keys = PageOf(h, m, f, first, size)
    BY <2>1
  <2>4. /\ keys \in SUBSET Key /\ \A k \in keys : Alive(h[f][k], m) /\ k > first
        /\ keys # {} =>
             /\ Max(keys) \in keys
             /\ \A k \in Key : Alive(h[f][k], m) /\ k > first => k \in keys \/ k > Max(keys)
    BY <2>2, <2>3, PageIsFirst, Zenon
  <2>5. /\ Max(keys) \in keys
        /\ \A k \in Key : Alive(h[f][k], m) /\ k > first => k \in keys \/ k > Max(keys)
    BY <2>4
  <2> QED
    BY <2>1, <2>4, <2>5, <1>3
<1>6. cl2 \in CallType
  <2>1. <<>> \in Partial(1..MaxId) /\ <<>> \in Partial(Clock)
    BY EmptyIsPartial
  <2>2. after \in Nat
    BY <1>5, KeysCounted
  <2> QED
    BY <2>1, <2>2, <1>3, <1>4, <1>5, Stepping DEF CallType, Paged
<1>7. /\ cl2.op = "fill" /\ cl2.step = "check" /\ cl2.src = {f} /\ cl2.todo = todo
      /\ cl2.after = after /\ cl2.id = cl.id /\ ~cl2.raised /\ cl2.size = cl.size
      /\ cl2.limit = cl.limit /\ cl2.n = cl.n /\ cl2.mine = cl.mine /\ cl2.unfair = cl.unfair
      /\ cl2.met = {} /\ cl2.raced = cl.raced /\ cl2.due = cl.due
      /\ cl2.page = keys /\ cl2.want = keys /\ cl2.found = <<>>
  BY <1>1, <1>2, <1>3 DEF CallType, Paged
<1>9. Placed(cl2)
  BY <1>7 DEF Placed, Syncing
<1>10. Checking(cl2)
  <2>1. DOMAIN <<>> = {}
    OBVIOUS
  <2> QED
    BY <2>1, <1>3, <1>7 DEF Checking
<1>11. FoundOld(cl2, h, o, r) /\ StillThere(cl2, h, m)
  BY <1>5, <1>7 DEF FoundOld, StillThere, Reported, Paging
<1>12. Accounts(cl2, h)
  BY <1>1, <1>4, <1>7 DEF Accounts, Paging
<1>14. ASSUME NEW k \in Key, NEW g, Owed(cl, h, m, k, g) PROVE Owed(cl2, h, m, k, g)
  <2>1. SUFFICES ASSUME g # Main, h[Main][k] # h[g][k] PROVE ToCome(cl2, k, g)
    BY <1>14 DEF Owed
  <2>2. g \in Older /\ Alive(h[g][k], m) /\ ToCome(cl, k, g)
    BY <2>1, <1>14 DEF Owed
  <2>3. Before(f, g) \/ (g = f /\ k > cl.after)
    BY <2>2, <1>2, PageToCome
  <2>4. Before(f, g) \/ (g = f /\ (k \in keys \/ k > after))
    BY <2>2, <2>3, <1>5
  <2> QED
    BY <2>4, <1>7 DEF ToCome
<1>15. Filling(cl2, h, m, o, r)
  BY <1>1, <1>2, <1>7, <1>10, <1>11, <1>12, <1>14 DEF Filling
<1> QED
  BY <1>1, <1>6, <1>7, <1>9, <1>15, OnlyFills

LEMMA PageKeeps == ASSUME Inv, NEW c \in Client, NEW f \in Target, Page(c, f) PROVE Inv'
<1>1. PICK cl, keys, h2, src :
        /\ cl = call[c] /\ keys = PageAfter(f, cl.after, cl.size) /\ h2 = LookedUp(f, Key)
        /\ src = NextFallback(f)
  OBVIOUS
<1>2. /\ cl.step = "page" /\ f \in cl.src /\ Still
  BY <1>1 DEF Page, At
<1>3. cl \in CallType /\ Placed(cl)
  BY <1>1 DEF Inv, Knows
<1>4. cl.op = "fill"
  BY <1>2, <1>3, StepOps
<1>5. h2 \in Holding /\ Seen(held, now, h2, f, Key) /\ Knows(cl, h2, now, old, redated)
  BY <1>1, <1>4, LookupKnown
<1>6. keys = PageOf(h2, now, f, cl.after, cl.size)
  <2>1. AliveKeys(h2, f, now) = LiveKeys(f)
    BY <1>5, JudgedKeys DEF Seen
  <2> QED
    BY <2>1, <1>1 DEF PageAfter, PageOf, LaterKeys
<1>7. PICK fresh : fresh = [cl EXCEPT !.found = <<>>, !.clocks = <<>>, !.page = keys, !.want = keys]
  OBVIOUS
<1>8. Becomes(c, h2, IF keys = {}
              THEN [fresh EXCEPT !.src = src, !.after = 0,
                                 !.step = IF src = {} THEN "done" ELSE "page"]
              ELSE [fresh EXCEPT !.after = Max(keys), !.step = "check", !.todo = Ahead(f),
                                 !.met = {}])
  BY <1>1, <1>7 DEF Page
<1>9. /\ keys = {} => Skipped(cl, [fresh EXCEPT !.src = src, !.after = 0,
                                       !.step = IF src = {} THEN "done" ELSE "page"], src)
      /\ Paged(cl, [fresh EXCEPT !.after = Max(keys), !.step = "check", !.todo = Ahead(f),
                                 !.met = {}], keys, Ahead(f))
  BY <1>3, <1>7 DEF Skipped, Paged, CallType
<1>10. PICK cl2 :
         /\ Becomes(c, h2, cl2)
         /\ keys = {} => Skipped(cl, cl2, src)
         /\ keys # {} => Paged(cl, cl2, keys, Ahead(f))
  <2>1. CASE keys = {}
    BY <2>1, <1>8, <1>9
  <2>2. CASE keys # {}
    BY <2>2, <1>8, <1>9
  <2> QED
    BY <2>1, <2>2
<1>11. cl2 \in CallType /\ Knows(cl2, h2, now, old, redated)
  <2>1. PICK m, o, r : m = now /\ o = old /\ r = redated
    OBVIOUS
  <2>2. Knows(cl, h2, m, o, r) /\ keys = PageOf(h2, m, f, cl.after, cl.size)
    BY <2>1, <1>5, <1>6
  <2>3. CASE keys = {}
    <3>1. cl2 \in CallType /\ Knows(cl2, h2, m, o, r)
      BY <2>2, <2>3, <1>1, <1>2, <1>3, <1>10, SkipKnows
    <3> QED
      BY <3>1, <2>1
  <2>4. CASE keys # {}
    <3>1. cl2 \in CallType /\ Knows(cl2, h2, m, o, r)
      BY <2>2, <2>4, <1>2, <1>3, <1>10, PageKnows
    <3> QED
      BY <3>1, <2>1
  <2> QED
    BY <2>3, <2>4
<1> QED
  BY <1>1, <1>2, <1>10, <1>11, LooksOnly

-----------------------------------------------------------------------------
(***************************************************************************)
(* fill_missing: those ahead of the fallback are asked for the page.       *)
(***************************************************************************)
Checked(cl, cl2, absent, rest) ==
    cl2 = [cl EXCEPT !.want = absent, !.todo = rest,
                     !.step = IF absent = {} THEN "copy" ELSE IF rest = {} THEN "get" ELSE "check"]

LEMMA NextAheadIn ==
    ASSUME NEW S, NEW t \in NextAhead(S)
    PROVE  t \in S /\ (Main \in S => t = Main)
BY FirstIsIn DEF NextAhead

LEMMA CheckKnows ==
    ASSUME NEW h, NEW m, NEW o, NEW r, NEW cl \in CallType, Knows(cl, h, m, o, r),
           cl.step = "check", NEW t \in cl.todo, Main \in cl.todo => t = Main,
           NEW absent, absent = cl.want \ AliveKeys(h, t, m), \A k \in absent : h[t][k] = Nothing,
           NEW rest, rest = cl.todo \ {t}, NEW cl2, Checked(cl, cl2, absent, rest)
    PROVE  cl2 \in CallType /\ Knows(cl2, h, m, o, r)
<1>1. /\ cl.op = "fill" /\ ~cl.raised /\ Placed(cl) /\ Fresh(cl.id, o)
      /\ \E g \in Older : cl.src = {g}
      /\ cl.due \in [Key -> SUBSET Target] /\ cl.size # 0 /\ cl.limit # 0
      /\ Checking(cl) /\ Accounts(cl, h) /\ StillThere(cl, h, m)
      /\ \A k \in Key \ cl.raced : \A g \in cl.due[k] : Owed(cl, h, m, k, g)
  <2>1. cl.step \in Paging \cup {"page"}
    BY DEF Paging
  <2> QED
    BY <2>1, AtFallback
<1>2. PICK f \in Older : cl.src = {f}
  BY <1>1
<1>3. /\ absent \in SUBSET Key /\ absent \subseteq cl.want /\ rest \in SUBSET Target
      /\ cl.todo \subseteq Target /\ cl.want \subseteq Key
  BY DEF CallType
<1>4. cl2 \in CallType
  <2>1. PICK step : step = IF absent = {} THEN "copy" ELSE IF rest = {} THEN "get" ELSE "check"
    OBVIOUS
  <2>2. step \in AllSteps
    BY <2>1, Stepping
  <2>3. cl2 = [cl EXCEPT !.want = absent, !.todo = rest, !.step = step]
    BY <2>1 DEF Checked
  <2> QED
    BY <1>3, <2>2, <2>3 DEF CallType
<1>5. /\ cl2.op = "fill" /\ cl2.src = {f} /\ cl2.todo = rest
      /\ cl2.step = IF absent = {} THEN "copy" ELSE IF rest = {} THEN "get" ELSE "check"
      /\ cl2.after = cl.after /\ cl2.id = cl.id /\ ~cl2.raised /\ cl2.size = cl.size
      /\ cl2.limit = cl.limit /\ cl2.n = cl.n /\ cl2.mine = cl.mine /\ cl2.unfair = cl.unfair
      /\ cl2.met = cl.met /\ cl2.raced = cl.raced /\ cl2.due = cl.due
      /\ cl2.page = cl.page /\ cl2.want = absent /\ cl2.found = cl.found
  BY <1>1, <1>2 DEF CallType, Checked
<1>6. cl2.step \in {"copy", "get", "check"}
  BY <1>5
<1>7. Placed(cl2)
  BY <1>5, <1>6 DEF Placed, Syncing
<1>8. DOMAIN cl.found = {} /\ cl.todo \subseteq Ahead(f)
  BY <1>1, <1>2 DEF Checking
<1>9. Checking(cl2)
  BY <1>5, <1>8 DEF Checking
<1>10. FoundOld(cl2, h, o, r)
  BY <1>5, <1>6, <1>8 DEF FoundOld
<1>11. StillThere(cl2, h, m)
  BY <1>1, <1>2, <1>5, <1>8 DEF StillThere, Paging
<1>12. Accounts(cl2, h)
  <2>1. Main \notin rest
    OBVIOUS
  <2>2. \A k \in (cl.page \cap absent) \ cl.met : h[Main][k] = Nothing
    <3>1. CASE t = Main
      BY <3>1
    <3>2. CASE t # Main
      <4>1. Main \notin cl.todo
        BY <3>2
      <4> QED
        BY <4>1, <1>1, <1>3 DEF Accounts, Paging
    <3> QED
      BY <3>1, <3>2
  <2> QED
    BY <1>1, <1>5, <2>2 DEF Accounts
<1>13. ASSUME NEW k \in Key, NEW g, Owed(cl, h, m, k, g) PROVE Owed(cl2, h, m, k, g)
  <2>1. SUFFICES ASSUME g # Main, h[Main][k] # h[g][k] PROVE ToCome(cl2, k, g)
    BY <1>13 DEF Owed
  <2>2. /\ g \in Older /\ Alive(h[g][k], m) /\ ToCome(cl, k, g) /\ ~Alive(h[Main][k], m)
        /\ \A u \in Older : Before(u, g) => ~Alive(h[u][k], m)
    BY <2>1, <1>13 DEF Owed
  <2>3. \/ Before(f, g) \/ (g = f /\ k > cl.after)
        \/ g = f /\ k \in cl.page \cap cl.want
    BY <2>2, <1>2 DEF ToCome, Reported
  <2>4. g = f /\ k \in cl.want => k \in absent
    <3> SUFFICES ASSUME g = f, k \in AliveKeys(h, t, m) PROVE FALSE
      OBVIOUS
    <3>1. Alive(h[t][k], m)
      BY DEF AliveKeys
    <3>2. t \in Ahead(f)
      BY <1>8
    <3>3. t = Main \/ (t \in Older /\ Before(t, f))
      BY <3>2, Parties DEF Ahead
    <3> QED
      BY <3>1, <3>3, <2>2
  <2>5. k \in absent => cl2.step \in {"check", "get"}
    BY <1>5
  <2>6. cl2.step # "done"
    BY <1>6
  <2> QED
    BY <2>3, <2>4, <2>5, <2>6, <1>5 DEF ToCome
<1>14. Filling(cl2, h, m, o, r)
  BY <1>1, <1>2, <1>5, <1>9, <1>10, <1>11, <1>12, <1>13 DEF Filling
<1> QED
  BY <1>1, <1>4, <1>5, <1>7, <1>14, OnlyFills

LEMMA CheckKeeps == ASSUME Inv, NEW c \in Client, NEW t \in Target, Check(c, t) PROVE Inv'
<1>1. PICK cl, absent, rest, h2, cl2 :
        /\ cl = call[c] /\ absent = cl.want \ LiveKeys(t) /\ rest = cl.todo \ {t}
        /\ h2 = LookedUp(t, cl.want) /\ Checked(cl, cl2, absent, rest)
  BY DEF Checked
<1>2. /\ cl.step = "check" /\ t \in NextAhead(cl.todo) /\ Becomes(c, h2, cl2) /\ Still
  BY <1>1 DEF Check, At, Checked
<1>3. cl \in CallType /\ Placed(cl)
  BY <1>1 DEF Inv, Knows
<1>4. cl.op = "fill" /\ cl.want \in SUBSET Key
  BY <1>2, <1>3, StepOps DEF CallType
<1>5. h2 \in Holding /\ Seen(held, now, h2, t, cl.want) /\ Knows(cl, h2, now, old, redated)
  BY <1>1, <1>4, LookupKnown
<1>6. absent = cl.want \ AliveKeys(h2, t, now) /\ \A k \in absent : h2[t][k] = Nothing
  <2>1. AliveKeys(h2, t, now) = LiveKeys(t) /\ AliveKeys(held, t, now) = LiveKeys(t)
    BY <1>5, JudgedKeys DEF Seen
  <2>2. \A k \in absent : k \in Key \cap cl.want /\ ~Alive(held[t][k], now)
    BY <2>1, <1>1, <1>4 DEF AliveKeys
  <2> QED
    BY <2>1, <2>2, <1>1, <1>5 DEF Seen
<1>7. cl2 \in CallType /\ Knows(cl2, h2, now, old, redated)
  <2>1. PICK m, o, r : m = now /\ o = old /\ r = redated
    OBVIOUS
  <2>2. t \in cl.todo /\ (Main \in cl.todo => t = Main)
    BY <1>2, NextAheadIn
  <2>3. /\ Knows(cl, h2, m, o, r) /\ absent = cl.want \ AliveKeys(h2, t, m)
        /\ \A k \in absent : h2[t][k] = Nothing
    BY <2>1, <1>5, <1>6
  <2>4. cl2 \in CallType /\ Knows(cl2, h2, m, o, r)
    BY <2>2, <2>3, <1>1, <1>2, <1>3, CheckKnows
  <2> QED
    BY <2>1, <2>4
<1> QED
  BY <1>1, <1>2, <1>4, <1>7, LooksOnly

-----------------------------------------------------------------------------
(***************************************************************************)
(* fill_missing: the values and the clocks of the page.                    *)
(***************************************************************************)
ReadOut(cl, cl2, found) ==
    cl2 = [cl EXCEPT !.found = found, !.step = IF DOMAIN found = {} THEN "copy" ELSE "dates"]
Dated(cl, cl2, clocks) == cl2 = [cl EXCEPT !.step = "copy", !.clocks = clocks]

LEMMA ReadPageKnows ==
    ASSUME NEW h \in Holding, NEW m, NEW o, NEW r, NEW cl \in CallType, Knows(cl, h, m, o, r),
           cl.step = "get", NEW f \in cl.src, FromOld(h, o),
           NEW there, there = cl.want \cap AliveKeys(h, f, m),
           NEW found, found = [k \in there |-> h[f][k].id], NEW cl2, ReadOut(cl, cl2, found)
    PROVE  cl2 \in CallType /\ Knows(cl2, h, m, o, r)
<1>1. /\ cl.op = "fill" /\ ~cl.raised /\ Placed(cl) /\ Fresh(cl.id, o)
      /\ \E g \in Older : cl.src = {g}
      /\ cl.due \in [Key -> SUBSET Target] /\ cl.size # 0 /\ cl.limit # 0
      /\ Accounts(cl, h) /\ StillThere(cl, h, m)
      /\ \A k \in Key \ cl.raced : \A g \in cl.due[k] : Owed(cl, h, m, k, g)
  <2>1. cl.step \in Paging \cup {"page"}
    BY DEF Paging
  <2> QED
    BY <2>1, AtFallback
<1>2. cl.src = {f} /\ f \in Older /\ f \in Fallbacks /\ f \in Target
  BY <1>1, Parties
<1>3. /\ DOMAIN found = there /\ there \in SUBSET Key /\ there \subseteq cl.want
      /\ \A k \in there : Alive(h[f][k], m) /\ found[k] = h[f][k].id
  BY DEF AliveKeys, CallType
<1>4. \A k \in there : h[f][k] \in Entry /\ h[f][k] \in o[k]
  <2>1. \A k \in there : h[f][k] # Nothing
    BY <1>3 DEF Alive
  <2> QED
    BY <2>1, <1>2, <1>3 DEF FromOld, Holding, Entries
<1>5. found \in Partial(1..MaxId)
  <2>1. \A k \in there : found[k] \in 1..MaxId
    BY <1>3, <1>4, NothingApart
  <2>2. found \in [there -> 1..MaxId]
    BY <2>1
  <2> QED
    BY <2>2, <1>3 DEF Partial
<1>6. cl2 \in CallType
  <2>1. PICK step : step = IF DOMAIN found = {} THEN "copy" ELSE "dates"
    OBVIOUS
  <2>2. step \in AllSteps
    BY <2>1, Stepping
  <2>3. cl2 = [cl EXCEPT !.found = found, !.step = step]
    BY <2>1 DEF ReadOut
  <2> QED
    BY <1>5, <2>2, <2>3 DEF CallType
<1>7. /\ cl2.op = "fill" /\ cl2.src = {f} /\ cl2.todo = cl.todo
      /\ cl2.step = IF there = {} THEN "copy" ELSE "dates"
      /\ cl2.after = cl.after /\ cl2.id = cl.id /\ ~cl2.raised /\ cl2.size = cl.size
      /\ cl2.limit = cl.limit /\ cl2.n = cl.n /\ cl2.mine = cl.mine /\ cl2.unfair = cl.unfair
      /\ cl2.met = cl.met /\ cl2.raced = cl.raced /\ cl2.due = cl.due
      /\ cl2.page = cl.page /\ cl2.want = cl.want /\ cl2.found = found
  BY <1>1, <1>2, <1>3 DEF CallType, ReadOut
<1>8. cl2.step \in {"copy", "dates"} /\ (cl2.step # "dates" => there = {})
  BY <1>7
<1>9. Placed(cl2)
  BY <1>7, <1>8 DEF Placed, Syncing
<1>10. Checking(cl2)
  BY <1>8 DEF Checking
<1>11. FoundOld(cl2, h, o, r)
  BY <1>3, <1>4, <1>7, <1>8 DEF FoundOld
<1>12. StillThere(cl2, h, m)
  BY <1>1, <1>2, <1>3, <1>7, <1>8 DEF StillThere, Paging
<1>13. Accounts(cl2, h)
  BY <1>1, <1>7, <1>8 DEF Accounts, Paging
<1>14. ASSUME NEW k \in Key, NEW g, Owed(cl, h, m, k, g) PROVE Owed(cl2, h, m, k, g)
  <2>1. SUFFICES ASSUME g # Main, h[Main][k] # h[g][k] PROVE ToCome(cl2, k, g)
    BY <1>14 DEF Owed
  <2>2. g \in Older /\ Alive(h[g][k], m) /\ ToCome(cl, k, g)
    BY <2>1, <1>14 DEF Owed
  <2>3. \/ Before(f, g) \/ (g = f /\ k > cl.after)
        \/ g = f /\ k \in cl.page \cap cl.want
    BY <2>2, <1>2 DEF ToCome, Reported
  <2>4. g = f /\ k \in cl.want => k \in there
    BY <2>2 DEF AliveKeys
  <2>5. k \in there => cl2.step \in Reported
    BY <1>7 DEF Reported
  <2>6. cl2.step # "done"
    BY <1>8
  <2> QED
    BY <2>3, <2>4, <2>5, <2>6, <1>3, <1>7 DEF ToCome
<1>15. Filling(cl2, h, m, o, r)
  BY <1>1, <1>2, <1>7, <1>10, <1>11, <1>12, <1>13, <1>14 DEF Filling
<1> QED
  BY <1>1, <1>6, <1>7, <1>9, <1>15, OnlyFills

LEMMA ReadPageKeeps == ASSUME Inv, NEW c \in Client, NEW f \in Target, ReadPage(c, f) PROVE Inv'
<1>1. PICK cl, there, found, h2, cl2 :
        /\ cl = call[c] /\ there = cl.want \cap LiveKeys(f)
        /\ found = [k \in there |-> held[f][k].id]
        /\ h2 = LookedUp(f, cl.want) /\ ReadOut(cl, cl2, found)
  BY DEF ReadOut
<1>2. /\ cl.step = "get" /\ f \in cl.src /\ Becomes(c, h2, cl2) /\ Still
  BY <1>1 DEF ReadPage, At, ReadOut
<1>3. cl \in CallType /\ Placed(cl) /\ FromOld(held, old)
  BY <1>1 DEF Inv, Knows
<1>4. cl.op = "fill" /\ cl.want \in SUBSET Key
  BY <1>2, <1>3, StepOps DEF CallType
<1>5. /\ h2 \in Holding /\ Seen(held, now, h2, f, cl.want) /\ Knows(cl, h2, now, old, redated)
      /\ \A u \in Target, k \in Key : h2[u][k] \in {held[u][k], Nothing}
  BY <1>1, <1>4, LookupKnown
<1>6. there = cl.want \cap AliveKeys(h2, f, now) /\ found = [k \in there |-> h2[f][k].id]
  <2>1. AliveKeys(h2, f, now) = LiveKeys(f) /\ AliveKeys(held, f, now) = LiveKeys(f)
    BY <1>5, JudgedKeys DEF Seen
  <2>2. \A k \in there : k \in Key /\ Alive(held[f][k], now)
    BY <2>1, <1>1, <1>4 DEF AliveKeys
  <2>3. \A k \in there : h2[f][k] = held[f][k]
    BY <2>2, <1>5 DEF Seen
  <2> QED
    BY <2>1, <2>3, <1>1
<1>7. FromOld(h2, old)
  BY <1>3, <1>5, Parties DEF FromOld
<1>8. cl2 \in CallType /\ Knows(cl2, h2, now, old, redated)
  <2>1. PICK m, o, r : m = now /\ o = old /\ r = redated
    OBVIOUS
  <2>2. /\ Knows(cl, h2, m, o, r) /\ FromOld(h2, o)
        /\ there = cl.want \cap AliveKeys(h2, f, m)
    BY <2>1, <1>5, <1>6, <1>7
  <2>3. cl2 \in CallType /\ Knows(cl2, h2, m, o, r)
    BY <2>2, <1>1, <1>2, <1>3, <1>5, <1>6, ReadPageKnows
  <2> QED
    BY <2>1, <2>3
<1> QED
  BY <1>1, <1>2, <1>4, <1>8, LooksOnly

LEMMA StatPageKnows ==
    ASSUME NEW h \in Holding, NEW m, NEW o, NEW r, NEW cl \in CallType, Knows(cl, h, m, o, r),
           cl.step = "dates", NEW f \in cl.src, NEW there, there = DOMAIN cl.found,
           NEW clocks,
           clocks = [k \in there |-> IF k \in AliveKeys(h, f, m) THEN h[f][k].clock ELSE Nothing],
           NEW cl2, Dated(cl, cl2, clocks)
    PROVE  cl2 \in CallType /\ Knows(cl2, h, m, o, r)
<1>1. /\ cl.op = "fill" /\ ~cl.raised /\ Placed(cl) /\ Fresh(cl.id, o)
      /\ \E g \in Older : cl.src = {g}
      /\ cl.due \in [Key -> SUBSET Target] /\ cl.size # 0 /\ cl.limit # 0
      /\ Accounts(cl, h) /\ StillThere(cl, h, m) /\ FoundOld(cl, h, o, r)
      /\ \A k \in Key \ cl.raced : \A g \in cl.due[k] : Owed(cl, h, m, k, g)
  <2>1. cl.step \in Paging \cup {"page"}
    BY DEF Paging
  <2> QED
    BY <2>1, AtFallback
<1>2. cl.src = {f} /\ f \in Older /\ f \in Fallbacks /\ f \in Target
  BY <1>1, Parties
<1>3. there \in SUBSET Key /\ DOMAIN clocks = there
  BY DEF CallType, Partial
<1>4. \A k \in there :
        /\ Alive(h[f][k], m) => clocks[k] = h[f][k].clock /\ h[f][k] \in Entry
        /\ ~Alive(h[f][k], m) => clocks[k] = Nothing
  BY <1>2, <1>3 DEF AliveKeys, Alive, Holding, Entries
<1>5. clocks \in Partial(Clock)
  <2>1. \A k \in there : clocks[k] \in Clock
    BY <1>4, NothingApart DEF Clock
  <2>2. clocks \in [there -> Clock]
    BY <2>1
  <2> QED
    BY <2>2, <1>3 DEF Partial
<1>6. cl2 \in CallType
  BY <1>5, Stepping DEF CallType, Dated
<1>7. /\ cl2.op = "fill" /\ cl2.src = {f} /\ cl2.todo = cl.todo /\ cl2.step = "copy"
      /\ cl2.after = cl.after /\ cl2.id = cl.id /\ ~cl2.raised /\ cl2.size = cl.size
      /\ cl2.limit = cl.limit /\ cl2.n = cl.n /\ cl2.mine = cl.mine /\ cl2.unfair = cl.unfair
      /\ cl2.met = cl.met /\ cl2.raced = cl.raced /\ cl2.due = cl.due
      /\ cl2.page = cl.page /\ cl2.want = cl.want /\ cl2.found = cl.found /\ cl2.clocks = clocks
  BY <1>1, <1>2 DEF CallType, Dated
<1>9. Placed(cl2)
  BY <1>7 DEF Placed, Syncing
<1>10. Checking(cl2)
  BY <1>7 DEF Checking
<1>11. FoundOld(cl2, h, o, r)
  <2>1. /\ DOMAIN cl.found \subseteq cl.want
        /\ \A k \in DOMAIN cl.found : \E e \in o[k] : e.id = cl.found[k] /\ h[f][k] \in {e, Nothing}
    BY <1>1, <1>2 DEF FoundOld, Reported
  <2>2. ASSUME NEW k \in there
        PROVE  \E e \in o[k] : e.id = cl.found[k] /\ clocks[k] \in {e.clock, Nothing}
    <3>1. PICK e \in o[k] : e.id = cl.found[k] /\ h[f][k] \in {e, Nothing}
      BY <2>1
    <3>2. Alive(h[f][k], m) => h[f][k] = e
      BY <3>1 DEF Alive
    <3> QED
      BY <3>1, <3>2, <1>4
  <2> QED
    BY <2>1, <2>2, <1>3, <1>7 DEF FoundOld
<1>12. StillThere(cl2, h, m)
  <2>1. \A k \in cl.page \ cl.raced : Alive(h[f][k], m)
    BY <1>1, <1>2 DEF StillThere, Paging
  <2>2. \A k \in there \ cl.raced : Alive(h[f][k], m) /\ cl.found[k] = h[f][k].id
    BY <1>1, <1>2 DEF StillThere, Paging, Reported
  <2>3. \A k \in there \ cl.raced : k \in DOMAIN clocks /\ clocks[k] = h[f][k].clock
    BY <2>2, <1>3, <1>4
  <2> QED
    BY <2>1, <2>2, <2>3, <1>7 DEF StillThere
<1>13. Accounts(cl2, h)
  BY <1>1, <1>7 DEF Accounts, Paging
<1>14. ASSUME NEW k \in Key, NEW g, Owed(cl, h, m, k, g) PROVE Owed(cl2, h, m, k, g)
  BY <1>2, <1>7, <1>14 DEF Owed, ToCome, Reported
<1>15. Filling(cl2, h, m, o, r)
  BY <1>1, <1>2, <1>7, <1>10, <1>11, <1>12, <1>13, <1>14 DEF Filling
<1> QED
  BY <1>1, <1>6, <1>7, <1>9, <1>15, OnlyFills

LEMMA StatPageKeeps == ASSUME Inv, NEW c \in Client, NEW f \in Target, StatPage(c, f) PROVE Inv'
<1>1. PICK cl, there, clocks, h2, cl2 :
        /\ cl = call[c] /\ there = DOMAIN cl.found
        /\ clocks = [k \in there |-> IF k \in LiveKeys(f) THEN held[f][k].clock ELSE Nothing]
        /\ h2 = LookedUp(f, there) /\ Dated(cl, cl2, clocks)
  BY DEF Dated
<1>2. /\ cl.step = "dates" /\ f \in cl.src /\ Becomes(c, h2, cl2) /\ Still
  BY <1>1 DEF StatPage, At, Dated
<1>3. cl \in CallType /\ Placed(cl)
  BY <1>1 DEF Inv, Knows
<1>4. cl.op = "fill" /\ there \in SUBSET Key
  BY <1>1, <1>2, <1>3, StepOps DEF CallType, Partial
<1>5. h2 \in Holding /\ Seen(held, now, h2, f, there) /\ Knows(cl, h2, now, old, redated)
  BY <1>1, <1>4, LookupKnown
<1>6. clocks = [k \in there |-> IF k \in AliveKeys(h2, f, now) THEN h2[f][k].clock ELSE Nothing]
  <2>1. AliveKeys(h2, f, now) = LiveKeys(f) /\ AliveKeys(held, f, now) = LiveKeys(f)
    BY <1>5, JudgedKeys DEF Seen
  <2>2. \A k \in LiveKeys(f) : h2[f][k] = held[f][k]
    BY <2>1, <1>5 DEF Seen, AliveKeys
  <2> QED
    BY <2>1, <2>2, <1>1
<1>8. cl2 \in CallType /\ Knows(cl2, h2, now, old, redated)
  <2>1. PICK m, o, r : m = now /\ o = old /\ r = redated
    OBVIOUS
  <2>2. /\ Knows(cl, h2, m, o, r)
        /\ clocks = [k \in there |-> IF k \in AliveKeys(h2, f, m) THEN h2[f][k].clock ELSE Nothing]
    BY <2>1, <1>5, <1>6
  <2>3. cl2 \in CallType /\ Knows(cl2, h2, m, o, r)
    BY <2>2, <1>1, <1>2, <1>3, <1>5, StatPageKnows
  <2> QED
    BY <2>1, <2>3
<1> QED
  BY <1>1, <1>2, <1>4, <1>8, LooksOnly

-----------------------------------------------------------------------------
(***************************************************************************)
(* fill_missing: what a step of its copying counts.                        *)
(***************************************************************************)

\* The members of C that have fewer than b of C below them are at most b.
LEMMA FewBelow ==
    ASSUME NEW C \in SUBSET Nat, IsFiniteSet(C), NEW b \in Nat, b # 0,
           NEW T, T = {k \in C : Cardinality({j \in C : j < k}) < b}
    PROVE  Cardinality(T) <= b /\ (T = {} => C = {})
<1>1. \A S \in SUBSET C : IsFiniteSet(S) /\ Cardinality(S) \in Nat
  BY FS_Subset, FS_CardinalityType
<1>2. CASE T # {}
  <2>1. T \in SUBSET Nat /\ IsFiniteSet(T)
    BY <1>1
  <2>2. PICK n \in T : \A i \in T : n >= i
    BY <2>1, <1>2, GreatestIn
  <2>3. PICK D : D = {j \in C : j < n}
    OBVIOUS
  <2>4. D \in SUBSET C /\ Cardinality(D) < b
    BY <2>2, <2>3
  <2>5. \A j \in T : j \in D \cup {n}
    <3> SUFFICES ASSUME NEW j \in T, j # n PROVE j \in D
      OBVIOUS
    <3>1. j \in Nat /\ n \in Nat /\ n >= j /\ j \in C
      BY <2>1, <2>2
    <3>2. j < n
      BY <3>1
    <3> QED
      BY <3>1, <3>2, <2>3
  <2>6. IsFiniteSet(D) /\ Cardinality(D) \in Nat
    BY <2>4, <1>1
  <2>7. IsFiniteSet(D \cup {n}) /\ Cardinality(D \cup {n}) <= Cardinality(D) + 1
    <3>1. PICK d, e : d = Cardinality(D) /\ e = Cardinality(D \cup {n})
      OBVIOUS
    <3>2. n \notin D
      <4>1. n \in Nat
        BY <2>1, <2>2
      <4> QED
        BY <4>1, <2>3
    <3>3. IsFiniteSet(D \cup {n}) /\ Cardinality(D \cup {n}) = Cardinality(D) + 1
      BY <2>6, <3>2, FS_AddElement
    <3>4. e = d + 1 /\ d \in Nat
      BY <3>1, <3>3, <2>6
    <3>5. e <= d + 1
      BY <3>4
    <3> QED
      BY <3>1, <3>3, <3>5
  <2>8. T \in SUBSET (D \cup {n})
    BY <2>5
  <2>9. Cardinality(T) <= Cardinality(D \cup {n})
    BY <2>7, <2>8, FS_Subset
  <2>10. Cardinality(T) \in Nat /\ Cardinality(D \cup {n}) \in Nat
    BY <2>1, <2>7, FS_CardinalityType
  <2> QED
    BY <2>4, <2>6, <2>7, <2>9, <2>10, <1>2
<1>3. CASE T = {}
  <2>1. ASSUME C # {} PROVE FALSE
    <3>1. PICK n \in C : \A i \in C : n <= i
      BY <2>1, LeastIn
    <3>2. {j \in C : j < n} = {}
      <4>1. \A j \in C : j \in Nat /\ n \in Nat /\ n <= j
        BY <3>1
      <4>2. \A j \in C : ~(j < n)
        BY <4>1
      <4> QED
        BY <4>2
    <3>3. Cardinality({j \in C : j < n}) = 0
      BY <3>2, FS_EmptySet
    <3>4. n \in T
      BY <3>1, <3>3
    <3> QED
      BY <3>4, <1>3
  <2>2. Cardinality(T) = 0
    BY <1>3, FS_EmptySet
  <2> QED
    BY <2>1, <2>2
<1> QED
  BY <1>2, <1>3

LEMMA Parting ==
    ASSUME NEW S, IsFiniteSet(S), NEW A \in SUBSET S
    PROVE  /\ Cardinality(S) = Cardinality(A) + Cardinality(S \ A)
           /\ Cardinality(S) \in Nat /\ Cardinality(A) \in Nat /\ Cardinality(S \ A) \in Nat
           /\ IsFiniteSet(A) /\ Cardinality(A) <= Cardinality(S)
<1>1. PICK B : B = S \ A
  OBVIOUS
<1>2. B \in SUBSET S /\ A \cup B = S /\ A \cap B = {}
  BY <1>1
<1>3. IsFiniteSet(A) /\ IsFiniteSet(B) /\ Cardinality(A) <= Cardinality(S)
  BY <1>2, FS_Subset
<1>4. Cardinality(A) \in Nat /\ Cardinality(B) \in Nat /\ Cardinality(S) \in Nat
  BY <1>3, FS_CardinalityType
<1>5. Cardinality(A \cup B) = Cardinality(A) + Cardinality(B) - Cardinality(A \cap B)
  BY <1>3, FS_Union
<1>6. Cardinality(A \cap B) = 0
  BY <1>2, FS_EmptySet
<1>7. PICK a, b, s, z : /\ a = Cardinality(A) /\ b = Cardinality(B) /\ s = Cardinality(S)
                        /\ z = Cardinality(A \cap B)
  OBVIOUS
<1>8. s = a + b - z /\ z = 0
  BY <1>2, <1>5, <1>6, <1>7
<1>9. a \in Nat /\ b \in Nat /\ s \in Nat
  BY <1>4, <1>7
<1>10. s = a + b
  BY <1>8, <1>9
<1> QED
  BY <1>1, <1>3, <1>7, <1>9, <1>10

\* What the tally says, and goes on saying.
Tallied(cl) ==
    /\ cl.n.missing = cl.n.written + cl.n.lost + cl.n.miss
    /\ cl.n.missing <= cl.n.scanned /\ cl.n.written <= cl.limit
    /\ cl.n.written >= Cardinality(cl.mine)

LEMMA CountsOn ==
    ASSUME NEW cl \in CallType, Tallied(cl), NEW scanned \in SUBSET Key, NEW copies,
           copies \subseteq scanned \cap cl.want, NEW won \in SUBSET copies,
           Cardinality(copies) <= cl.limit - cl.n.written,
           NEW n, n = Counted(cl, scanned, copies, won), NEW mine, mine = cl.mine \cup won
    PROVE  /\ n \in Tally
           /\ n.missing = n.written + n.lost + n.miss
           /\ n.missing <= n.scanned /\ n.written <= cl.limit
           /\ n.written >= Cardinality(mine)
<1>1. PICK lacking : lacking = scanned \cap cl.want
  OBVIOUS
<1>2. /\ IsFiniteSet(scanned) /\ lacking \in SUBSET scanned /\ copies \in SUBSET lacking
      /\ IsFiniteSet(cl.mine)
  BY <1>1, KeysCounted, FS_Subset DEF CallType
<1>3. /\ Cardinality(scanned) \in Nat /\ Cardinality(lacking) \in Nat /\ IsFiniteSet(lacking)
      /\ Cardinality(lacking) <= Cardinality(scanned)
  BY <1>2, Parting
<1>4. /\ Cardinality(lacking) = Cardinality(copies) + Cardinality(lacking \ copies)
      /\ Cardinality(copies) \in Nat /\ Cardinality(lacking \ copies) \in Nat /\ IsFiniteSet(copies)
  BY <1>2, <1>3, Parting
<1>5. /\ Cardinality(copies) = Cardinality(won) + Cardinality(copies \ won)
      /\ Cardinality(won) \in Nat /\ Cardinality(copies \ won) \in Nat /\ IsFiniteSet(won)
  BY <1>4, Parting
<1>6. Cardinality(mine) <= Cardinality(cl.mine) + Cardinality(won)
  <2>1. PICK M : M = cl.mine
    OBVIOUS
  <2>2. IsFiniteSet(M) /\ Cardinality(M) \in Nat
    BY <2>1, <1>2, FS_CardinalityType
  <2>3. IsFiniteSet(M \cup won) /\ Cardinality(M \cup won) = Cardinality(M) + Cardinality(won) - Cardinality(M \cap won)
    BY <2>2, <1>5, FS_Union
  <2>4. Cardinality(M \cap won) \in Nat
    <3>1. M \cap won \in SUBSET M
      OBVIOUS
    <3>2. IsFiniteSet(M \cap won)
      BY <2>2, <3>1, FS_Subset
    <3> QED
      BY <3>2, FS_CardinalityType
  <2> QED
    BY <2>1, <2>2, <2>3, <2>4, <1>5
<1>7. PICK s, p, q, u, v, w : /\ s = cl.n.scanned /\ p = cl.n.missing /\ q = cl.n.written
                             /\ u = cl.n.lost /\ v = cl.n.miss /\ w = cl.limit
  OBVIOUS
<1>8. s \in Nat /\ p \in Nat /\ q \in Nat /\ u \in Nat /\ v \in Nat /\ w \in Nat
  BY <1>7 DEF CallType, Tally
<1>9. p = q + u + v /\ p <= s /\ q <= w /\ q >= Cardinality(cl.mine)
  BY <1>7 DEF Tallied
<1>10. PICK cs, ck, cc, cw, cx, cy :
          /\ cs = Cardinality(scanned) /\ ck = Cardinality(lacking) /\ cc = Cardinality(copies)
          /\ cw = Cardinality(won) /\ cx = Cardinality(copies \ won)
          /\ cy = Cardinality(lacking \ copies)
  OBVIOUS
<1>11. n = [scanned |-> s + cs, missing |-> p + ck, written |-> q + cw, lost |-> u + cx,
            miss |-> v + cy]
  BY <1>1, <1>7, <1>10 DEF Counted
<1>12. /\ cs \in Nat /\ ck \in Nat /\ cc \in Nat /\ cw \in Nat /\ cx \in Nat /\ cy \in Nat
       /\ ck <= cs /\ ck = cc + cy /\ cc = cw + cx /\ cc <= w - q
  BY <1>3, <1>4, <1>5, <1>7, <1>10
<1>13. Cardinality(cl.mine) \in Nat /\ Cardinality(mine) \in Nat
  <2>1. mine \in SUBSET Key
    BY <1>2 DEF CallType
  <2>2. IsFiniteSet(mine)
    BY <2>1, KeysCounted, FS_Subset
  <2> QED
    BY <2>2, <1>2, FS_CardinalityType
<1>14. n \in Tally
  <2>1. s + cs \in Nat /\ p + ck \in Nat /\ q + cw \in Nat /\ u + cx \in Nat /\ v + cy \in Nat
    BY <1>8, <1>12
  <2> QED
    BY <2>1, <1>11 DEF Tally
<1>15. p + ck = (q + cw) + (u + cx) + (v + cy) /\ p + ck <= s + cs /\ q + cw <= w
  BY <1>8, <1>9, <1>12
<1>16. q + cw >= Cardinality(mine)
  BY <1>6, <1>8, <1>9, <1>10, <1>12, <1>13
<1> QED
  BY <1>7, <1>11, <1>14, <1>15, <1>16

-----------------------------------------------------------------------------
(***************************************************************************)
(* fill_missing: its inserts.                                              *)
(***************************************************************************)
LEMMA ScanFacts ==
    ASSUME NEW cl \in CallType, Budget(cl) > 0, NEW scanned, scanned = Scanned(cl),
           NEW copies, copies = scanned \cap Copyable(cl)
    PROVE  /\ scanned \subseteq cl.page /\ scanned \in SUBSET Key
           /\ Cardinality(copies) <= cl.limit - cl.n.written
           /\ copies = {} => Copyable(cl) = {} /\ scanned = cl.page
<1>1. PICK C, b : C = Copyable(cl) /\ b = cl.limit - cl.n.written
  OBVIOUS
<1>2. cl.limit \in Nat /\ cl.n.written \in Nat /\ cl.page \in SUBSET Key
  BY DEF CallType, Tally
<1>3. b > 0
  BY <1>1 DEF Budget
<1>4. b \in Nat /\ b # 0
  BY <1>1, <1>2, <1>3
<1>5. C \in SUBSET Nat /\ IsFiniteSet(C) /\ C \subseteq cl.page
  <2>1. C \in SUBSET Key
    BY <1>1, <1>2 DEF Copyable
  <2> QED
    BY <2>1, <1>1, KeysCounted, FS_Subset DEF Copyable
<1>6. scanned = {k \in cl.page : Cardinality({j \in C : j < k}) < b}
  BY <1>1 DEF Scanned, Budget
<1>7. copies = {k \in C : Cardinality({j \in C : j < k}) < b}
  BY <1>1, <1>5, <1>6
<1>8. Cardinality(copies) <= b /\ (copies = {} => C = {})
  BY <1>4, <1>5, <1>7, FewBelow
<1>9. C = {} => \A k \in cl.page : Cardinality({j \in C : j < k}) < b
  <2>1. ASSUME C = {}, NEW k PROVE Cardinality({j \in C : j < k}) < b
    <3>1. {j \in C : j < k} = {}
      BY <2>1
    <3>2. Cardinality({j \in C : j < k}) = 0
      BY <3>1, FS_EmptySet
    <3> QED
      BY <3>2, <1>4
  <2> QED
    BY <2>1
<1> QED
  BY <1>1, <1>2, <1>6, <1>8, <1>9

LEMMA CopyEnds ==
    ASSUME NEW h, NEW m, NEW o, NEW r, NEW cl \in CallType, Knows(cl, h, m, o, r),
           cl.step = "copy", Budget(cl) <= 0, NEW cl2, cl2 = Done(cl)
    PROVE  cl2 \in CallType /\ Knows(cl2, h, m, o, r)
<1>1. /\ cl.op = "fill" /\ ~cl.raised /\ Placed(cl) /\ Fresh(cl.id, o)
      /\ cl.due \in [Key -> SUBSET Target] /\ cl.size # 0 /\ cl.limit # 0
      /\ Accounts(cl, h) /\ \A k \in Key \ cl.raced : \A g \in cl.due[k] : Owed(cl, h, m, k, g)
  <2>1. cl.step \in Paging \cup {"page"}
    BY DEF Paging
  <2> QED
    BY <2>1, AtFallback
<1>2. cl2 \in CallType
  BY Stepping DEF CallType, Done
<1>3. /\ cl2.op = "fill" /\ cl2.step = "done" /\ cl2.id = cl.id /\ ~cl2.raised
      /\ cl2.size = cl.size /\ cl2.limit = cl.limit /\ cl2.n = cl.n /\ cl2.mine = cl.mine
      /\ cl2.unfair = cl.unfair /\ cl2.met = cl.met /\ cl2.raced = cl.raced /\ cl2.due = cl.due
  BY <1>1 DEF CallType, Done
<1>4. Placed(cl2)
  BY <1>3 DEF Placed, Syncing
<1>5. Checking(cl2) /\ FoundOld(cl2, h, o, r) /\ StillThere(cl2, h, m)
  BY <1>3 DEF Checking, FoundOld, StillThere, Reported, Paging
<1>6. Accounts(cl2, h)
  BY <1>1, <1>3 DEF Accounts, Paging
<1>7. cl.n.written >= cl.limit
  <2>1. cl.limit \in Nat /\ cl.n.written \in Nat
    BY DEF CallType, Tally
  <2> QED
    BY <2>1 DEF Budget
<1>8. \A k, g : Owed(cl, h, m, k, g) => Owed(cl2, h, m, k, g)
  BY <1>3, <1>7 DEF Owed, ToCome
<1>9. Filling(cl2, h, m, o, r)
  BY <1>1, <1>3, <1>5, <1>6, <1>8 DEF Filling
<1> QED
  BY <1>1, <1>2, <1>3, <1>4, <1>9, OnlyFills

\* The call after a page of which nothing more is to be copied.
Turned(cl, cl2, n, page) == cl2 = [cl EXCEPT !.n = n, !.page = page, !.step = "page"]

LEMMA CopyTurns ==
    ASSUME NEW h, NEW m, NEW o, NEW r, NEW cl \in CallType, Knows(cl, h, m, o, r),
           cl.step = "copy", Budget(cl) > 0, NEW scanned, scanned = Scanned(cl),
           scanned \cap Copyable(cl) = {}, NEW n, n = Counted(cl, scanned, {}, {}),
           NEW cl2, Turned(cl, cl2, n, cl.page \ scanned)
    PROVE  cl2 \in CallType /\ Knows(cl2, h, m, o, r)
<1>1. /\ cl.op = "fill" /\ ~cl.raised /\ Placed(cl) /\ Fresh(cl.id, o)
      /\ \E g \in Older : cl.src = {g}
      /\ cl.due \in [Key -> SUBSET Target] /\ cl.size # 0 /\ cl.limit # 0
      /\ Accounts(cl, h) /\ \A k \in Key \ cl.raced : \A g \in cl.due[k] : Owed(cl, h, m, k, g)
  <2>1. cl.step \in Paging \cup {"page"}
    BY DEF Paging
  <2> QED
    BY <2>1, AtFallback
<1>2. PICK f \in Older : cl.src = {f}
  BY <1>1
<1>3. Copyable(cl) = {} /\ scanned \in SUBSET Key /\ Cardinality({}) <= cl.limit - cl.n.written
  BY ScanFacts
<1>4. PICK mine : mine = cl.mine \cup {}
  OBVIOUS
<1>5. /\ n \in Tally
      /\ n.missing = n.written + n.lost + n.miss
      /\ n.missing <= n.scanned /\ n.written <= cl.limit /\ n.written >= Cardinality(mine)
  <2>1. Tallied(cl)
    BY <1>1 DEF Accounts, Tallied
  <2>2. PICK none : none = {}
    OBVIOUS
  <2>3. /\ none \subseteq scanned \cap cl.want /\ none \in SUBSET none
        /\ Cardinality(none) <= cl.limit - cl.n.written
        /\ n = Counted(cl, scanned, none, none) /\ mine = cl.mine \cup none
    BY <2>2, <1>3, <1>4
  <2> QED
    BY <2>1, <2>3, <1>3, CountsOn
<1>6. cl2 \in CallType
  <2>1. PICK page : page = cl.page \ scanned
    OBVIOUS
  <2>2. page \in SUBSET Key /\ "page" \in AllSteps
    BY <2>1, Stepping DEF CallType
  <2>3. cl2 = [cl EXCEPT !.n = n, !.page = page, !.step = "page"]
    BY <2>1 DEF Turned
  <2> QED
    BY <1>5, <2>2, <2>3 DEF CallType
<1>7. /\ cl2.op = "fill" /\ cl2.step = "page" /\ cl2.src = {f} /\ cl2.id = cl.id /\ ~cl2.raised
      /\ cl2.size = cl.size /\ cl2.limit = cl.limit /\ cl2.n = n /\ cl2.mine = cl.mine
      /\ cl2.unfair = cl.unfair /\ cl2.met = cl.met /\ cl2.raced = cl.raced /\ cl2.due = cl.due
      /\ cl2.after = cl.after
  BY <1>1, <1>2 DEF CallType, Turned
<1>8. Placed(cl2)
  BY <1>7 DEF Placed, Syncing
<1>9. Checking(cl2) /\ FoundOld(cl2, h, o, r) /\ StillThere(cl2, h, m)
  BY <1>7 DEF Checking, FoundOld, StillThere, Reported, Paging
<1>10. Accounts(cl2, h)
  <2>1. mine = cl.mine
    BY <1>4
  <2> QED
    BY <2>1, <1>1, <1>5, <1>7 DEF Accounts, Paging
<1>11. ASSUME NEW k \in Key, NEW g, Owed(cl, h, m, k, g) PROVE Owed(cl2, h, m, k, g)
  <2>1. k \notin cl.page \cap DOMAIN cl.found
    BY <1>3 DEF Copyable
  <2>2. ToCome(cl, k, g) => ToCome(cl2, k, g)
    BY <2>1, <1>2, <1>7 DEF ToCome, Reported
  <2> QED
    BY <2>2, <1>11 DEF Owed
<1>12. Filling(cl2, h, m, o, r)
  BY <1>1, <1>2, <1>7, <1>9, <1>10, <1>11 DEF Filling
<1> QED
  BY <1>1, <1>6, <1>7, <1>8, <1>12, OnlyFills

\* Of the copies, those won are inserted in the authority, each where it had nothing alive.
Inserts(cl, h, m, h2, copies, won, clock) ==
    /\ won \in SUBSET copies
    /\ \A k \in won : ~Alive(h[Main][k], m) /\ (cl.clocks[k] # Nothing => clock[k] = cl.clocks[k])
    /\ \A k \in copies : h[Main][k] = Nothing => k \in won
    /\ Stores(h, h2, Main, won, cl.found, clock)
Inserted(cl, cl2, n, page, won, unfair) ==
    cl2 = [cl EXCEPT !.n = n, !.page = page, !.step = IF won = {} THEN "copy" ELSE "spread",
                     !.todo = Dependents, !.left = won, !.stale = won, !.mine = @ \cup won,
                     !.unfair = unfair]

Copies(cl, cl2, h, m, h2, won, clock) ==
    LET scanned == Scanned(cl)
        copies == scanned \cap Copyable(cl)
    IN /\ Inserts(cl, h, m, h2, copies, won, clock)
       /\ Inserted(cl, cl2, Counted(cl, scanned, copies, won), cl.page \ scanned, won,
                   cl.unfair \cup ((copies \ won) \ cl.met))

\* The call goes on from what it scanned of its page.
ScansOn(cl, cl2, f, scanned) ==
    /\ cl2.step \in {"copy", "spread"} /\ cl2.src = {f} /\ cl2.after = cl.after
    /\ cl2.page = cl.page \ scanned /\ cl2.found = cl.found

\* A key it owed it has now copied, or owes still.
LEMMA CopyOwes ==
    ASSUME NEW h \in Holding, NEW m, NEW h2, NEW cl \in CallType, cl.step = "copy",
           NEW f \in Older, cl.src = {f}, Accounts(cl, h), StillThere(cl, h, m),
           DOMAIN cl.found \subseteq cl.want,
           NEW scanned, NEW copies, copies = scanned \cap Copyable(cl), NEW won, NEW clock,
           Inserts(cl, h, m, h2, copies, won, clock),
           NEW cl2, ScansOn(cl, cl2, f, scanned),
           NEW k \in Key \ cl.raced, NEW g \in Target, Owed(cl, h, m, k, g)
    PROVE  Owed(cl2, h2, m, k, g)
<1>1. /\ won \subseteq copies /\ \A j \in copies : h[Main][j] = Nothing => j \in won
      /\ \A j \in won : ~Alive(h[Main][j], m) /\ (cl.clocks[j] # Nothing => clock[j] = cl.clocks[j])
  BY DEF Inserts
<1>2. /\ \A u \in Target, j \in Key : u # Main \/ j \notin won => h2[u][j] = h[u][j]
      /\ \A j \in won : h2[Main][j] = [id |-> cl.found[j], clock |-> clock[j]]
  BY DEF Inserts, Stores, Alters
<1>3. /\ Main \in Target /\ Older \subseteq Target /\ \A u \in Older : u # Main
  BY Parties
<1>6. /\ cl2.step \in {"copy", "spread"} /\ cl2.src = {f} /\ cl2.after = cl.after
      /\ cl2.page = cl.page \ scanned /\ cl2.found = cl.found
  BY DEF ScansOn
<1>4. CASE g = Main
  <2>1. Alive(h[Main][k], m)
    BY <1>4 DEF Owed
  <2>2. h2[Main][k] = h[Main][k]
    BY <2>1, <1>1, <1>2, <1>3
  <2> QED
    BY <2>1, <2>2, <1>4 DEF Owed
<1>5. CASE g # Main
  <2>1. /\ g \in Older /\ Alive(h[g][k], m) /\ h2[g][k] = h[g][k]
        /\ \/ h[Main][k] = h[g][k]
           \/ /\ ToCome(cl, k, g) /\ ~Alive(h[Main][k], m)
              /\ \A u \in Older : Before(u, g) => ~Alive(h[u][k], m)
    BY <1>2, <1>3, <1>5 DEF Owed
  <2>2. CASE k \in won
    <3>1. k \in cl.page /\ k \in DOMAIN cl.found
      BY <2>2, <1>1 DEF Copyable
    <3>2. /\ Alive(h[f][k], m) /\ cl.found[k] = h[f][k].id /\ cl.clocks[k] = h[f][k].clock
      BY <3>1 DEF StillThere, Paging, Reported
    <3>3. h[f][k] \in Entry
      BY <3>2, <1>3 DEF Alive, Holding, Entries
    <3>4. cl.clocks[k] # Nothing
      BY <3>2, <3>3, NothingApart, Sizes
    <3>5. h2[Main][k] = h[f][k]
      BY <2>2, <3>2, <3>3, <3>4, <1>1, <1>2, NothingApart
    <3>6. ToCome(cl, k, g) /\ \A u \in Older : Before(u, g) => ~Alive(h[u][k], m)
      BY <2>1, <2>2, <1>1
    <3>7. cl.step # "done"
      OBVIOUS
    <3>8. f = g
      BY <3>2, <3>6, <3>7 DEF ToCome
    <3> QED
      BY <2>1, <3>5, <3>8, <1>5 DEF Owed
  <2>3. CASE k \notin won
    <3>1. h2[Main][k] = h[Main][k]
      BY <2>3, <1>2, <1>3
    <3>2. ASSUME ToCome(cl, k, g), ~Alive(h[Main][k], m) PROVE ToCome(cl2, k, g)
      <4>1. \/ Before(f, g) \/ (g = f /\ k > cl.after)
            \/ g = f /\ k \in cl.page \cap DOMAIN cl.found
        BY <3>2 DEF ToCome, Reported
      <4>2. k \in cl.page \cap DOMAIN cl.found => k \notin scanned
        <5> SUFFICES ASSUME k \in cl.page, k \in DOMAIN cl.found, k \in scanned PROVE FALSE
          OBVIOUS
        <5>1. k \in copies
          BY DEF Copyable
        <5>2. k \in (cl.page \cap cl.want) \ cl.met
          BY DEF Accounts
        <5>3. h[Main][k] = Nothing
          BY <5>2 DEF Accounts, Paging
        <5> QED
          BY <5>1, <5>3, <2>3, <1>1
      <4>3. cl2.step # "done" /\ cl2.step \in Reported
        BY <1>6 DEF Reported
      <4> QED
        BY <4>1, <4>2, <4>3, <1>6 DEF ToCome
    <3>3. \A u \in Older : h2[u][k] = h[u][k]
      BY <1>2, <1>3
    <3> QED
      BY <2>1, <3>1, <3>2, <3>3, <1>5 DEF Owed
  <2> QED
    BY <2>2, <2>3
<1> QED
  BY <1>4, <1>5

LEMMA CopyKnows ==
    ASSUME NEW h \in Holding, NEW m, NEW o, NEW r, NEW cl \in CallType, Knows(cl, h, m, o, r),
           cl.step = "copy", Budget(cl) > 0, NEW won, NEW clock, NEW h2, NEW cl2,
           Copies(cl, cl2, h, m, h2, won, clock),
           NEW r2, \A k \in won : cl.clocks[k] = Nothing => cl.found[k] \in r2
    PROVE  cl2 \in CallType /\ Knows(cl2, h2, m, o, r2)
<1>0. PICK scanned, copies, n, unfair :
        /\ scanned = Scanned(cl) /\ copies = scanned \cap Copyable(cl)
        /\ n = Counted(cl, scanned, copies, won)
        /\ unfair = cl.unfair \cup ((copies \ won) \ cl.met)
        /\ Inserts(cl, h, m, h2, copies, won, clock)
        /\ Inserted(cl, cl2, n, cl.page \ scanned, won, unfair)
  BY DEF Copies
<1> USE <1>0
<1>1. /\ cl.op = "fill" /\ ~cl.raised /\ Placed(cl) /\ Fresh(cl.id, o)
      /\ \E g \in Older : cl.src = {g}
      /\ cl.due \in [Key -> SUBSET Target] /\ cl.size # 0 /\ cl.limit # 0
      /\ FoundOld(cl, h, o, r) /\ Accounts(cl, h) /\ StillThere(cl, h, m)
      /\ \A k \in Key \ cl.raced : \A g \in cl.due[k] : Owed(cl, h, m, k, g)
  <2>1. cl.step \in Paging \cup {"page"}
    BY DEF Paging
  <2> QED
    BY <2>1, AtFallback
<1>2. PICK f \in Older : cl.src = {f}
  BY <1>1
<1>3. /\ DOMAIN cl.found \subseteq cl.want
      /\ \A k \in DOMAIN cl.found : \E e \in o[k] :
           e.id = cl.found[k] /\ k \in DOMAIN cl.clocks /\ cl.clocks[k] \in {e.clock, Nothing}
  BY <1>1, <1>2 DEF FoundOld, Reported
<1>4. /\ won \in SUBSET copies /\ \A j \in copies : h[Main][j] = Nothing => j \in won
      /\ \A u \in Target, j \in Key : u # Main \/ j \notin won => h2[u][j] = h[u][j]
  BY DEF Inserts, Stores, Alters
<1>5. /\ scanned \subseteq cl.page /\ scanned \in SUBSET Key
      /\ Cardinality(copies) <= cl.limit - cl.n.written
  BY ScanFacts
<1>6. copies \subseteq scanned \cap cl.want /\ copies \subseteq DOMAIN cl.found
  BY <1>3 DEF Copyable
<1>7. PICK mine : mine = cl.mine \cup won
  OBVIOUS
<1>8. /\ n \in Tally
      /\ n.missing = n.written + n.lost + n.miss
      /\ n.missing <= n.scanned /\ n.written <= cl.limit /\ n.written >= Cardinality(mine)
  <2>1. Tallied(cl)
    BY <1>1 DEF Accounts, Tallied
  <2> QED
    BY <2>1, <1>4, <1>5, <1>6, <1>7, CountsOn
<1>9. unfair = {}
  <2>1. cl.unfair = {}
    BY <1>1 DEF Accounts
  <2>2. ASSUME NEW k \in (copies \ won) \ cl.met PROVE FALSE
    <3>1. k \in (cl.page \cap cl.want) \ cl.met
      BY <2>2, <1>5, <1>6
    <3>2. h[Main][k] = Nothing
      BY <3>1, <1>1 DEF Accounts, Paging
    <3> QED
      BY <3>2, <2>2, <1>4
  <2> QED
    BY <2>1, <2>2
<1>10. PICK step, page : step = (IF won = {} THEN "copy" ELSE "spread") /\ page = cl.page \ scanned
  OBVIOUS
<1>11. cl2 = [cl EXCEPT !.n = n, !.page = page, !.step = step, !.todo = Dependents, !.left = won,
                        !.stale = won, !.mine = mine, !.unfair = {}]
  BY <1>7, <1>9, <1>10 DEF Inserted, CallType
<1>12. cl2 \in CallType
  <2>1. page \in SUBSET Key /\ won \in SUBSET Key /\ mine \in SUBSET Key
    BY <1>4, <1>5, <1>6, <1>7, <1>10 DEF CallType
  <2>2. step \in AllSteps /\ Dependents \in SUBSET Target
    BY <1>10, Stepping, Parties
  <2> QED
    BY <2>1, <2>2, <1>8, <1>11 DEF CallType
<1>13. /\ cl2.op = "fill" /\ cl2.step = step /\ cl2.src = {f} /\ cl2.id = cl.id /\ ~cl2.raised
       /\ cl2.size = cl.size /\ cl2.limit = cl.limit /\ cl2.n = n /\ cl2.mine = mine
       /\ cl2.unfair = {} /\ cl2.met = cl.met /\ cl2.raced = cl.raced /\ cl2.due = cl.due
       /\ cl2.after = cl.after /\ cl2.todo = Dependents /\ cl2.left = won /\ cl2.stale = won
       /\ cl2.page = page /\ cl2.want = cl.want /\ cl2.found = cl.found /\ cl2.clocks = cl.clocks
  BY <1>1, <1>2, <1>11 DEF CallType
<1>14. step \in {"copy", "spread"}
  BY <1>10
<1>15. Placed(cl2)
  BY <1>13, <1>14, Parties DEF Placed, Syncing
<1>16. Checking(cl2)
  BY <1>13, <1>14 DEF Checking
<1>17. FoundOld(cl2, h2, o, r2)
  <2>1. \A k \in DOMAIN cl.found : \E e \in o[k] :
           /\ e.id = cl2.found[k]
           /\ cl2.step = "dates" => h2[f][k] \in {e, Nothing}
           /\ cl2.step # "dates" => k \in DOMAIN cl2.clocks /\ cl2.clocks[k] \in {e.clock, Nothing}
    BY <1>3, <1>13, <1>14
  <2>2. cl2.left \subseteq cl2.stale /\ cl2.stale \subseteq DOMAIN cl2.found
    BY <1>4, <1>6, <1>13
  <2>3. \A k \in cl2.stale : cl2.clocks[k] = Nothing => cl2.found[k] \in r2
    BY <1>13
  <2> QED
    BY <2>1, <2>2, <2>3, <1>3, <1>13 DEF FoundOld
<1>18. StillThere(cl2, h2, m)
  <2>1. f \in Target /\ f # Main
    BY Parties
  <2>2. \A j \in Key : h2[f][j] = h[f][j]
    BY <2>1, <1>4
  <2>3. /\ \A k \in cl.page \ cl.raced : Alive(h[f][k], m)
        /\ \A k \in DOMAIN cl.found \ cl.raced :
                /\ Alive(h[f][k], m) /\ cl.found[k] = h[f][k].id
                /\ k \in DOMAIN cl.clocks /\ cl.clocks[k] = h[f][k].clock
    BY <1>1, <1>2 DEF StillThere, Paging, Reported
  <2>4. cl.page \subseteq Key /\ DOMAIN cl.found \subseteq Key /\ page \subseteq cl.page
    BY <1>10 DEF CallType, Partial
  <2> QED
    BY <2>2, <2>3, <2>4, <1>13 DEF StillThere
<1>19. Accounts(cl2, h2)
  <2>1. \A k \in (page \cap cl.want) \ cl.met : h2[Main][k] = Nothing
    <3> SUFFICES ASSUME NEW k \in (page \cap cl.want) \ cl.met PROVE h2[Main][k] = Nothing
      OBVIOUS
    <3>1. k \in (cl.page \cap cl.want) \ cl.met /\ k \notin scanned /\ k \in Key
      BY <1>10 DEF CallType
    <3>2. h[Main][k] = Nothing
      BY <3>1, <1>1 DEF Accounts, Paging
    <3>3. k \notin won
      BY <3>1, <1>4, <1>6
    <3> QED
      BY <3>1, <3>2, <3>3, <1>4, Parties
  <2>2. cl.met \subseteq cl.raced
    BY <1>1 DEF Accounts
  <2> QED
    BY <2>1, <2>2, <1>8, <1>13 DEF Accounts
<1>20. ASSUME NEW k \in Key \ cl.raced, NEW g \in cl.due[k] PROVE Owed(cl2, h2, m, k, g)
  <2>1. Owed(cl, h, m, k, g) /\ g \in Target
    BY <1>1, <1>20
  <2>2. ScansOn(cl, cl2, f, scanned)
    BY <1>10, <1>13, <1>14 DEF ScansOn
  <2>3. /\ cl.src = {f} /\ Accounts(cl, h) /\ StillThere(cl, h, m)
        /\ DOMAIN cl.found \subseteq cl.want
    BY <1>1, <1>2, <1>3
  <2> QED
    BY <2>1, <2>2, <2>3, <1>20, CopyOwes
<1>21. Filling(cl2, h2, m, o, r2)
  BY <1>1, <1>2, <1>13, <1>16, <1>17, <1>18, <1>19, <1>20 DEF Filling
<1> QED
  BY <1>1, <1>12, <1>13, <1>15, <1>21, OnlyFills

LEMMA InsertableFacts ==
    ASSUME NEW copies \in SUBSET Key, NEW won \in Insertable(copies)
    PROVE  /\ won \in SUBSET copies
           /\ \A k \in won : ~Alive(held[Main][k], now)
           /\ \A k \in copies : held[Main][k] = Nothing => k \in won
<1>1. LiveKeys(Main) = AliveKeys(held, Main, now)
  BY JudgedKeys
<1>2. CASE won = {k \in copies : held[Main][k] = Nothing}
  BY <1>2 DEF Alive
<1>3. CASE won = copies \ LiveKeys(Main)
  BY <1>1, <1>3 DEF AliveKeys, Alive
<1> QED
  BY <1>2, <1>3 DEF Insertable

\* An insert of client c's copies: won are the keys the authority takes.
Copying(c, cl, scanned, copies, won, clock, h2, cl2) ==
    /\ c \in Client /\ cl = call[c] /\ cl.step = "copy" /\ Budget(cl) > 0
    /\ scanned = Scanned(cl) /\ copies = scanned \cap Copyable(cl)
    /\ won \in Insertable(copies) /\ clock = [k \in won |-> WriteClock(cl.clocks[k])]
    /\ h2 = Put(Main, won, cl.found, clock)
    /\ Inserted(cl, cl2, Counted(cl, scanned, copies, won), cl.page \ scanned, won,
                cl.unfair \cup ((copies \ won) \ cl.met))
    /\ Becomes(c, h2, cl2)
    /\ redated' = redated \cup {cl.found[k] : k \in {j \in won : cl.clocks[j] = Nothing}}
    /\ UNCHANGED <<now, calls, lastId, old, faults>>

LEMMA InsertKeeps ==
    ASSUME Inv, NEW c, NEW cl, NEW scanned, NEW copies, NEW won, NEW clock, NEW h2, NEW cl2,
           Copying(c, cl, scanned, copies, won, clock, h2, cl2)
    PROVE  Inv'
<1>a. /\ c \in Client /\ cl = call[c] /\ cl.step = "copy" /\ Budget(cl) > 0
      /\ scanned = Scanned(cl) /\ copies = scanned \cap Copyable(cl)
      /\ won \in Insertable(copies) /\ clock = [k \in won |-> WriteClock(cl.clocks[k])]
      /\ h2 = Put(Main, won, cl.found, clock)
      /\ Inserted(cl, cl2, Counted(cl, scanned, copies, won), cl.page \ scanned, won,
                  cl.unfair \cup ((copies \ won) \ cl.met))
      /\ Becomes(c, h2, cl2)
      /\ redated' = redated \cup {cl.found[k] : k \in {j \in won : cl.clocks[j] = Nothing}}
      /\ UNCHANGED <<now, calls, lastId, old, faults>>
  BY DEF Copying
<1> USE <1>a
<1>1. PICK h, m, o, r, r2, n, unfair :
        /\ h = held /\ m = now /\ o = old /\ r = redated /\ r2 = redated'
        /\ n = Counted(cl, scanned, copies, won)
        /\ unfair = cl.unfair \cup ((copies \ won) \ cl.met)
  OBVIOUS
<1>2. /\ h \in Holding /\ cl \in CallType /\ Knows(cl, h, m, o, r) /\ m \in 0..MaxTime
      /\ Aged(o, lastId) /\ lastId \in 0..MaxId /\ r \subseteq 1..MaxId
  BY <1>1 DEF Inv
<1>3. cl.src # {} /\ FoundOld(cl, h, o, r)
  <2>1. cl.step \in Paging \cup {"page"}
    BY DEF Paging
  <2>2. (\E g \in Older : cl.src = {g}) /\ FoundOld(cl, h, o, r)
    BY <2>1, <1>2, AtFallback
  <2> QED
    BY <2>2
<1>4. \A k \in DOMAIN cl.found : \E e \in o[k] :
        e.id = cl.found[k] /\ k \in DOMAIN cl.clocks /\ cl.clocks[k] \in {e.clock, Nothing}
  BY <1>3 DEF FoundOld, Reported
<1>5. copies \in SUBSET Key /\ copies \subseteq DOMAIN cl.found
  BY <1>2 DEF Copyable, CallType
<1>6. /\ won \in SUBSET copies
      /\ \A k \in won : ~Alive(h[Main][k], m)
      /\ \A k \in copies : h[Main][k] = Nothing => k \in won
  BY <1>1, <1>5, InsertableFacts
<1>7. \A k \in won : /\ k \in Key /\ cl.found[k] \in 1..MaxId /\ cl.clocks[k] \in Clock
                     /\ clock[k] \in 0..MaxTime
                     /\ cl.clocks[k] # Nothing => clock[k] = cl.clocks[k]
  <2> SUFFICES ASSUME NEW k \in won
               PROVE  /\ k \in Key /\ cl.found[k] \in 1..MaxId /\ cl.clocks[k] \in Clock
                      /\ clock[k] \in 0..MaxTime
                      /\ cl.clocks[k] # Nothing => clock[k] = cl.clocks[k]
    OBVIOUS
  <2>1. k \in Key /\ k \in DOMAIN cl.found /\ k \in DOMAIN cl.clocks
    BY <1>4, <1>5, <1>6
  <2>2. cl.found[k] \in 1..MaxId /\ cl.clocks[k] \in Clock
    BY <2>1, <1>2 DEF CallType, Partial
  <2>3. clock[k] = WriteClock(cl.clocks[k])
    OBVIOUS
  <2> QED
    BY <2>1, <2>2, <2>3, <1>1, <1>2, ClockGiven
<1>8. Stores(h, h2, Main, won, cl.found, clock)
  <2>1. PICK found : found = cl.found
    OBVIOUS
  <2>2. Storable(won, found, clock)
    BY <2>1, <1>7 DEF Storable
  <2>3. Stores(held, Put(Main, won, found, clock), Main, won, found, clock)
    BY <2>2, <1>1, <1>2, PutThere, Parties
  <2> QED
    BY <2>1, <2>3, <1>1
<1>9. Inserts(cl, h, m, h2, copies, won, clock)
  BY <1>6, <1>7, <1>8 DEF Inserts
<1>10. \A k \in won : cl.clocks[k] = Nothing => cl.found[k] \in r2
  BY <1>1
<1>11. cl2 \in CallType /\ Knows(cl2, h2, m, o, r2)
  <2>1. PICK g : g = h2
    OBVIOUS
  <2>2. Copies(cl, cl2, h, m, g, won, clock)
    BY <2>1, <1>9 DEF Copies
  <2>3. cl2 \in CallType /\ Knows(cl2, g, m, o, r2)
    BY <2>2, <1>2, <1>10, CopyKnows
  <2> QED
    BY <2>1, <2>3
<1>12. redated \subseteq redated' /\ redated' \subseteq 1..MaxId
  BY <1>1, <1>2, <1>7
<1>13. /\ Alters(held, h2, Main, won)
       /\ \A k \in won : h2[Main][k] = [id |-> cl.found[k], clock |-> clock[k]]
  BY <1>1, <1>8 DEF Stores
<1>14. ASSUME NEW k \in Key \cap won, NEW e \in old[k], h2[Main][k].id = e.id, e.id \notin redated'
       PROVE  h2[Main][k].clock = e.clock
  <2>1. h2[Main][k].id = cl.found[k] /\ h2[Main][k].clock = clock[k]
    <3>1. h2[Main][k] = [id |-> cl.found[k], clock |-> clock[k]]
      BY <1>13
    <3> QED
      BY <3>1
  <2>2. e \in o[k] /\ e.id = cl.found[k] /\ e.id \notin r2
    BY <2>1, <1>1, <1>14
  <2>3. PICK e2 \in o[k] : e2.id = cl.found[k] /\ cl.clocks[k] \in {e2.clock, Nothing}
    BY <1>4, <1>5, <1>6
  <2>4. PICK x, given : x = clock[k] /\ given = cl.clocks[k]
    OBVIOUS
  <2>5. /\ given # Nothing => x = given
        /\ given = Nothing => e.id \in r2
        /\ given \in {e2.clock, Nothing} /\ e2.id = e.id
    BY <2>2, <2>3, <2>4, <1>7, <1>10
  <2>6. PICK last : Aged(o, last)
    BY <1>2
  <2>7. x = e.clock
    <3>1. e2.clock = e.clock
      BY <2>2, <2>3, <2>6 DEF Aged
    <3>2. given # Nothing
      BY <2>2, <2>5
    <3> QED
      BY <2>5, <3>1, <3>2
  <2>8. h2[Main][k].clock = x
    BY <2>1, <2>4
  <2> QED
    BY <2>7, <2>8
<1>15. Knows(cl2, h2, now, old, redated') /\ lastId' \in 0..MaxId /\ lastId <= lastId'
  BY <1>1, <1>2, <1>11, Sizes
<1> QED
  BY <1>11, <1>12, <1>13, <1>14, <1>15, Parties, Gives

LEMMA CopyKeeps == ASSUME Inv, NEW c \in Client, Copy(c) PROVE Inv'
<1>1. PICK h, m, o, r, cl, scanned, copies :
        /\ h = held /\ m = now /\ o = old /\ r = redated /\ cl = call[c]
        /\ scanned = Scanned(cl) /\ copies = scanned \cap Copyable(cl)
  OBVIOUS
<1>2. cl.step = "copy" /\ UNCHANGED <<now, calls, lastId, old, faults>>
  BY <1>1 DEF Copy, At
<1>3. /\ h \in Holding /\ cl \in CallType /\ Knows(cl, h, m, o, r)
      /\ faults \in 0..MaxFaults /\ calls \in [Client -> 0..MaxCalls]
  BY <1>1 DEF Inv
<1>4. ASSUME NEW cl2 \in CallType, Knows(cl2, h, m, o, r), Goes(c, cl2), redated' = redated PROVE Inv'
  <2>1. Becomes(c, h, cl2) /\ Knows(cl2, h, now, old, redated)
    BY <1>1, <1>4 DEF Goes
  <2>2. \A t \in Target, k \in Key : h[t][k] \in {held[t][k], Nothing}
    BY <1>1
  <2> QED
    BY <2>1, <2>2, <1>2, <1>3, <1>4, Loses
<1>5. CASE Budget(cl) <= 0 /\ Goes(c, Done(cl)) /\ UNCHANGED redated
  <2>1. PICK cl2 : cl2 = Done(cl)
    OBVIOUS
  <2>2. cl2 \in CallType /\ Knows(cl2, h, m, o, r)
    BY <2>1, <1>2, <1>3, <1>5, CopyEnds
  <2> QED
    BY <2>1, <2>2, <1>4, <1>5
<1>6. PICK page : page = cl.page \ scanned
  OBVIOUS
<1>7. CASE /\ Budget(cl) > 0 /\ copies = {} /\ UNCHANGED redated
           /\ Goes(c, [[cl EXCEPT !.n = Counted(cl, scanned, copies, {}), !.page = @ \ scanned]
                         EXCEPT !.step = "page"])
  <2>1. PICK n, cl2 : n = Counted(cl, scanned, {}, {}) /\ Turned(cl, cl2, n, page)
    BY DEF Turned
  <2>2. cl2 = [[cl EXCEPT !.n = Counted(cl, scanned, copies, {}), !.page = @ \ scanned]
                  EXCEPT !.step = "page"]
    BY <2>1, <1>3, <1>6, <1>7 DEF Turned, CallType
  <2>3. Turned(cl, cl2, n, cl.page \ scanned) /\ scanned \cap Copyable(cl) = {}
    BY <2>1, <1>1, <1>6, <1>7
  <2>4. cl2 \in CallType /\ Knows(cl2, h, m, o, r)
    BY <2>1, <2>3, <1>1, <1>2, <1>3, <1>7, CopyTurns
  <2> QED
    BY <2>2, <2>4, <1>4, <1>7
<1>8. ASSUME Budget(cl) > 0, NEW won \in Insertable(copies),
             Becomes(c, Put(Main, won, cl.found, [k \in won |-> WriteClock(cl.clocks[k])]),
                     [[cl EXCEPT !.n = Counted(cl, scanned, copies, won), !.page = @ \ scanned]
                       EXCEPT !.step = IF won = {} THEN "copy" ELSE "spread",
                              !.todo = Dependents, !.left = won, !.stale = won,
                              !.mine = @ \cup won, !.unfair = @ \cup ((copies \ won) \ cl.met)]),
             redated' = redated \cup {cl.found[k] : k \in {j \in won : cl.clocks[j] = Nothing}}
      PROVE  Inv'
  <2>1. PICK n, unfair, clock, h2, cl2 :
          /\ n = Counted(cl, scanned, copies, won)
          /\ unfair = cl.unfair \cup ((copies \ won) \ cl.met)
          /\ clock = [k \in won |-> WriteClock(cl.clocks[k])]
          /\ h2 = Put(Main, won, cl.found, clock) /\ Inserted(cl, cl2, n, page, won, unfair)
    BY DEF Inserted
  <2>2. cl2 = [[cl EXCEPT !.n = n, !.page = @ \ scanned]
                 EXCEPT !.step = IF won = {} THEN "copy" ELSE "spread",
                        !.todo = Dependents, !.left = won, !.stale = won,
                        !.mine = @ \cup won, !.unfair = @ \cup ((copies \ won) \ cl.met)]
    BY <2>1, <1>3, <1>6 DEF Inserted, CallType
  <2>3. Becomes(c, h2, cl2)
    BY <2>1, <2>2, <1>8
  <2>4. Inserted(cl, cl2, Counted(cl, scanned, copies, won), cl.page \ scanned, won,
                 cl.unfair \cup ((copies \ won) \ cl.met))
    BY <2>1, <1>6
  <2>5. Copying(c, cl, scanned, copies, won, clock, h2, cl2)
    BY <2>1, <2>3, <2>4, <1>1, <1>2, <1>8 DEF Copying
  <2> QED
    BY <2>5, InsertKeeps
<1> QED
  BY <1>1, <1>5, <1>7, <1>8 DEF Copy
-----------------------------------------------------------------------------
(***************************************************************************)
(* fill_missing: the dependents are given what the authority took.         *)
(***************************************************************************)

\* Given a batch, the call knows what it knew: of the targets it speaks of none changed.
Batched(cl, cl1, h, h2, left) ==
    /\ cl.step = "spread" /\ left \in SUBSET Key /\ left \subseteq cl.stale
    /\ cl1 = [cl EXCEPT !.left = left]
    /\ \A t \in {Main} \cup Fallbacks, k \in Key : h2[t][k] = h[t][k]

LEMMA BatchKnows ==
    ASSUME NEW h, NEW m, NEW o, NEW r, NEW cl \in CallType, Knows(cl, h, m, o, r),
           NEW cl1, NEW h2, NEW left, Batched(cl, cl1, h, h2, left)
    PROVE  /\ cl1 \in CallType /\ Knows(cl1, h2, m, o, r) /\ \A t : Served(cl1, h2, m, t)
           /\ cl1.step = "spread" /\ cl1.todo = cl.todo
<1>1. /\ cl.step = "spread" /\ left \in SUBSET Key /\ left \subseteq cl.stale
      /\ cl1 = [cl EXCEPT !.left = left]
      /\ \A t \in {Main} \cup Fallbacks, k \in Key : h2[t][k] = h[t][k]
  BY DEF Batched
<1>2. cl1 \in CallType
  BY <1>1 DEF CallType
<1>3. /\ cl1.op = cl.op /\ cl1.step = "spread" /\ cl1.stale = cl.stale /\ cl1.id = cl.id
      /\ cl1.todo = cl.todo /\ cl1.src = cl.src /\ cl1.size = cl.size /\ cl1.limit = cl.limit
      /\ cl1.after = cl.after /\ cl1.page = cl.page /\ cl1.want = cl.want /\ cl1.found = cl.found
      /\ cl1.clocks = cl.clocks /\ cl1.left = left /\ cl1.n = cl.n /\ cl1.raised = cl.raised
      /\ cl1.raced = cl.raced /\ cl1.met = cl.met /\ cl1.mine = cl.mine
      /\ cl1.unfair = cl.unfair /\ cl1.due = cl.due
  BY <1>1 DEF CallType
<1>4. Placed(cl) /\ Filling(cl, h, m, o, r) /\ Fresh(cl.id, o)
  BY DEF Knows
<1>5. cl.op = "fill" /\ ~cl.raised
  BY <1>1, <1>4, StepOps
<1>6. /\ cl.due \in [Key -> SUBSET Target] /\ cl.size # 0 /\ cl.limit # 0
      /\ \E f \in Older : cl.src = {f}
      /\ Checking(cl) /\ FoundOld(cl, h, o, r) /\ Accounts(cl, h) /\ StillThere(cl, h, m)
      /\ \A k \in Key \ cl.raced : \A f \in cl.due[k] : Owed(cl, h, m, k, f)
  BY <1>1, <1>4, <1>5 DEF Filling
<1>7. PICK f \in Older : cl.src = {f}
  BY <1>6
<1>8. f \in Fallbacks /\ Older \subseteq Fallbacks /\ cl.page \subseteq Key
  BY Parties DEF CallType
<1>9. DOMAIN cl.found \subseteq cl.want /\ cl.want \subseteq Key
  BY <1>1, <1>6, <1>7 DEF FoundOld, Reported, CallType
<1>10. Placed(cl1)
  BY <1>1, <1>3, <1>4 DEF Placed
<1>11. Checking(cl1)
  BY <1>3 DEF Checking
<1>12. FoundOld(cl1, h2, o, r)
  BY <1>1, <1>3, <1>6, <1>7 DEF FoundOld, Reported
<1>13. Accounts(cl1, h2)
  BY <1>1, <1>3, <1>6, <1>8 DEF Accounts, Paging
<1>14. StillThere(cl1, h2, m)
  BY <1>1, <1>3, <1>6, <1>7, <1>8, <1>9 DEF StillThere, Paging, Reported
<1>15. ASSUME NEW k \in Key \ cl.raced, NEW g \in cl.due[k] PROVE Owed(cl1, h2, m, k, g)
  <2>1. Owed(cl, h, m, k, g)
    BY <1>6, <1>15
  <2>2. ToCome(cl, k, g) => ToCome(cl1, k, g)
    BY <1>1, <1>3 DEF ToCome
  <2>3. h2[Main][k] = h[Main][k] /\ \A u \in Older : h2[u][k] = h[u][k]
    BY <1>1, <1>8
  <2> QED
    BY <2>1, <2>2, <2>3 DEF Owed
<1>16. Filling(cl1, h2, m, o, r)
  BY <1>3, <1>6, <1>7, <1>11, <1>12, <1>13, <1>14, <1>15 DEF Filling
<1>17. Knows(cl1, h2, m, o, r)
  BY <1>2, <1>3, <1>4, <1>5, <1>10, <1>16, OnlyFills
<1>18. \A t : Served(cl1, h2, m, t)
  BY <1>3, <1>5 DEF Served
<1> QED
  BY <1>2, <1>3, <1>17, <1>18

LEMMA SpreadKeeps == ASSUME Inv, NEW c \in Client, NEW t \in Target, Spread(c, t) PROVE Inv'
<1>1. PICK h, m, o, r, cl, batch, found, clock :
        /\ h = held /\ m = now /\ o = old /\ r = redated /\ cl = call[c]
        /\ batch = {k \in cl.left : cl.clocks[k] = cl.clocks[Min(cl.left)]}
        /\ found = cl.found /\ clock = [k \in batch |-> WriteClock(cl.clocks[k])]
  OBVIOUS
<1>2. PICK h2, cl2 : /\ h2 = Put(t, batch, found, clock)
                     /\ cl2 = IF batch = cl.left THEN Past([cl EXCEPT !.left = cl.stale], t)
                              ELSE [cl EXCEPT !.left = cl.left \ batch]
  OBVIOUS
<1>3. /\ h \in Holding /\ m \in 0..MaxTime /\ cl \in CallType /\ Knows(cl, h, m, o, r)
      /\ Placed(cl) /\ Filling(cl, h, m, o, r) /\ r \subseteq 1..MaxId
      /\ lastId \in 0..MaxId /\ Aged(o, lastId)
  BY <1>1 DEF Inv, Knows
<1>4. [cl EXCEPT !.left = @ \ batch] = [cl EXCEPT !.left = cl.left \ batch]
  BY <1>3 DEF CallType
<1>5. /\ cl.step = "spread" /\ t \in cl.todo /\ Becomes(c, h2, cl2)
      /\ UNCHANGED <<now, calls, lastId, old, redated, faults>>
  BY <1>1, <1>2, <1>4, FirstIsIn DEF Spread, At, Still
<1>6. t \in Dependents /\ t # Main /\ t \notin Fallbacks /\ cl.todo \subseteq Target
  BY <1>3, <1>5, Parties DEF Placed
<1>7. (\E g \in Older : cl.src = {g}) /\ FoundOld(cl, h, o, r)
  BY <1>3, <1>5, StepOps DEF Filling
<1>8. /\ \A k \in DOMAIN found : \E e \in o[k] :
           e.id = found[k] /\ k \in DOMAIN cl.clocks /\ cl.clocks[k] \in {e.clock, Nothing}
      /\ cl.left \subseteq cl.stale /\ cl.stale \subseteq DOMAIN found
      /\ \A k \in cl.stale : cl.clocks[k] = Nothing => found[k] \in r
  BY <1>1, <1>5, <1>7 DEF FoundOld, Reported
<1>9. batch \subseteq cl.left /\ batch \in SUBSET Key /\ cl.stale \in SUBSET Key
  BY <1>1, <1>3 DEF CallType
<1>10. \A k \in batch : /\ found[k] \in 1..MaxId /\ clock[k] \in 0..MaxTime
                        /\ cl.clocks[k] # Nothing => clock[k] = cl.clocks[k]
  <2> SUFFICES ASSUME NEW k \in batch
               PROVE  /\ found[k] \in 1..MaxId /\ clock[k] \in 0..MaxTime
                      /\ cl.clocks[k] # Nothing => clock[k] = cl.clocks[k]
    OBVIOUS
  <2>1. k \in DOMAIN found /\ k \in DOMAIN cl.clocks
    BY <1>8, <1>9
  <2>2. cl.found[k] \in 1..MaxId /\ cl.clocks[k] \in Clock
    BY <2>1, <1>1, <1>3 DEF CallType, Partial
  <2>3. clock[k] = WriteClock(cl.clocks[k])
    BY <1>1
  <2> QED
    BY <2>2, <2>3, <1>1, <1>3, ClockGiven
<1>11. Stores(held, h2, t, batch, found, clock)
  <2>1. Storable(batch, found, clock)
    BY <1>9, <1>10 DEF Storable
  <2> QED
    BY <2>1, <1>1, <1>2, <1>3, PutThere
<1>12. /\ Alters(held, h2, t, batch)
       /\ \A k \in batch : h2[t][k] = [id |-> found[k], clock |-> clock[k]]
  BY <1>11 DEF Stores
<1>13. \A u \in {Main} \cup Fallbacks, k \in Key : h2[u][k] = h[u][k]
  BY <1>1, <1>6, <1>12, Parties DEF Alters
<1>14. cl2 \in CallType /\ Knows(cl2, h2, m, o, r)
  <2>1. CASE batch = cl.left
    <3>1. PICK cl1, left : cl1 = [cl EXCEPT !.left = left] /\ left = cl.stale
      OBVIOUS
    <3>2. Batched(cl, cl1, h, h2, left)
      BY <3>1, <1>5, <1>9, <1>13 DEF Batched
    <3>3. /\ cl1 \in CallType /\ Knows(cl1, h2, m, o, r) /\ \A u : Served(cl1, h2, m, u)
          /\ cl1.step = "spread" /\ cl1.todo = cl.todo
      BY <3>2, <1>3, BatchKnows
    <3>4. cl1.step \in Syncing \ {"feed"} /\ t \in cl1.todo /\ Served(cl1, h2, m, t)
      BY <3>3, <1>5 DEF Syncing
    <3>5. cl2 = Past(cl1, t)
      BY <2>1, <3>1, <1>2
    <3> QED
      BY <3>3, <3>4, <3>5, PastKnows
  <2>2. CASE batch # cl.left
    <3>1. PICK left : left = cl.left \ batch
      OBVIOUS
    <3>2. left \in SUBSET Key /\ left \subseteq cl.stale
      BY <3>1, <1>8, <1>9
    <3>3. Batched(cl, cl2, h, h2, left)
      BY <3>1, <3>2, <2>2, <1>2, <1>5, <1>13 DEF Batched
    <3> QED
      BY <3>3, <1>3, BatchKnows
  <2> QED
    BY <2>1, <2>2
<1>15. ASSUME NEW k \in Key \cap batch, NEW e \in old[k], h2[t][k].id = e.id, e.id \notin redated'
       PROVE  h2[t][k].clock = e.clock
  <2>1. h2[t][k] = [id |-> found[k], clock |-> clock[k]]
    BY <1>12
  <2>2. h2[t][k].id = found[k] /\ h2[t][k].clock = clock[k]
    BY <2>1
  <2>3. e \in o[k] /\ e.id = found[k] /\ found[k] \notin r
    BY <2>2, <1>1, <1>5, <1>15
  <2>4. PICK e2 \in o[k] : e2.id = found[k] /\ cl.clocks[k] \in {e2.clock, Nothing}
    BY <1>8, <1>9
  <2>5. e2.clock = e.clock
    BY <2>3, <2>4, <1>3 DEF Aged
  <2>6. clock[k] = e2.clock
    BY <2>3, <2>4, <1>8, <1>9, <1>10
  <2> QED
    BY <2>2, <2>5, <2>6
<1>16. /\ Knows(cl2, h2, now, old, redated') /\ redated \subseteq redated' /\ redated' \subseteq 1..MaxId
       /\ lastId' \in 0..MaxId /\ lastId <= lastId' /\ UNCHANGED <<now, calls, old, faults>>
  BY <1>1, <1>3, <1>5, <1>14, Sizes
<1> QED
  BY <1>5, <1>6, <1>12, <1>14, <1>15, <1>16, Gives
-----------------------------------------------------------------------------
(***************************************************************************)
(* The invariant holds at first and ever after.                            *)
(***************************************************************************)
LEMMA MaxIn ==
    ASSUME NEW n \in Nat, NEW S \in SUBSET (0..n), S # {}
    PROVE  Max(S) \in S /\ \A i \in S : i <= Max(S)
<1>1. IsFiniteSet(0..n)
  BY FS_Interval
<1>2. S \in SUBSET Nat
  OBVIOUS
<1>3. IsFiniteSet(S)
  BY <1>1, FS_Subset
<1>6. \E x \in S : \A y \in S : x >= y
  BY <1>2, <1>3, GreatestIn
<1>4. Max(S) \in S /\ \A y \in S : Max(S) >= y
  BY <1>6 DEF Max
<1>5. \A i \in S : i \in Nat
  OBVIOUS
<1> QED
  BY <1>4, <1>5

\* What the fallbacks hold at first has one clock for each id, and no copy has another.
LEMMA InitAges ==
    ASSUME NEW h \in Holding, OneLife(h), NEW o, NEW last,
           o = [k \in Key |-> {h[t][k] : t \in Fallbacks} \ {Nothing}],
           \A t \in Target, k \in Key : h[t][k] # Nothing => h[t][k].id <= last
    PROVE  Aged(o, last) /\ FromOld(h, o) /\ KeepsLife(h, o, {})
<1>1. Fallbacks \subseteq Target
  BY Parties
<1>2. \A k \in Key : \A e \in o[k] : \E f \in Fallbacks : e = h[f][k] /\ h[f][k] # Nothing
  OBVIOUS
<1>3. \A t \in Target, k \in Key : h[t][k] \in Entry \cup {Nothing}
  BY DEF Holding, Entries
<1>4. \A k \in Key : o[k] \in SUBSET Entry
  BY <1>1, <1>2, <1>3
<1>5. o \in [Key -> SUBSET Entry]
  BY <1>4
<1>6. ASSUME NEW t \in Target, NEW k \in Key, NEW e \in o[k], h[t][k] # Nothing, h[t][k].id = e.id
      PROVE  h[t][k].clock = e.clock
  <2>1. PICK f \in Fallbacks : e = h[f][k] /\ h[f][k] # Nothing
    BY <1>2
  <2> QED
    BY <2>1, <1>6 DEF OneLife
<1>7. \A k \in Key : \A e, g \in o[k] : e.id = g.id => e.clock = g.clock
  BY <1>1, <1>2, <1>6
<1>8. \A k \in Key : \A e \in o[k] : e.id <= last
  BY <1>1, <1>2
<1>9. FromOld(h, o)
  BY DEF FromOld
<1>10. KeepsLife(h, o, {})
  BY <1>6 DEF KeepsLife
<1> QED
  BY <1>5, <1>7, <1>8, <1>9, <1>10 DEF Aged

LEMMA InitInv == ASSUME Init PROVE Inv
<1>1. held \in Holding /\ OneLife(held)
  BY UpkeepAssumption DEF Init, Holding
<1>2. AllHeld \subseteq Entry
  BY <1>1 DEF AllHeld, Holding, Entries
<1>3. PICK clocks, ids : clocks = {0} \cup {e.clock : e \in AllHeld} /\ ids = {0} \cup {e.id : e \in AllHeld}
  OBVIOUS
<1>4. \A e \in AllHeld : e.id \in 0..MaxId /\ e.clock \in 0..MaxTime
  BY <1>2, NothingApart, Sizes
<1>5. clocks \in SUBSET (0..MaxTime) /\ clocks # {} /\ ids \in SUBSET (0..MaxId) /\ ids # {}
  BY <1>3, <1>4, Sizes
<1>6. now = Max(clocks) /\ lastId = Max(ids)
  BY <1>3 DEF Init
<1>7. now \in 0..MaxTime /\ lastId \in 0..MaxId /\ \A i \in ids : i <= lastId
  BY <1>5, <1>6, MaxIn, Sizes
<1>8. \A t \in Target, k \in Key : held[t][k] # Nothing => held[t][k].id <= lastId
  <2> SUFFICES ASSUME NEW t \in Target, NEW k \in Key, held[t][k] # Nothing
               PROVE  held[t][k].id <= lastId
    OBVIOUS
  <2>1. held[t][k] \in AllHeld
    BY DEF AllHeld
  <2>2. held[t][k].id \in ids
    BY <2>1, <1>3
  <2> QED
    BY <2>2, <1>7
<1>9. Aged(old, lastId) /\ FromOld(held, old) /\ KeepsLife(held, old, {})
  <2>1. old = [k \in Key |-> {held[t][k] : t \in Fallbacks} \ {Nothing}]
    BY DEF Init
  <2>2. PICK h, o, last : h = held /\ o = old /\ last = lastId
    OBVIOUS
  <2>3. /\ h \in Holding /\ OneLife(h) /\ o = [k \in Key |-> {h[t][k] : t \in Fallbacks} \ {Nothing}]
        /\ \A t \in Target, k \in Key : h[t][k] # Nothing => h[t][k].id <= last
    BY <2>1, <2>2, <1>1, <1>8
  <2>4. Aged(o, last) /\ FromOld(h, o) /\ KeepsLife(h, o, {})
    BY <2>3, InitAges
  <2> QED
    BY <2>2, <2>4
<1>10. redated = {} /\ faults \in 0..MaxFaults /\ calls \in [Client -> 0..MaxCalls]
  BY Sizes DEF Init
<1>11. call \in [Client -> CallType] /\ \A c \in Client : Knows(call[c], held, now, old, redated)
  BY <1>9, IdleTyped, IdleKnows DEF Init
<1> QED
  BY <1>1, <1>7, <1>9, <1>10, <1>11 DEF Inv

LEMMA StutterKeeps == ASSUME Inv, UNCHANGED vars PROVE Inv'
<1>1. /\ held' = held /\ now' = now /\ call' = call /\ calls' = calls /\ lastId' = lastId
      /\ old' = old /\ redated' = redated /\ faults' = faults
  BY DEF vars
<1> QED
  BY <1>1 DEF Inv

LEMMA RereadKeeps == ASSUME Inv, NEW c \in Client, Reread(c) PROVE Inv'
<1>1. PICK t, cl, h, m : t = call[c].filled /\ cl = call[c] /\ h = held /\ m = now
  OBVIOUS
<1>2. cl \in CallType /\ Placed(cl) /\ Reading(cl, h, m) /\ cl.step = "reread"
  BY <1>1 DEF Inv, Knows, Reread, At
<1>3. \E k \in Key : cl.keys = {k} /\ \E s \in Target : Sourced(cl, h, m, k, s)
  BY <1>2, AtSource
<1>4. t \in Target
  BY <1>1, <1>2, <1>3 DEF Sourced, Fillable, FillsUpstream
<1> QED
  BY <1>1, <1>4, ResumeKeeps

\* Every step keeps the invariant.
LEMMA NextKeeps == ASSUME Inv, Next PROVE Inv'
<1>1. CASE Tick
  BY <1>1, TickKeeps
<1>2. ASSUME NEW t \in Target, NEW k \in Key, Vanish(t, k) PROVE Inv'
  BY <1>2, VanishKeeps
<1>3. ASSUME NEW c \in Client, NEW k \in Touches[c],
             StartSet(c, k) \/ StartDelete(c, k) \/ StartStream(c, k) PROVE Inv'
  BY <1>3, StartWriting
<1>4. ASSUME NEW c \in Client, NEW k \in Touches[c], StartRead(c, k) PROVE Inv'
  BY <1>4, StartReading
<1>5. ASSUME NEW c \in Client, NEW K \in SUBSET Key, StartGroup(c, K) PROVE Inv'
  BY <1>5, StartGrouping
<1>6. ASSUME NEW c \in Client, StartGc(c) \/ Return(c) \/ ListGroup(c) \/ Stream(c) PROVE Inv'
  BY <1>6, StartCollecting, ReturnKeeps, ListKeeps, StreamKeeps
<1>7. ASSUME NEW c \in Client, Reread(c) \/ Copy(c) \/ CallFails(c) PROVE Inv'
  BY <1>7, RereadKeeps, CopyKeeps, CallFailsKeeps
<1>8. ASSUME NEW c \in Client, NEW a \in FillArgs, StartFill(c, a[1], a[2]) PROVE Inv'
  <2>1. PICK size, limit : size = a[1] /\ limit = a[2]
    OBVIOUS
  <2>2. size \in Nat \ {0} /\ limit \in Nat \ {0}
    BY <2>1, UpkeepAssumption
  <2> QED
    BY <2>1, <2>2, <1>8, StartFilling
<1>9. ASSUME NEW c \in Client, NEW t \in Target,
             Set(c, t) \/ Remove(c, t) \/ Open(c, t) \/ Feed(c, t) PROVE Inv'
  BY <1>9, SetKeeps, RemoveKeeps, OpenKeeps, FeedKeeps
<1>10. ASSUME NEW c \in Client, NEW t \in Target,
              Look(c, t) \/ Stat(c, t) \/ FillStream(c, t) \/ RereadSource(c, t) PROVE Inv'
  BY <1>10, LookKeeps, StatKeeps, FillStreamKeeps, ResumeKeeps
<1>11. ASSUME NEW c \in Client, NEW t \in Target,
              Page(c, t) \/ Check(c, t) \/ ReadPage(c, t) \/ StatPage(c, t) PROVE Inv'
  BY <1>11, PageKeeps, CheckKeeps, ReadPageKeeps, StatPageKeeps
<1>12. ASSUME NEW c \in Client, NEW t \in Target,
              Spread(c, t) \/ SyncFails(c, t) \/ FillFails(c, t) PROVE Inv'
  BY <1>12, SpreadKeeps, SyncFailsKeeps, FillFailsKeeps
<1>13. ASSUME NEW c \in Client, NEW E \in SUBSET Key, Gc(c, E) PROVE Inv'
  BY <1>13, GcKeeps
<1>14. ASSUME NEW c \in Client, NEW E \in SUBSET Key, NEW t \in Target, Collect(c, t, E) PROVE Inv'
  BY <1>14, CollectKeeps
<1> QED
  BY <1>1, <1>2, <1>3, <1>4, <1>5, <1>6, <1>7, <1>8, <1>9, <1>10, <1>11, <1>12, <1>13, <1>14
  DEF Next

\* Invariance: whatever the calls, the failures and the passing of time, what every call
\* knows of the targets stays true (Topology, fill_missing, GroupedKvStore).  The
\* theorems that follow draw on it.
THEOREM Invariance == Spec => []Inv
<1>1. Inv /\ [Next]_vars => Inv'
  BY NextKeeps, StutterKeeps
<1> QED
  BY <1>1, InitInv, PTL DEF Spec
-----------------------------------------------------------------------------
(***************************************************************************)
(* What the invariant says of the properties checked.                      *)
(***************************************************************************)
LEMMA Typed == ASSUME Inv PROVE TypeOK
<1>1. \A c \in Client : call[c] \in CallType /\ Placed(call[c])
  BY DEF Inv, Knows
<1>2. \A c \in Client : /\ call[c].step \in Steps /\ call[c].todo \subseteq Target
                        /\ call[c].step \in Syncing => call[c].todo # {}
                        /\ call[c].keys \cup call[c].stale \cup call[c].want \subseteq Key
                        /\ call[c].val \in 0..MaxId
  <2> SUFFICES ASSUME NEW cl \in CallType, Placed(cl)
               PROVE  /\ cl.step \in Steps /\ cl.todo \subseteq Target
                      /\ cl.step \in Syncing => cl.todo # {}
                      /\ cl.keys \cup cl.stale \cup cl.want \subseteq Key /\ cl.val \in 0..MaxId
    BY <1>1
  <2>1. cl.step \in Steps
    BY StepNames DEF Steps, CallType
  <2> QED
    BY <2>1 DEF CallType, Placed
<1> QED
  BY <1>2 DEF Inv, TypeOK, Holding

\* A write that returned, of keys nobody touched.
LEMMA WritesReached == ASSUME Inv PROVE WritesReachAll
<1> SUFFICES ASSUME NEW c \in Client, Finished(c, {"set", "stream", "delete", "group"}),
                    NEW t \in Reached(c)
             PROVE  /\ \A k \in call[c].keys \ call[c].raced :
                          held[t][k] # Nothing /\ held[t][k].id = call[c].id
                    /\ \A k \in call[c].stale \ call[c].raced : held[t][k] = Nothing
  BY DEF WritesReachAll
<1>1. PICK cl, h, m : cl = call[c] /\ h = held /\ m = now
  OBVIOUS
<1>2. /\ cl.step = "done" /\ cl.op \in {"set", "stream", "delete", "group"} /\ ~cl.raised
      /\ t \in ReachedBy(cl) /\ Writing(cl, h, m)
  BY <1>1 DEF Finished, At, Reached, ReachedBy, Inv, Knows
<1>3. t \in Given(cl) /\ t \in Cleared(cl)
  BY <1>2 DEF Given, Cleared, Waiting
<1> QED
  BY <1>1, <1>2, <1>3 DEF Writing

LEMMA GroupExact == ASSUME Inv PROVE GroupIsExact
<1> SUFFICES ASSUME NEW c \in Client, Finished(c, {"group"}), call[c].raced = {}
             PROVE  LiveKeys(Main) = call[c].keys
  BY DEF GroupIsExact
<1>1. PICK cl, h, m : cl = call[c] /\ h = held /\ m = now
  OBVIOUS
<1>2. cl.step = "done" /\ cl.op = "group" /\ ~cl.raised /\ cl.raced = {} /\ Grouping(cl, h, m)
  BY <1>1 DEF Finished, At, Inv, Knows
<1>3. /\ AliveKeys(h, Main, m) \subseteq cl.keys \cup cl.stale
      /\ cl.keys \subseteq AliveKeys(h, Main, m) /\ AliveKeys(h, Main, m) \cap cl.stale = {}
  BY <1>2 DEF Grouping, Waiting
<1> QED
  BY <1>1, <1>3, JudgedKeys

LEMMA GcReached == ASSUME Inv PROVE GcReachesAll
<1> SUFFICES ASSUME NEW c \in Client, Finished(c, {"gc"}), NEW t \in Reached(c)
             PROVE  /\ \A k \in call[c].stale \ call[c].raced : held[t][k] = Nothing
                    /\ call[c].raced = {} =>
                         \/ ExpiredKeys(t) = {}
                         \/ Cardinality(call[c].due[t] \ ExpiredKeys(t)) >= GcLimit
  BY DEF GcReachesAll
<1>1. PICK cl, h, m : cl = call[c] /\ h = held /\ m = now
  OBVIOUS
<1>2. /\ cl.step = "done" /\ cl.op = "gc" /\ ~cl.raised /\ t \in ReachedBy(cl)
      /\ Collecting(cl, h, m)
  BY <1>1 DEF Finished, At, Reached, ReachedBy, Inv, Knows
<1>3. t \in Forgetting(cl) /\ t \in CollectedBy(cl)
  BY <1>2 DEF Forgetting, CollectedBy
<1>4. ExpiredKeys(t) = RunOutKeys(h, t, m)
  BY <1>1, JudgedKeys
<1> QED
  BY <1>1, <1>2, <1>3, <1>4 DEF Collecting

LEMMA ReadFound == ASSUME Inv PROVE ReadFindsIt
<1> SUFFICES ASSUME NEW c \in Client, Finished(c, {"read"}), call[c].raced = {}
             PROVE  (call[c].val # 0) = (call[c].due # {})
  BY DEF ReadFindsIt
<1>1. PICK cl, h, m : cl = call[c] /\ h = held /\ m = now
  OBVIOUS
<1>2. cl.step = "done" /\ cl.op = "read" /\ ~cl.raised /\ cl.raced = {} /\ Reading(cl, h, m)
  BY <1>1 DEF Finished, At, Inv, Knows
<1>3. cl.val # 0 <=> cl.due # {}
  BY <1>2 DEF Reading
<1> QED
  BY <1>1, <1>3

\* What a fill reports, and what it has copied when it returns.
LEMMA FillCounted == ASSUME Inv PROVE FillAccounts
<1> SUFFICES ASSUME NEW c \in Client, call[c].op = "fill"
             PROVE  LET n == call[c].n
                    IN /\ n.missing = n.written + n.lost + n.miss
                       /\ n.missing <= n.scanned /\ n.written <= call[c].limit
                       /\ n.written >= Cardinality(call[c].mine)
                       /\ call[c].unfair = {}
  BY DEF FillAccounts
<1>1. PICK cl, h, m, o, r : cl = call[c] /\ h = held /\ m = now /\ o = old /\ r = redated
  OBVIOUS
<1>2. Accounts(cl, h)
  BY <1>1 DEF Inv, Knows, Filling
<1> QED
  BY <1>1, <1>2 DEF Accounts

LEMMA FillFound == ASSUME Inv PROVE FillFindsAll
<1> SUFFICES ASSUME NEW c \in Client, Finished(c, {"fill"}), call[c].n.written < call[c].limit,
                    NEW k \in Key \ call[c].raced, NEW f \in call[c].due[k]
             PROVE  held[Main][k] # Nothing /\ held[Main][k].id = held[f][k].id
  BY DEF FillFindsAll
<1>1. PICK cl, h, m, o, r : cl = call[c] /\ h = held /\ m = now /\ o = old /\ r = redated
  OBVIOUS
<1>2. /\ cl.step = "done" /\ cl.op = "fill" /\ ~cl.raised /\ cl.n.written < cl.limit
      /\ Filling(cl, h, m, o, r) /\ cl \in CallType
  BY <1>1 DEF Finished, At, Inv, Knows
<1>3. Owed(cl, h, m, k, f)
  BY <1>1, <1>2 DEF Filling
<1>4. ~ToCome(cl, k, f)
  <2>1. cl.n.written \in Nat /\ cl.limit \in Nat
    BY <1>2 DEF CallType, Tally
  <2> QED
    BY <2>1, <1>2 DEF ToCome
<1>5. /\ f = Main => Alive(h[Main][k], m)
      /\ f # Main => Alive(h[f][k], m) /\ h[Main][k] = h[f][k]
  BY <1>3, <1>4 DEF Owed
<1> QED
  BY <1>1, <1>5 DEF Alive

LEMMA LifeKept == ASSUME Inv PROVE CopyKeepsItsLife
BY DEF Inv, KeepsLife, CopyKeepsItsLife

-----------------------------------------------------------------------------
\* The types of the state hold throughout: what the targets hold, the time, and where
\* each call stands (_Entry and the calls of Topology, LogicalStore and GroupedKvStore).
THEOREM TypeCorrectness == Spec => []TypeOK
BY Invariance, Typed, PTL

\* A set, stream, delete, group or gc that returns did its work in the authority and in
\* every dependent whose failure it did not tolerate, for each key nobody else touched
\* meanwhile, whatever the others do and however calls fail (Topology._settle, gc,
\* write_stream; GroupedKvStore.set).
THEOREM CallsReach == Spec => []CallsReachAll
<1>1. Inv => CallsReachAll
  BY Typed, WritesReached, GroupExact, GcReached DEF CallsReachAll
<1> QED
  BY <1>1, Invariance, PTL

\* A streamed read that nobody disturbs answers the record exactly when a target it
\* consults held it, over any number of fills and failed fills (_fill_stream).
THEOREM ReadFinds == Spec => []ReadFindsIt
BY Invariance, ReadFound, PTL

\* What fill_missing reports adds up and stays within its limit, below its limit it copies
\* every key it owes, of the fallback a read reaches first, and no copy of a fallback's
\* value has another clock than the fallback's unless it is noted (fill_missing,
\* _fill_stream), for any page size, limit, number of fallbacks and of callers.
THEOREM CopiesTrue == Spec => []CopiesAreTrue
<1>1. Inv => CopiesAreTrue
  BY FillCounted, FillFound, LifeKept DEF CopiesAreTrue
<1> QED
  BY <1>1, Invariance, PTL

-----------------------------------------------------------------------------
(***************************************************************************)
(* What no step may do.  Only Copy changes what a fill has counted, and    *)
(* only FillStream writes for a read; the other steps count for nothing.   *)
(***************************************************************************)
Neither(c) == call'[c].n = call[c].n /\ ~(At(c, "fill") /\ call'[c].step = "reread")

LEMMA NeitherSuffices ==
    ASSUME NEW c, Neither(c) PROVE FillReplacesNothing(c) /\ ReadsRestoreNothing(c)
BY DEF Neither, FillReplacesNothing, ReadsRestoreNothing

LEMMA OwnNeither ==
    ASSUME NEW c \in Client, NEW h2, NEW cl2, Becomes(c, h2, cl2), cl2.n = call[c].n,
           ~At(c, "fill") \/ cl2.step # "reread"
    PROVE  Neither(c)
<1>1. call'[c] = cl2
  BY DEF Becomes
<1> QED
  BY <1>1 DEF Neither

LEMMA OtherNeither ==
    ASSUME Inv, NEW c \in Client, NEW d \in Client, d # c, NEW h2, NEW cl2, Becomes(d, h2, cl2)
    PROVE  Neither(c)
<1>1. call[c] \in CallType /\ (At(c, "idle") => call[c] = Idle)
  BY DEF Inv, Knows, Placed, At
<1>2. PICK touched, given :
        call'[c] = IF At(c, "idle") THEN Idle
                   ELSE [call[c] EXCEPT !.raced = @ \cup touched, !.met = @ \cup given]
  BY DEF Becomes
<1>3. call'[c].n = call[c].n /\ call'[c].step = call[c].step
  BY <1>1, <1>2 DEF CallType
<1> QED
  BY <1>3 DEF Neither, At

LEMMA TimeNeither ==
    ASSUME Inv, NEW c \in Client, Tick \/ \E t \in Target, k \in Key : Vanish(t, k) PROVE Neither(c)
<1>1. call[c] \in CallType /\ (At(c, "idle") => call[c] = Idle)
  BY DEF Inv, Knows, Placed, At
<1>2. PICK T : call'[c] = IF At(c, "idle") THEN Idle ELSE [call[c] EXCEPT !.raced = @ \cup T]
  BY DEF Tick, Vanish
<1>3. call'[c].n = call[c].n /\ call'[c].step = call[c].step
  BY <1>1, <1>2 DEF CallType
<1> QED
  BY <1>3 DEF Neither, At

\* A step of client d that leaves its count alone and is no fill of a read.
Uncounted(d) ==
    \E h2, cl2 : /\ Becomes(d, h2, cl2) /\ cl2.n = call[d].n
                 /\ ~At(d, "fill") \/ cl2.step # "reread"

LEMMA UncountedNeither ==
    ASSUME Inv, NEW c \in Client, NEW d \in Client, Uncounted(d) PROVE Neither(c)
<1>1. CASE d = c
  BY <1>1, OwnNeither DEF Uncounted
<1>2. CASE d # c
  BY <1>2, OtherNeither DEF Uncounted
<1> QED
  BY <1>1, <1>2

LEMMA PastCounts ==
    ASSUME NEW cl \in CallType, NEW t \in Target PROVE Past(cl, t).n = cl.n
BY PastMoves DEF Moves

LEMMA BeginUncounted ==
    ASSUME Inv, NEW d \in Client, NEW op, NEW cl, [cl EXCEPT !.op = op].n = Counts, Begin(d, op, cl)
    PROVE  Uncounted(d)
<1>1. call[d] = Idle /\ ~At(d, "fill")
  BY DEF Inv, Knows, Placed, At, Begin
<1>2. PICK cl2 : cl2 = [cl EXCEPT !.op = op]
  OBVIOUS
<1>3. cl2.n = call[d].n
  BY <1>1, <1>2 DEF Idle
<1>4. Becomes(d, held, cl2)
  BY <1>2 DEF Begin, Goes
<1> QED
  BY <1>1, <1>3, <1>4 DEF Uncounted

LEMMA StartsUncounted ==
    ASSUME Inv, NEW d \in Client,
           \/ \E k \in Touches[d] : StartSet(d, k) \/ StartDelete(d, k) \/ StartStream(d, k) \/ StartRead(d, k)
           \/ \E K \in SUBSET Key : StartGroup(d, K)
           \/ StartGc(d)
           \/ \E a \in FillArgs : StartFill(d, a[1], a[2])
    PROVE  Uncounted(d)
<1>1. ASSUME NEW k \in Touches[d], StartSet(d, k) \/ StartDelete(d, k) \/ StartStream(d, k)
      PROVE  Uncounted(d)
  BY <1>1, BeginUncounted DEF StartSet, StartDelete, StartStream, Idle
<1>2. ASSUME NEW k \in Touches[d], StartRead(d, k) PROVE Uncounted(d)
  BY <1>2, BeginUncounted DEF StartRead, Idle
<1>3. ASSUME NEW K \in SUBSET Key, StartGroup(d, K) PROVE Uncounted(d)
  BY <1>3, BeginUncounted DEF StartGroup, Idle
<1>4. CASE StartGc(d)
  BY <1>4, BeginUncounted DEF StartGc, Idle
<1>5. ASSUME NEW a \in FillArgs, StartFill(d, a[1], a[2]) PROVE Uncounted(d)
  BY <1>5, BeginUncounted DEF StartFill, Idle
<1> QED
  BY <1>1, <1>2, <1>3, <1>4, <1>5

LEMMA WritesUncounted ==
    ASSUME Inv, NEW d \in Client, NEW t \in Target,
           \/ Set(d, t) \/ Remove(d, t) \/ Open(d, t) \/ Feed(d, t) \/ Spread(d, t)
           \/ \E E : Collect(d, t, E)
    PROVE  Uncounted(d)
<1>1. call[d] \in CallType
  BY DEF Inv
<1>2. PICK cl : cl = call[d]
  OBVIOUS
<1>3. ASSUME NEW cl1 \in CallType, cl1.n = cl.n, NEW h2, Becomes(d, h2, Past(cl1, t)), ~At(d, "fill")
      PROVE  Uncounted(d)
  BY <1>2, <1>3, PastCounts DEF Uncounted
<1>4. ASSUME Set(d, t) PROVE Uncounted(d)
  <2>1. PICK id, cl1, h2 : /\ id = (IF t = Main THEN lastId + 1 ELSE cl.id)
                           /\ cl1 = [cl EXCEPT !.id = id] /\ h2 = Put(t, cl.keys, Of(id), Of(now))
    OBVIOUS
  <2>2. Becomes(d, h2, Past(cl1, t)) /\ id <= MaxId /\ ~At(d, "fill")
    BY <2>1, <1>2, <1>4 DEF Set, At
  <2>3. id \in 0..MaxId
    BY <2>1, <2>2, <1>1, <1>2, Sizes DEF Inv, CallType
  <2>4. cl1 \in CallType /\ cl1.n = cl.n
    BY <2>1, <2>3, <1>1, <1>2 DEF CallType
  <2> QED
    BY <2>2, <2>4, <1>3
<1>5. ASSUME Remove(d, t) PROVE Uncounted(d)
  <2>1. PICK h2 : h2 = Without(t, cl.stale)
    OBVIOUS
  <2>2. Becomes(d, h2, Past(cl, t)) /\ ~At(d, "fill")
    BY <2>1, <1>2, <1>5 DEF Remove, At
  <2> QED
    BY <2>2, <1>1, <1>2, <1>3
<1>6. ASSUME Open(d, t) PROVE Uncounted(d)
  <2>1. PICK h2, cl2 : /\ h2 = LookedUp(Main, cl.keys)
                       /\ cl2 = IF Answer(d, Main) = 0 THEN Past(cl, t)
                                ELSE [cl EXCEPT !.step = "feed", !.val = Answer(d, Main)]
    OBVIOUS
  <2>2. Becomes(d, h2, cl2) /\ ~At(d, "fill")
    BY <2>1, <1>2, <1>6 DEF Open, At
  <2>3. cl2.n = cl.n
    <3>1. [cl EXCEPT !.step = "feed", !.val = Answer(d, Main)].n = cl.n
      BY <1>1, <1>2 DEF CallType
    <3> QED
      BY <3>1, <2>1, <1>1, <1>2, PastCounts
  <2> QED
    BY <2>2, <2>3, <1>2 DEF Uncounted
<1>7. ASSUME Feed(d, t) PROVE Uncounted(d)
  <2>1. PICK cl1, h2 : cl1 = [cl EXCEPT !.step = "open"] /\ h2 = Put(t, cl.keys, Of(cl.val), Of(now))
    OBVIOUS
  <2>2. Becomes(d, h2, Past(cl1, t)) /\ ~At(d, "fill")
    BY <2>1, <1>2, <1>7 DEF Feed, At
  <2>3. cl1 \in CallType /\ cl1.n = cl.n
    BY <2>1, <1>1, <1>2, Stepping DEF CallType
  <2> QED
    BY <2>2, <2>3, <1>3
<1>8. ASSUME Spread(d, t) PROVE Uncounted(d)
  <2>1. PICK batch, h2, cl1, cl2 :
          /\ batch = {k \in cl.left : cl.clocks[k] = cl.clocks[Min(cl.left)]}
          /\ h2 = Put(t, batch, cl.found, [k \in batch |-> WriteClock(cl.clocks[k])])
          /\ cl1 = [cl EXCEPT !.left = cl.stale]
          /\ cl2 = IF batch = cl.left THEN Past(cl1, t) ELSE [cl EXCEPT !.left = @ \ batch]
    OBVIOUS
  <2>2. Becomes(d, h2, cl2) /\ ~At(d, "fill")
    BY <2>1, <1>2, <1>8 DEF Spread, At
  <2>3. cl1 \in CallType /\ cl1.n = cl.n /\ [cl EXCEPT !.left = @ \ batch].n = cl.n
    BY <2>1, <1>1, <1>2 DEF CallType
  <2>4. cl2.n = cl.n
    BY <2>1, <2>3, PastCounts
  <2> QED
    BY <2>2, <2>4, <1>2 DEF Uncounted
<1>9. ASSUME NEW E, Collect(d, t, E) PROVE Uncounted(d)
  <2>1. PICK h2 : h2 = Without(t, E)
    OBVIOUS
  <2>2. Becomes(d, h2, Past(cl, t)) /\ ~At(d, "fill")
    BY <2>1, <1>2, <1>9 DEF Collect, At
  <2> QED
    BY <2>2, <1>1, <1>2, <1>3
<1> QED
  BY <1>4, <1>5, <1>6, <1>7, <1>8, <1>9

LEMMA ReadsUncounted ==
    ASSUME Inv, NEW d \in Client, NEW t \in Target,
           \/ Look(d, t) \/ Stat(d, t) \/ RereadSource(d, t) \/ Reread(d)
           \/ Page(d, t) \/ Check(d, t) \/ ReadPage(d, t) \/ StatPage(d, t)
    PROVE  Uncounted(d)
<1>1. PICK cl : cl = call[d] /\ cl \in CallType
  BY DEF Inv
<1>2. CASE Look(d, t)
  <2>1. PICK h2, cl2 : h2 = LookedUp(t, cl.keys) /\ cl2 = 
                 IF Answer(d, t) # 0
                 THEN [cl EXCEPT !.src = {t}, !.val = Answer(d, t), !.todo = Fillable(t, cl.missed),
                                 !.step = IF Fillable(t, cl.missed) = {} THEN "done" ELSE "stat"]
                 ELSE [cl EXCEPT !.missed = @ \cup {t}, !.todo = @ \ {t},
                                 !.step = IF cl.todo = {t} THEN "done" ELSE "look"]
    OBVIOUS
  <2>2. Becomes(d, h2, cl2) /\ ~At(d, "fill")
    BY <2>1, <1>1, <1>2 DEF Look, At
  <2>3. cl2.n = cl.n
    BY <2>1, <1>1 DEF CallType
  <2> QED
    BY <2>2, <2>3, <1>1 DEF Uncounted
<1>3. CASE Stat(d, t)
  <2>1. PICK h2, cl2 : h2 = LookedUp(t, cl.keys) /\ cl2 = 
                 [cl EXCEPT !.step = "fill",
                     !.clock = IF Answer(d, t) = 0 THEN Nothing ELSE held[t][TheKey(d)].clock]
    OBVIOUS
  <2>2. Becomes(d, h2, cl2) /\ ~At(d, "fill")
    BY <2>1, <1>1, <1>3 DEF Stat, At
  <2>3. cl2.n = cl.n
    BY <2>1, <1>1 DEF CallType
  <2> QED
    BY <2>2, <2>3, <1>1 DEF Uncounted
<1>4. CASE RereadSource(d, t)
  <2>1. PICK h2, cl2 : h2 = LookedUp(t, cl.keys) /\ cl2 = 
                 [cl EXCEPT !.val = Answer(d, t),
                            !.step = IF Answer(d, t) = 0 THEN "done"
                                     ELSE IF cl.todo = {} THEN "done" ELSE "fill"]
    OBVIOUS
  <2>2. Becomes(d, h2, cl2) /\ ~At(d, "fill")
    BY <2>1, <1>1, <1>4 DEF RereadSource, Resume, At
  <2>3. cl2.n = cl.n
    BY <2>1, <1>1 DEF CallType
  <2> QED
    BY <2>2, <2>3, <1>1 DEF Uncounted
<1>5. CASE Reread(d)
  <2>1. PICK h2, cl2 : h2 = LookedUp(cl.filled, cl.keys) /\ cl2 = 
                 [cl EXCEPT !.val = Answer(d, cl.filled),
                            !.step = IF Answer(d, cl.filled) = 0 THEN "again"
                                     ELSE IF cl.todo = {} THEN "done" ELSE "fill"]
    OBVIOUS
  <2>2. Becomes(d, h2, cl2) /\ ~At(d, "fill")
    BY <2>1, <1>1, <1>5 DEF Reread, Resume, At
  <2>3. cl2.n = cl.n
    BY <2>1, <1>1 DEF CallType
  <2> QED
    BY <2>2, <2>3, <1>1 DEF Uncounted
<1>6. CASE Page(d, t)
  <2>1. PICK keys, fresh, h2, cl2 :
          /\ keys = PageAfter(t, cl.after, cl.size) /\ h2 = LookedUp(t, Key)
          /\ fresh = [cl EXCEPT !.found = <<>>, !.clocks = <<>>, !.page = keys, !.want = keys]
          /\ cl2 = IF keys = {}
                   THEN [fresh EXCEPT !.src = NextFallback(t), !.after = 0,
                                      !.step = IF NextFallback(t) = {} THEN "done" ELSE "page"]
                   ELSE [fresh EXCEPT !.after = Max(keys), !.step = "check", !.todo = Ahead(t),
                                      !.met = {}]
    OBVIOUS
  <2>2. Becomes(d, h2, cl2) /\ ~At(d, "fill")
    BY <2>1, <1>1, <1>6 DEF Page, At
  <2>3. cl2.n = cl.n
    BY <2>1, <1>1 DEF CallType
  <2> QED
    BY <2>2, <2>3, <1>1 DEF Uncounted
<1>7. CASE Check(d, t)
  <2>1. PICK absent, rest, h2, cl2 :
          /\ absent = cl.want \ LiveKeys(t) /\ rest = cl.todo \ {t} /\ h2 = LookedUp(t, cl.want)
          /\ cl2 = [cl EXCEPT !.want = absent, !.todo = rest,
                              !.step = IF absent = {} THEN "copy"
                                       ELSE IF rest = {} THEN "get" ELSE "check"]
    OBVIOUS
  <2>2. Becomes(d, h2, cl2) /\ ~At(d, "fill")
    BY <2>1, <1>1, <1>7 DEF Check, At
  <2>3. cl2.n = cl.n
    BY <2>1, <1>1 DEF CallType
  <2> QED
    BY <2>2, <2>3, <1>1 DEF Uncounted
<1>8. CASE ReadPage(d, t)
  <2>1. PICK there, h2, cl2 :
          /\ there = cl.want \cap LiveKeys(t) /\ h2 = LookedUp(t, cl.want)
          /\ cl2 = [cl EXCEPT !.found = [k \in there |-> held[t][k].id],
                              !.step = IF there = {} THEN "copy" ELSE "dates"]
    OBVIOUS
  <2>2. Becomes(d, h2, cl2) /\ ~At(d, "fill")
    BY <2>1, <1>1, <1>8 DEF ReadPage, At
  <2>3. cl2.n = cl.n
    BY <2>1, <1>1 DEF CallType
  <2> QED
    BY <2>2, <2>3, <1>1 DEF Uncounted
<1>9. CASE StatPage(d, t)
  <2>1. PICK h2, cl2 : h2 = LookedUp(t, DOMAIN cl.found) /\ cl2 = 
                 [cl EXCEPT !.step = "copy",
                     !.clocks = [k \in DOMAIN cl.found |->
                                   IF k \in LiveKeys(t) THEN held[t][k].clock ELSE Nothing]]
    OBVIOUS
  <2>2. Becomes(d, h2, cl2) /\ ~At(d, "fill")
    BY <2>1, <1>1, <1>9 DEF StatPage, At
  <2>3. cl2.n = cl.n
    BY <2>1, <1>1 DEF CallType
  <2> QED
    BY <2>2, <2>3, <1>1 DEF Uncounted
<1> QED
  BY <1>2, <1>3, <1>4, <1>5, <1>6, <1>7, <1>8, <1>9

LEMMA ListsUncounted ==
    ASSUME Inv, NEW d \in Client, ListGroup(d) \/ Stream(d) \/ CallFails(d) \/ \E E : Gc(d, E)
    PROVE  Uncounted(d)
<1>1. PICK cl : cl = call[d] /\ cl \in CallType
  BY DEF Inv
<1>2. CASE ListGroup(d)
  <2>1. PICK cl1, h2, cl2 :
          /\ cl1 = [cl EXCEPT !.stale = LiveKeys(Main) \ cl.keys, !.todo = {Main}]
          /\ h2 = LookedUp(Main, Key)
          /\ cl2 = IF cl1.keys # {} THEN [cl1 EXCEPT !.step = "set"]
                   ELSE IF cl1.stale # {} THEN [cl1 EXCEPT !.step = "remove"] ELSE Done(cl1)
    OBVIOUS
  <2>2. Becomes(d, h2, cl2) /\ ~At(d, "fill")
    BY <2>1, <1>1, <1>2 DEF ListGroup, At
  <2>3. cl2.n = cl.n
    BY <2>1, <1>1 DEF CallType, Done
  <2> QED
    BY <2>2, <2>3, <1>1 DEF Uncounted
<1>3. CASE Stream(d)
  <2>1. PICK h2, cl2 :
          /\ h2 = Put(Main, cl.keys, Of(lastId + 1), Of(now))
          /\ cl2 = [cl EXCEPT !.id = lastId + 1, !.step = "open", !.todo = Dependents]
    OBVIOUS
  <2>2. Becomes(d, h2, cl2) /\ ~At(d, "fill")
    BY <2>1, <1>1, <1>3 DEF Stream, At
  <2>3. cl2.n = cl.n
    BY <2>1, <1>1 DEF CallType
  <2> QED
    BY <2>2, <2>3, <1>1 DEF Uncounted
<1>4. CASE CallFails(d)
  <2>1. PICK h2, cl2 : h2 = held /\ cl2 = Raised(cl)
    OBVIOUS
  <2>2. Becomes(d, h2, cl2)
    BY <2>1, <1>1, <1>4 DEF CallFails, Failing, Goes
  <2>3. cl2.n = cl.n /\ cl2.step = "done"
    BY <2>1, <1>1 DEF CallType, Raised
  <2> QED
    BY <2>2, <2>3, <1>1 DEF Uncounted
<1>5. ASSUME NEW E, Gc(d, E) PROVE Uncounted(d)
  <2>1. PICK h2, cl2 :
          /\ h2 = Without(Main, E)
          /\ cl2 = [cl EXCEPT !.stale = E, !.todo = Dependents,
                              !.step = IF E = {} THEN "collect" ELSE "forget"]
    OBVIOUS
  <2>2. Becomes(d, h2, cl2) /\ ~At(d, "fill")
    BY <2>1, <1>1, <1>5 DEF Gc, At
  <2>3. cl2.n = cl.n
    BY <2>1, <1>1 DEF CallType
  <2> QED
    BY <2>2, <2>3, <1>1 DEF Uncounted
<1> QED
  BY <1>2, <1>3, <1>4, <1>5

LEMMA FailuresUncounted ==
    ASSUME Inv, NEW d \in Client, NEW t \in Target, SyncFails(d, t) \/ FillFails(d, t)
    PROVE  Uncounted(d)
<1>1. PICK cl : cl = call[d] /\ cl \in CallType
  BY DEF Inv
<1>2. CASE FillFails(d, t)
  <2>1. PICK h2, cl2 : h2 = held /\ cl2 = [cl EXCEPT !.step = "again", !.todo = @ \ {t}]
    OBVIOUS
  <2>2. Becomes(d, h2, cl2)
    BY <2>1, <1>1, <1>2 DEF FillFails, Failing, Goes
  <2>3. cl2.n = cl.n /\ cl2.step = "again"
    BY <2>1, <1>1 DEF CallType
  <2> QED
    BY <2>2, <2>3, <1>1 DEF Uncounted
<1>3. CASE SyncFails(d, t)
  <2>1. PICK h2, cl2 : h2 = held /\ cl2 = Settled(cl, t)
    OBVIOUS
  <2>2. Becomes(d, h2, cl2) /\ cl.step \in Syncing
    BY <2>1, <1>1, <1>3 DEF SyncFails, Failing, Goes
  <2>3. cl2.n = cl.n
    <3>1. CASE t = Main \/ (t \in Required /\ cl.op # "gc")
      <4>1. cl2 = Raised(cl)
        BY <2>1, <3>1 DEF Settled
      <4> QED
        BY <4>1, <1>1 DEF Raised, CallType
    <3>2. CASE ~(t = Main \/ (t \in Required /\ cl.op # "gc"))
      <4> DEFINE tolerated == [cl EXCEPT !.failed = @ \cup {t},
                                         !.step = IF @ = "feed" THEN "open" ELSE @]
                 cl1 == [tolerated EXCEPT !.left = cl.stale]
                 left == {k \in cl.left : cl.clocks[k] # cl.clocks[Min(cl.left)]}
      <4>1. PICK failed, step : /\ failed = cl.failed \cup {t}
                                /\ step = (IF cl.step = "feed" THEN "open" ELSE cl.step)
        OBVIOUS
      <4>3. tolerated = [cl EXCEPT !.failed = failed, !.step = step]
        BY <4>1, <1>1 DEF CallType
      <4>4. cl2 = IF cl.step = "spread" /\ left # {}
                  THEN [tolerated EXCEPT !.left = {k \in @ : cl.clocks[k] # cl.clocks[Min(@)]}]
                  ELSE Past(cl1, t)
        BY <3>2, <2>1 DEF Settled
      <4>2. cl1 = [tolerated EXCEPT !.left = cl.stale]
        OBVIOUS
      <4> HIDE DEF tolerated, cl1, left
      <4>5. step \in AllSteps /\ failed \in SUBSET Target
        BY <4>1, <1>1, Stepping DEF CallType
      <4>6. tolerated \in CallType /\ tolerated.n = cl.n
        BY <4>3, <4>5, <1>1 DEF CallType
      <4>7. cl1 \in CallType /\ cl1.n = cl.n
        BY <4>2, <4>6, <1>1 DEF CallType
      <4>8. \A S : [tolerated EXCEPT !.left = S].n = cl.n
        BY <4>6 DEF CallType
      <4> QED
        BY <4>4, <4>7, <4>8, PastCounts
    <3> QED
      BY <3>1, <3>2
  <2>4. ~At(d, "fill")
    BY <2>2, <1>1 DEF At, Syncing
  <2> QED
    BY <2>2, <2>3, <2>4, <1>1 DEF Uncounted
<1> QED
  BY <1>2, <1>3

\* A streamed read writes to the authority only what its source, a fallback, holds.
LEMMA FillStreamRestores ==
    ASSUME Inv, NEW c \in Client, NEW t \in Target, FillStream(c, t)
    PROVE  FillReplacesNothing(c) /\ ReadsRestoreNothing(c)
<1>1. PICK cl, h, m, o, r : cl = call[c] /\ h = held /\ m = now /\ o = old /\ r = redated
  OBVIOUS
<1>2. PICK id, clock, h2, cl2 :
        /\ id = Of(cl.val) /\ clock = Of(WriteClock(cl.clock)) /\ h2 = Put(t, cl.keys, id, clock)
        /\ cl2 = [cl EXCEPT !.step = "reread", !.filled = t, !.todo = @ \ {t}]
  OBVIOUS
<1>3. /\ cl \in CallType /\ Placed(cl) /\ Reading(cl, h, m) /\ FromOld(h, o) /\ h \in Holding
      /\ m \in 0..MaxTime
  BY <1>1 DEF Inv, Knows
<1>4. cl.step = "fill" /\ t \in cl.todo /\ Becomes(c, h2, cl2)
  BY <1>1, <1>2, FirstIsIn DEF FillStream, At
<1>5. call'[c] = cl2 /\ held' = h2
  BY <1>4 DEF Becomes
<1>6. FillReplacesNothing(c)
  <2>1. cl2.n = cl.n
    BY <1>2, <1>3 DEF CallType
  <2> QED
    BY <2>1, <1>1, <1>5 DEF FillReplacesNothing
<1>7. PICK k \in Key, s \in Target : cl.keys = {k} /\ Sourced(cl, h, m, k, s)
  BY <1>3, <1>4, AtSource
<1>8. cl.todo \subseteq Fillable(s, Target) /\ cl.val # 0
      /\ (cl.raced = {} => Alive(h[s][k], m) /\ cl.val = h[s][k].id)
  BY <1>4, <1>7 DEF Sourced
<1>9. Stores(held, h2, t, {k}, id, clock)
  <2>1. cl.val \in 1..MaxId /\ WriteClock(cl.clock) \in 0..MaxTime
    <3>1. PICK x : x = cl.clock
      OBVIOUS
    <3>2. x \in Clock
      BY <3>1, <1>3 DEF CallType
    <3>3. WriteClock(x) \in 0..MaxTime
      BY <3>2, <1>1, <1>3, ClockGiven
    <3> QED
      BY <3>1, <3>3, <1>3, <1>8, Sizes DEF CallType
  <2>2. Storable({k}, id, clock)
    BY <2>1, <1>2 DEF Storable, Of
  <2>3. PICK K : K = {k}
    OBVIOUS
  <2> QED
    BY <2>2, <2>3, <1>1, <1>2, <1>3, <1>7, PutThere
<1>10. /\ \A u \in Target, j \in Key : u # t \/ j # k => h2[u][j] = h[u][j]
       /\ h2[t][k] = [id |-> cl.val, clock |-> clock[k]]
  BY <1>1, <1>2, <1>9 DEF Stores, Alters, Of
<1>11. ReadsRestoreNothing(c)
  <2> SUFFICES ASSUME cl.raced = {}, NEW j \in Key, h2[Main][j] # h[Main][j]
               PROVE  h2[Main][j].id \in {e.id : e \in o[j]}
    BY <1>1, <1>5 DEF ReadsRestoreNothing
  <2>1. t = Main /\ j = k
    BY <1>10, Parties
  <2>2. s \in Fallbacks
    <3>1. PICK S : S = Target
      OBVIOUS
    <3>2. t \in Fillable(s, S) /\ S \in SUBSET Target
      BY <3>1, <1>4, <1>8
    <3> QED
      BY <3>2, <2>1, Downstream
  <2>3. h[s][k] \in o[k] /\ h[s][k].id = cl.val
    BY <2>2, <1>3, <1>8 DEF FromOld, Alive
  <2>4. h2[Main][j].id = cl.val
    BY <2>1, <1>10
  <2> QED
    BY <2>1, <2>3, <2>4
<1> QED
  BY <1>6, <1>11

\* fill_missing gives the authority only keys that are not live there.
LEMMA CopyReplacesNothing ==
    ASSUME Inv, NEW c \in Client, Copy(c) PROVE FillReplacesNothing(c) /\ ReadsRestoreNothing(c)
<1>1. PICK cl, scanned, copies : /\ cl = call[c] /\ cl \in CallType /\ scanned = Scanned(cl)
                                 /\ copies = scanned \cap Copyable(cl)
  BY DEF Inv
<1>2. ~At(c, "fill")
  BY DEF Copy, At
<1>3. \A k \in LiveKeys(Main) : held'[Main][k] = held[Main][k]
  <2>1. CASE \E cl2 : Goes(c, cl2)
    BY <2>1 DEF Goes, Becomes
  <2>2. ASSUME NEW won \in Insertable(copies), NEW clock, NEW cl2,
               Becomes(c, Put(Main, won, cl.found, clock), cl2)
        PROVE  \A k \in LiveKeys(Main) : held'[Main][k] = held[Main][k]
    <3>1. copies \in SUBSET Key
      BY <1>1 DEF Copyable, CallType
    <3>2. \A k \in won : ~Alive(held[Main][k], now)
      BY <3>1, <2>2, InsertableFacts
    <3>3. \A k \in LiveKeys(Main) : k \in Key /\ k \notin won
      BY <3>2, JudgedKeys DEF AliveKeys
    <3>4. PICK found : found = cl.found
      OBVIOUS
    <3>5. held' = Put(Main, won, found, clock)
      BY <2>2, <3>4 DEF Becomes
    <3>6. held \in [Target -> [Key -> Entries]] /\ Main \in Target
      BY Parties DEF Inv, Holding
    <3>7. \A k \in Key : k \notin won => held'[Main][k] = held[Main][k]
      BY <3>5, <3>6 DEF Put
    <3> QED
      BY <3>3, <3>7
  <2>3. (\E cl2 : Goes(c, cl2))
        \/ \E won \in Insertable(copies) : \E clock, cl2 : Becomes(c, Put(Main, won, cl.found, clock), cl2)
    BY <1>1 DEF Copy
  <2> QED
    BY <2>1, <2>2, <2>3
<1> QED
  BY <1>2, <1>3 DEF FillReplacesNothing, ReadsRestoreNothing

LEMMA ReturnCounts ==
    ASSUME NEW c \in Client, Return(c) PROVE FillReplacesNothing(c) /\ ReadsRestoreNothing(c)
<1>1. call'[c] = Idle
  BY DEF Return, Goes, Becomes
<1>2. Idle.op = "none" /\ Idle.step = "idle"
  BY DEF Idle
<1> QED
  BY <1>1, <1>2 DEF FillReplacesNothing, ReadsRestoreNothing

LEMMA NothingUndone ==
    ASSUME Inv, Next, NEW c \in Client PROVE FillReplacesNothing(c) /\ ReadsRestoreNothing(c)
<1>1. CASE Tick \/ \E t \in Target, k \in Key : Vanish(t, k)
  BY <1>1, TimeNeither, NeitherSuffices
<1>2. ASSUME NEW d \in Client, Uncounted(d) PROVE FillReplacesNothing(c) /\ ReadsRestoreNothing(c)
  BY <1>2, UncountedNeither, NeitherSuffices
<1>3. ASSUME NEW d \in Client, Return(d) PROVE FillReplacesNothing(c) /\ ReadsRestoreNothing(c)
  <2>1. CASE d = c
    BY <2>1, <1>3, ReturnCounts
  <2>2. CASE d # c
    <3>1. PICK h2, cl2 : h2 = held /\ cl2 = Idle
      OBVIOUS
    <3>2. Becomes(d, h2, cl2)
      BY <3>1, <1>3 DEF Return, Goes
    <3> QED
      BY <3>2, <2>2, OtherNeither, NeitherSuffices
  <2> QED
    BY <2>1, <2>2
<1>4. ASSUME NEW d \in Client, NEW t \in Target, FillStream(d, t)
      PROVE  FillReplacesNothing(c) /\ ReadsRestoreNothing(c)
  <2>1. CASE d = c
    BY <2>1, <1>4, FillStreamRestores
  <2>2. CASE d # c
    <3>1. \E h2, cl2 : Becomes(d, h2, cl2)
      BY <1>4 DEF FillStream
    <3> QED
      BY <3>1, <2>2, OtherNeither, NeitherSuffices
  <2> QED
    BY <2>1, <2>2
<1>5. ASSUME NEW d \in Client, Copy(d) PROVE FillReplacesNothing(c) /\ ReadsRestoreNothing(c)
  <2>1. CASE d = c
    BY <2>1, <1>5, CopyReplacesNothing
  <2>2. CASE d # c
    <3>1. \E h2, cl2 : Becomes(d, h2, cl2)
      BY <1>5 DEF Copy, Goes
    <3> QED
      BY <3>1, <2>2, OtherNeither, NeitherSuffices
  <2> QED
    BY <2>1, <2>2
<1>6. ASSUME NEW d \in Client,
             \/ \E k \in Touches[d] : StartSet(d, k) \/ StartDelete(d, k) \/ StartStream(d, k) \/ StartRead(d, k)
             \/ \E K \in SUBSET Key : StartGroup(d, K)
             \/ StartGc(d)
             \/ \E a \in FillArgs : StartFill(d, a[1], a[2])
      PROVE  FillReplacesNothing(c) /\ ReadsRestoreNothing(c)
  BY <1>2, <1>6, StartsUncounted
<1>7. ASSUME NEW d \in Client,
             ListGroup(d) \/ Stream(d) \/ CallFails(d) \/ Reread(d) \/ \E E \in SUBSET Key : Gc(d, E)
      PROVE  FillReplacesNothing(c) /\ ReadsRestoreNothing(c)
  BY <1>2, <1>7, ListsUncounted, ReadsUncounted, Parties
<1>8. ASSUME NEW d \in Client, NEW t \in Target,
             \/ Set(d, t) \/ Remove(d, t) \/ Open(d, t) \/ Feed(d, t) \/ Spread(d, t)
             \/ \E E \in SUBSET Key : Collect(d, t, E)
      PROVE  FillReplacesNothing(c) /\ ReadsRestoreNothing(c)
  BY <1>2, <1>8, WritesUncounted
<1>9. ASSUME NEW d \in Client, NEW t \in Target,
             \/ Look(d, t) \/ Stat(d, t) \/ RereadSource(d, t)
             \/ Page(d, t) \/ Check(d, t) \/ ReadPage(d, t) \/ StatPage(d, t)
             \/ SyncFails(d, t) \/ FillFails(d, t)
      PROVE  FillReplacesNothing(c) /\ ReadsRestoreNothing(c)
  BY <1>2, <1>9, ReadsUncounted, FailuresUncounted
<1> QED
  BY <1>1, <1>3, <1>4, <1>5, <1>6, <1>7, <1>8, <1>9 DEF Next

\* No step of fill_missing replaces a live entry of the authority, and no streamed read
\* whose key nobody touched gives the authority anything but what a fallback began with:
\* what a caller set or deleted there stays set or deleted (fill_missing, _fillable).
THEOREM NothingIsUndone == Spec => FillsUndoNothing
<1>1. Inv /\ [Next]_vars => [\A c \in Client : FillReplacesNothing(c) /\ ReadsRestoreNothing(c)]_vars
  BY NothingUndone
<1> QED
  BY <1>1, Invariance, PTL DEF Spec, FillsUndoNothing
=============================================================================
