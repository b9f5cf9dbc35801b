------------------------------ MODULE ScanRows ------------------------------
(***************************************************************************)
(* A scan while other clients write: what a leaf is asked to list, the     *)
(* view or record between it and the caller, the client-side cascade       *)
(* (store/schema/scan.py, store/fanout.py, store/leaf.py,                  *)
(* store/compose/topology.py and mapped.py), paging with a cursor, and     *)
(* delete_where.                                                           *)
(*                                                                         *)
(* A store is a view over a leaf.  Leaves: memory and redis (the default   *)
(* compile_scan over scan_entries), object (a listing with stats) and sql  *)
(* (keyset pages, or one ordered query).  Views: leaf (the leaf itself, or *)
(* a read-only view of it), mapped (map, imap), rekeyed (imap_keys),       *)
(* through (then, expand: the keys of one store, the values of another),   *)
(* commit (a record listed by its commit part) and union (a record listed  *)
(* by all its parts).  A row a leaf lists as expired is dropped there and  *)
(* is not in data; ObjectStore, SqlTable and LeafEntries model that.       *)
(***************************************************************************)
EXTENDS ScanPredicates

CONSTANTS
    Listing,     \* the keys in the order every leaf lists them
    ByColumn,    \* the keys in the order of the column order_by names
    Alike,       \* the keys SQLite's LIKE takes for the prefix: it ignores case
    Refined,     \* the keys spec.refine accepts
    Forward,     \* the function of map and imap
    Renamed,     \* from_store of imap_keys: the caller's key for a stored one
    Stores,      \* the stores scanned, [view, leaf]
    Specs,       \* the specs scanned with
    Trees,       \* the filters taken apart, besides those of Specs
    Contents,    \* what the parts may hold at first
    PageSize,    \* keys a page of the leaf, and of a record's confirmation
    FlushSize,   \* rows the cascade holds before it reads their values
    NoLimit, MaxWrites, MaxResumes

Parts == {1, 2}
Views == {"leaf", "mapped", "rekeyed", "through", "commit", "union"}
Leaves == {"memory", "redis", "object", "sql"}

ASSUME ScanAssumption ==
    /\ Under \subseteq Alike /\ Alike \subseteq Key
    /\ Forward \in [Value -> Value]
    /\ Renamed \in [Key -> Key]
    /\ \A k \in Key : \E j \in Key : Renamed[j] = k
    /\ \A j, k \in Key : Renamed[j] = Renamed[k] => j = k
    /\ Stores \subseteq [view : Views, leaf : Leaves]
    /\ Contents \subseteq [Parts -> [Key -> Value \cup {None}]]
    /\ NoLimit \notin Nat
    /\ PageSize \in Nat \ {0} /\ FlushSize \in Nat \ {0}
    /\ MaxWrites \in Nat /\ MaxResumes \in Nat

(* A leaf's order lists every key once.                                    *)
ASSUME OrderAssumption ==
    \A order \in {Listing, ByColumn} :
        /\ order \in Seq(Key)
        /\ \A k \in Key : \E i \in DOMAIN order : order[i] = k
        /\ \A i, j \in DOMAIN order : order[i] = order[j] => i = j

(* delete_where asks for keys.                                             *)
ASSUME SpecsAssumption ==
    \A spec \in Specs :
        /\ spec.limit \in (Nat \ {0}) \cup {NoLimit}
        /\ spec.project \in {"keys", "stats", "entries"}
        /\ {spec.refine, spec.orderBy, spec.strict, spec.delete} \subseteq BOOLEAN
        /\ spec.delete => spec.project = "keys"

VARIABLES
    data,      \* part -> key -> value: part 1 lists the keys, part 2 is the other
    old,       \* the keys whose entry in part 1 dates from before the scan
    store,     \* the store scanned
    scan,      \* the scan, from scan_rows to its last row
    listed,    \* the keys the pages before this one returned
    touched,   \* the caller's keys written since the first page was asked for
    writes, resumes

scanVars == <<data, old, store, scan, listed, touched, writes, resumes>>

ToStore(k) == CHOOSE j \in Key : Renamed[j] = k
KeysOf(rows) == [i \in DOMAIN rows |-> rows[i].key]
Position(order, k) == CHOOSE i \in DOMAIN order : order[i] = k

-----------------------------------------------------------------------------
(* The view's batch_get of one key.  A value predicate on a record reads   *)
(* its second part, or the first where the second is absent.               *)
BatchGet(d, k) ==
    CASE store.view = "leaf" -> d[1][k]
      [] store.view = "mapped" -> IF d[1][k] = None THEN None ELSE Forward[d[1][k]]
      [] store.view = "rekeyed" -> d[1][ToStore(k)]
      [] store.view \in {"through", "commit"} -> IF d[1][k] = None THEN None ELSE d[2][k]
      [] store.view = "union" -> IF d[2][k] # None THEN d[2][k] ELSE d[1][k]

(* The stores whose keys are listed: _scanned, _scan_src, _src.            *)
Scanned == IF store.view = "union" THEN <<1, 2>> ELSE <<1>>

(* needs_values.                                                           *)
NeedsValues(spec, residual) ==
    spec.project = "entries" \/ "value" \in Needs(residual)

(* scan_values_through: what a view of mapped values asks its source.      *)
ScanValuesThrough(spec) ==
    LET split == SplitKeyPredicates(spec.where)
        unfiltered == split.residual = AlwaysTrue /\ ~ spec.refine
    IN [where |-> split.keys, residual |-> split.residual,
        project |-> IF NeedsValues(spec, split.residual) THEN "entries" ELSE spec.project,
        limit |-> IF unfiltered THEN spec.limit ELSE NoLimit, refine |-> FALSE]

(* IMappedKeysKvStore.scan_rows: nothing about the caller's keys is asked  *)
(* of the store.                                                           *)
ScanRekeyed(spec) ==
    LET unfiltered == spec.where = AlwaysTrue /\ ~ spec.refine
    IN [where |-> AlwaysTrue, residual |-> spec.where,
        project |-> IF NeedsValues(spec, spec.where) THEN "entries" ELSE spec.project,
        limit |-> IF unfiltered THEN spec.limit ELSE NoLimit, refine |-> FALSE]

(* part_key_spec: the store that lists the keys is asked for keys alone.   *)
PartKeySpec(spec) ==
    LET split == SplitKeyPredicates(spec.where)
    IN [where |-> split.keys, residual |-> split.residual,
        project |-> "keys", limit |-> NoLimit, refine |-> FALSE]

(* What the leaf is asked.                                                 *)
Down(spec) ==
    CASE store.view = "leaf" -> [where |-> spec.where, residual |-> AlwaysTrue,
                                 project |-> spec.project, limit |-> spec.limit,
                                 refine |-> spec.refine]
      [] store.view = "mapped" -> ScanValuesThrough(spec)
      [] store.view = "rekeyed" -> ScanRekeyed(spec)
      [] OTHER -> PartKeySpec(spec)

LimitWhateverIsLeft(down) == down.limit

(* compile_scan of the SQL leaf with order_by: LIMIT goes to the database  *)
(* only when nothing is left to filter here.                               *)
OrderedLimit(down) ==
    IF PeelKeyPrefix(down.where).residual = AlwaysTrue /\ ~ down.refine
    THEN down.limit ELSE NoLimit

(* _compile_keyset_scan: the limit goes to the pages whatever is left.     *)
KeysetLimit(down) == down.limit

(* compile_from_scan_entries and the object leaf's compile_scan: a prefix  *)
(* is peeled for the listing, and the limit stays with the cascade.        *)
CompileScan(spec, down) ==
    LET peeled == PeelKeyPrefix(down.where)
    IN [prefix |-> peeled.prefix, inner |-> peeled.residual,
        values |-> down.project = "entries", project |-> down.project,
        limit |-> IF store.leaf # "sql" THEN NoLimit
                  ELSE IF spec.orderBy THEN OrderedLimit(down) ELSE KeysetLimit(down),
        innerLimit |-> down.limit,
        residual |-> IF store.view = "leaf" THEN peeled.residual ELSE down.residual]

(* enforce_order_by_supported, require_unordered, the refusals of          *)
(* imap_keys and enforce_strict, which the leaf asks about its residual.   *)
Refuses(spec) ==
    \/ spec.orderBy /\ (store.leaf # "sql" \/ store.view = "union")
    \/ store.view = "rekeyed" /\ ExtractKeyPrefix(spec.where)
    \/ spec.strict /\ PeelKeyPrefix(Down(spec).where).residual # AlwaysTrue

-----------------------------------------------------------------------------
Idle == [step |-> "idle"]

Reached(n, limit) == limit # NoLimit /\ n >= limit

(* A scan begins at part 1.  SQL seeks past the cursor's key; the default  *)
(* path passes over rows up to the one the cursor names; the object leaf   *)
(* does not look at the cursor.                                            *)
Begun(spec, cursor) ==
    [step |-> "listing", spec |-> spec, plan |-> CompileScan(spec, Down(spec)),
     cursor |-> cursor, part |-> 1,
     at |-> IF store.leaf = "sql" /\ cursor # None THEN Position(Listing, cursor) ELSE 0,
     started |-> cursor = None \/ store.leaf \notin {"memory", "redis"},
     snapshot |-> {k \in Key : data[1][k] # None},
     ended |-> FALSE, relisted |-> FALSE, page |-> <<>>, given |-> 0, passed |-> 0,
     seen |-> {}, batch |-> <<>>, confirmed |-> FALSE, ready |-> <<>>,
     pending |-> <<>>, filled |-> FALSE, out |-> <<>>]

ScanInit ==
    /\ data \in Contents
    /\ old = {k \in Key : data[1][k] # None}
    /\ store \in Stores
    /\ \/ scan = Idle
       \/ /\ store = CHOOSE s \in Stores : TRUE
          /\ data = CHOOSE d \in Contents : TRUE
          /\ \E w \in Trees : scan = [step |-> "planned", where |-> w]
    /\ listed = <<>> /\ touched = {} /\ writes = 0 /\ resumes = 0

(* scan_rows.                                                              *)
ScanRowsOf(spec) ==
    /\ scan.step = "idle"
    /\ scan' = IF Refuses(spec) THEN [Begun(spec, None) EXCEPT !.step = "refused"]
               ELSE Begun(spec, None)
    /\ UNCHANGED <<data, old, store, listed, touched, writes, resumes>>

LimitReached == Reached(Len(scan.out), scan.spec.limit)

(* Whether a value predicate is left to the cascade.                       *)
ReadsValues == PartitionByNeeds(scan.plan.residual).value # {}

(* What the chain of generators does next: a row is asked of the source    *)
(* only when nothing is left to do with the rows it gave before.           *)
Due ==
    LET last == scan.part = Len(Scanned)
        dry == scan.ended /\ scan.page = <<>>
        waiting == scan.pending # <<>> /\ ~ LimitReached
    IN IF scan.filled THEN "yield"
       ELSE IF Len(scan.pending) >= FlushSize THEN "flush"
       ELSE IF scan.ready # <<>>
            THEN IF ReadsValues /\ scan.ready[1].value # None /\ waiting THEN "flush" ELSE "take"
       ELSE IF scan.confirmed THEN "bring"
       ELSE IF Len(scan.batch) >= PageSize \/ (dry /\ last /\ scan.batch # <<>>) THEN "confirm"
       ELSE IF scan.page # <<>> THEN "list"
       ELSE IF ~ scan.ended THEN "fetch"
       ELSE IF ~ last THEN "part"
       ELSE IF waiting THEN "flush" ELSE "end"

Order == IF scan.spec.orderBy THEN ByColumn ELSE Listing

(* What the leaf lists under the prefix asked for.                         *)
Listable(p, k) ==
    /\ data[p][k] # None
    /\ store.leaf = "memory" => k \in scan.snapshot
    /\ scan.plan.prefix => k \in (IF store.leaf = "sql" THEN Alike ELSE Under)

(* A leaf's row; the object listing and the ordered query bring stats.     *)
LeafRow(p, k) ==
    [key |-> k,
     value |-> IF scan.plan.values THEN data[p][k] ELSE None,
     stat |-> IF store.leaf = "object" \/ scan.spec.orderBy
              THEN (IF k \in old THEN "old" ELSE "new") ELSE None]

(* Where in its order the leaf still has keys to list.                     *)
Unlisted(p) == {i \in DOMAIN Order : i > scan.at /\ Listable(p, Order[i])}

(* Rows a page: one from memory and an object listing, a page from redis   *)
(* and from SQL, everything from one ordered query.                        *)
Size ==
    CASE scan.spec.orderBy -> Len(Order)
      [] ~ scan.spec.orderBy /\ store.leaf \in {"sql", "redis"} -> PageSize
      [] OTHER -> 1

(* The next page: the first keys unread, as many as fit.                   *)
IsPage(got, n, unread) ==
    /\ \A i, j \in 1 .. n : i < j => got[i] < got[j]
    /\ \A u \in unread : (\A i \in 1 .. n : got[i] # u) => n = Size /\ got[n] < u

(* The leaf's next page is read.  Redis may list a key again.              *)
Fetch ==
    LET p == Scanned[scan.part]
    IN /\ scan.step = "listing" /\ Due = "fetch"
       /\ \E n \in 0 .. Size : \E got \in [1 .. n -> Unlisted(p)] :
            LET rows == [i \in 1 .. n |-> LeafRow(p, Order[got[i]])]
            IN /\ IsPage(got, n, Unlisted(p))
               /\ \E again \in BOOLEAN :
                    /\ again => store.leaf = "redis" /\ ~ scan.relisted /\ n > 0
                    /\ scan' = [scan EXCEPT
                         !.page = IF again THEN Append(rows, rows[1]) ELSE rows,
                         !.relisted = @ \/ again,
                         !.at = IF n = 0 THEN @ ELSE got[n],
                         !.ended = n < Size]
       /\ UNCHANGED <<data, old, store, listed, touched, writes, resumes>>

SamePartAgain ==
    /\ scan.step = "listing" /\ Due = "part"
    /\ scan' = [scan EXCEPT !.ended = FALSE, !.at = 0, !.given = 0]
    /\ UNCHANGED <<data, old, store, listed, touched, writes, resumes>>

(* iter_union_keys_spec: the next part's scan, with the same cursor.       *)
NextPart ==
    /\ scan.step = "listing" /\ Due = "part"
    /\ scan' = LET first == Begun(scan.spec, scan.cursor)
               IN [scan EXCEPT !.part = @ + 1, !.ended = FALSE, !.at = first.at,
                               !.started = first.started,
                               !.snapshot = {k \in Key : data[2][k] # None}]
    /\ UNCHANGED <<data, old, store, listed, touched, writes, resumes>>

RowAsStored(row) == [row EXCEPT !.key = IF store.view = "rekeyed" THEN Renamed[@] ELSE @]

(* _project_row.                                                           *)
ProjectRow(row, project) ==
    [key |-> row.key,
     value |-> IF project = "entries" THEN row.value ELSE None,
     stat |-> IF project = "keys" THEN None ELSE row.stat]

(* The row a source's own cascade yields to the view: its projection, with *)
(* the value mapped or the key renamed.                                    *)
ViewRow(row) ==
    LET projected == ProjectRow(row, scan.plan.project)
    IN CASE store.view = "mapped" ->
              [projected EXCEPT !.value = IF @ = None THEN None ELSE Forward[@]]
         [] store.view = "rekeyed" -> [projected EXCEPT !.key = Renamed[@]]
         [] OTHER -> projected

(* A record's keys wait to be confirmed, those of then and expand for      *)
(* their values.                                                           *)
Batched ==
    \/ store.view \in {"commit", "union"}
    \/ store.view = "through" /\ NeedsValues(scan.spec, scan.plan.residual)

(* A row leaves the leaf, which stops at the limit it was given.  The      *)
(* default path passes over the rows up to the cursor's; a view's source   *)
(* filters by what it was asked and stops at its own limit; a record's     *)
(* parts list a key once.                                                  *)
List ==
    LET row == Head(scan.page)
        full == Reached(scan.given + 1, scan.plan.limit)
        rest == [scan EXCEPT !.page = IF full THEN <<>> ELSE Tail(@),
                             !.given = @ + 1, !.ended = @ \/ full]
    IN /\ scan.step = "listing" /\ Due = "list"
       /\ \/ /\ ~ scan.started
             /\ scan' = [rest EXCEPT !.started = row.key = scan.cursor]
          \/ /\ scan.started /\ store.view = "leaf"
             /\ scan' = [rest EXCEPT !.ready = <<row>>]
          \/ /\ scan.started /\ store.view # "leaf"
             /\ Reached(scan.passed, scan.plan.innerLimit)
             /\ scan' = [scan EXCEPT !.page = <<>>, !.ended = TRUE]
          \/ /\ scan.started /\ store.view # "leaf"
             /\ ~ Reached(scan.passed, scan.plan.innerLimit)
             /\ scan' =
                  IF ~ Evaluate(scan.plan.inner, row) \/ row.key \in scan.seen THEN rest
                  ELSE [rest EXCEPT
                          !.passed = @ + 1,
                          !.seen = IF store.view \in {"commit", "union"}
                                   THEN @ \cup {row.key} ELSE @,
                          !.batch = IF Batched THEN Append(@, ViewRow(row)) ELSE @,
                          !.ready = IF Batched THEN @ ELSE <<ViewRow(row)>>]
       /\ UNCHANGED <<data, old, store, listed, touched, writes, resumes>>

(* iter_present asks the record itself whether a page of keys is there;    *)
(* then and expand take a page of values (iter_paged_batch_get).           *)
Confirm ==
    /\ scan.step = "listing" /\ Due = "confirm"
    /\ scan' = [scan EXCEPT
         !.confirmed = TRUE,
         !.batch = [i \in DOMAIN scan.batch |->
                      [scan.batch[i] EXCEPT !.value = BatchGet(data, scan.batch[i].key)]]]
    /\ UNCHANGED <<data, old, store, listed, touched, writes, resumes>>

(* The page's keys go on one by one: a record's only if it is there, those *)
(* of then and expand with None where there is no value.                   *)
Bring ==
    LET row == Head(scan.batch)
        rest == [scan EXCEPT !.batch = Tail(@), !.confirmed = Len(scan.batch) > 1]
        brought == NeedsValues(scan.spec, scan.plan.residual)
    IN /\ scan.step = "listing" /\ Due = "bring"
       /\ scan' = IF store.view # "through" /\ row.value = None THEN rest
                  ELSE [rest EXCEPT
                          !.ready = <<[row EXCEPT !.value = IF brought THEN @ ELSE None]>>]
       /\ UNCHANGED <<data, old, store, listed, touched, writes, resumes>>

Accepted(row) ==
    /\ AllPass(PartitionByNeeds(scan.plan.residual).value, row)
    /\ scan.spec.refine => row.key \in Refined

(* apply_cascade, one row: key, then stat, then value, then refine.  A row *)
(* without the value a predicate reads waits for its page.                 *)
Take ==
    LET row == Head(scan.ready)
        rest == [scan EXCEPT !.ready = <<>>]
        need == PartitionByNeeds(scan.plan.residual)
    IN /\ scan.step = "listing" /\ Due = "take"
       /\ scan' =
            IF LimitReached THEN [scan EXCEPT !.step = "done"]
            ELSE IF ~ (AllPass(need.key, row) /\ AllPass(need.stat, row)) THEN rest
            ELSE IF ReadsValues /\ row.value = None
            THEN [rest EXCEPT !.pending = Append(@, row)]
            ELSE IF Accepted(row)
            THEN [rest EXCEPT !.out = Append(@, ProjectRow(row, scan.spec.project))]
            ELSE rest
       /\ UNCHANGED <<data, old, store, listed, touched, writes, resumes>>

(* flush reads the values of the waiting rows, in one batch_get.  A key    *)
(* that waits twice is taken from pending_rows once; the second pop raises *)
(* KeyError.                                                               *)
Flush ==
    LET twice == \E i, j \in DOMAIN scan.pending :
                    i # j /\ scan.pending[i].key = scan.pending[j].key
    IN /\ scan.step = "listing" /\ Due = "flush"
       /\ scan' = IF twice THEN [scan EXCEPT !.step = "failed"]
                  ELSE [scan EXCEPT
                          !.filled = TRUE,
                          !.pending = [i \in DOMAIN scan.pending |->
                             [scan.pending[i] EXCEPT
                                !.value = BatchGet(data, scan.pending[i].key)]]]
       /\ UNCHANGED <<data, old, store, listed, touched, writes, resumes>>

(* flush, one row: yielded if it was found and passes.  The row that       *)
(* reaches the limit ends the scan.                                        *)
Yield ==
    LET row == Head(scan.pending)
        rest == [scan EXCEPT !.pending = Tail(@), !.filled = Len(scan.pending) > 1]
    IN /\ scan.step = "listing" /\ Due = "yield"
       /\ scan' = IF row.value = None \/ ~ Accepted(row) THEN rest
                  ELSE [rest EXCEPT
                          !.out = Append(@, ProjectRow(row, scan.spec.project)),
                          !.step = IF Reached(Len(scan.out) + 1, scan.spec.limit)
                                   THEN "done" ELSE @]
       /\ UNCHANGED <<data, old, store, listed, touched, writes, resumes>>

End ==
    /\ scan.step = "listing" /\ Due = "end"
    /\ scan' = [scan EXCEPT !.step = "done"]
    /\ UNCHANGED <<data, old, store, listed, touched, writes, resumes>>

-----------------------------------------------------------------------------
ResumeAtTheLast ==
    /\ scan.step = "done" /\ ~ scan.spec.delete /\ ~ scan.spec.orderBy
    /\ scan.out # <<>> /\ Len(scan.out) = scan.spec.limit
    /\ resumes < MaxResumes
    /\ resumes' = resumes + 1
    /\ listed' = listed \o KeysOf(scan.out)
    /\ scan' = [Begun(scan.spec, scan.out[Len(scan.out)].key) EXCEPT
                  !.at = 0, !.started = TRUE]
    /\ UNCHANGED <<data, old, store, touched, writes>>

(* A caller that pages asks for the rest with the last key it was given;   *)
(* ScanSpec refuses a cursor with order_by.                                *)
Resume ==
    /\ scan.step = "done" /\ ~ scan.spec.delete /\ ~ scan.spec.orderBy
    /\ scan.out # <<>> /\ Len(scan.out) = scan.spec.limit
    /\ resumes < MaxResumes
    /\ resumes' = resumes + 1
    /\ listed' = listed \o KeysOf(scan.out)
    /\ scan' = Begun(scan.spec, scan.out[Len(scan.out)].key)
    /\ UNCHANGED <<data, old, store, touched, writes>>

DeleteByCallersKey ==
    /\ scan.step = "done" /\ scan.spec.delete /\ store.view # "through"
    /\ scan' = [scan EXCEPT !.step = "deleted"]
    /\ data' = [p \in Parts |-> [k \in Key |->
                  IF k \in {scan.out[i].key : i \in DOMAIN scan.out} THEN None ELSE data[p][k]]]
    /\ UNCHANGED <<old, store, listed, touched, writes, resumes>>

(* delete_where: the keys are listed first and then deleted, whatever they *)
(* hold by then.  A then or expand view writes nothing.                    *)
DeleteWhere ==
    LET keys == {scan.out[i].key : i \in DOMAIN scan.out}
        gone == IF store.view = "rekeyed" THEN {ToStore(k) : k \in keys} ELSE keys
        parts == IF store.view \in {"commit", "union"} THEN Parts ELSE {1}
    IN /\ scan.step = "done" /\ scan.spec.delete /\ store.view # "through"
       /\ scan' = [scan EXCEPT !.step = "deleted"]
       /\ data' = [p \in Parts |-> [k \in Key |->
                     IF p \in parts /\ k \in gone THEN None ELSE data[p][k]]]
       /\ UNCHANGED <<old, store, listed, touched, writes, resumes>>

(* Another client writes or deletes an entry of a part.                    *)
Write(p, k, v) ==
    /\ scan.step \in {"listing", "done"} /\ writes < MaxWrites
    /\ data[p][k] # v
    /\ data' = [data EXCEPT ![p][k] = v]
    /\ old' = IF p = 1 THEN old \ {k} ELSE old
    /\ touched' = touched \cup {IF store.view = "rekeyed" THEN Renamed[k] ELSE k}
    /\ writes' = writes + 1
    /\ UNCHANGED <<store, scan, listed, resumes>>

ScanNext ==
    \/ \E spec \in Specs : ScanRowsOf(spec)
    \/ Fetch \/ NextPart \/ List \/ Confirm \/ Bring \/ Take \/ Flush \/ Yield \/ End
    \/ Resume \/ DeleteWhere
    \/ \E p \in Parts, k \in Key, v \in Value \cup {None} : Write(p, k, v)

(* A scan is one thread's generator: pulled, it goes on.                   *)
ScanFairness ==
    WF_scanVars(\/ Fetch \/ NextPart \/ List \/ Confirm \/ Bring
                \/ Take \/ Flush \/ Yield \/ End)

ScanSpec == ScanInit /\ [][ScanNext]_scanVars /\ ScanFairness
-----------------------------------------------------------------------------
\* The types of the state: the records, and the rows of a scan by where they have got to.
ScanTypes ==
    /\ data \in [Parts -> [Key -> Value \cup {None}]]
    /\ old \subseteq Key /\ touched \subseteq Key /\ listed \in Seq(Key)
    /\ store \in Stores
    /\ writes \in 0 .. MaxWrites /\ resumes \in 0 .. MaxResumes
    /\ \/ scan.step \in {"idle", "planned"}
       \/ scan \in [step : {"listing", "done", "refused", "failed", "deleted"},
                    spec : Specs, plan : {CompileScan(scan.spec, Down(scan.spec))},
                    cursor : Key \cup {None}, part : Parts, at : 0 .. Len(Order),
                    started : BOOLEAN, snapshot : SUBSET Key,
                    ended : BOOLEAN, relisted : BOOLEAN, page : Seq(Row), given : Nat,
                    passed : Nat, seen : SUBSET Key, batch : Seq(Row), confirmed : BOOLEAN,
                    ready : Seq(Row), pending : Seq(Row), filled : BOOLEAN, out : Seq(Row)]

Where == IF scan.step = "planned" THEN scan.where ELSE scan.spec.where

(* Taking a filter apart never changes what it selects: the prefix given   *)
(* to a listing with peel_key_prefix's residual, the key part sent to a    *)
(* store with split_key_predicates' residual, and the three groups the     *)
(* cascade asks in turn, each select exactly the rows the filter selects;  *)
(* what is sent to a store that brings keys alone reads nothing but keys.  *)
TakenApartAlike ==
    scan.step # "idle" =>
        LET peeled == PeelKeyPrefix(Where)
            split == SplitKeyPredicates(Where)
            need == PartitionByNeeds(Where)
        IN \A row \in Row :
             LET wanted == Evaluate(Where, row)
                 bare == [row EXCEPT !.value = None, !.stat = None]
                 valueless == [row EXCEPT !.value = None]
             IN /\ wanted = ((peeled.prefix => row.key \in Under) /\ Evaluate(peeled.residual, row))
                /\ wanted = (Evaluate(split.keys, bare) /\ Evaluate(split.residual, row))
                /\ wanted = (/\ AllPass(need.key, bare) /\ AllPass(need.stat, valueless)
                             /\ AllPass(need.value, row))

(* delete_where hands a filter to garbage collection (is_gc_predicate)     *)
(* only when the filter selects the expired rows and no others.            *)
GcMeansExpired ==
    scan.step # "idle" /\ IsGcPredicate(Where) =>
        \A row \in Row : Evaluate(Where, row) = Evaluate(Expired, row)

-----------------------------------------------------------------------------
(* A filter split, peeled, partitioned or handed to gc selects what it     *)
(* selected whole (scan.py).                                               *)
SplitsAlike == TakenApartAlike /\ GcMeansExpired

(* The rows a caller of scan may expect, for the keys nobody wrote since   *)
(* the scan began.  A stat predicate sees the stats that reach the         *)
(* cascade: the leaf must bring them and no view may drop them.            *)
StatReaches ==
    /\ store.leaf = "object" \/ scan.spec.orderBy
    /\ store.view = "leaf" \/ (store.view \in {"mapped", "rekeyed"} /\ scan.plan.project # "keys")

Steady == Key \ touched

StoredKey(k) == IF store.view = "rekeyed" THEN ToStore(k) ELSE k

Holds(k) ==
    IF store.view = "through" /\ ~ NeedsValues(scan.spec, scan.plan.residual)
    THEN data[1][k] # None ELSE BatchGet(data, k) # None

Matches(k) ==
    /\ Holds(k)
    /\ Evaluate(scan.spec.where,
                [key |-> k, value |-> BatchGet(data, k),
                 stat |-> IF ~ StatReaches THEN None
                          ELSE IF StoredKey(k) \in old THEN "old" ELSE "new"])
    /\ scan.spec.refine => k \in Refined

(* Where a key comes in the order of the scan: by part, then as listed.    *)
Rank(k) == <<IF data[1][StoredKey(k)] # None THEN 1 ELSE 2, Position(Order, StoredKey(k))>>
Before(j, k) == Rank(j)[1] < Rank(k)[1] \/ (Rank(j)[1] = Rank(k)[1] /\ Rank(j)[2] < Rank(k)[2])

OutKeys == {scan.out[i].key : i \in DOMAIN scan.out}

(* The rows that a paging caller has been given, this page's included.     *)
AllListed == listed \o KeysOf(scan.out)

(* Where a cursor is looked at, and points where the caller left off: not  *)
(* on the object leaf, which ignores it; not over several parts, which     *)
(* each start at it; not through imap_keys, which passes the caller's key  *)
(* to a store that knows another; and on the default path only while the   *)
(* row it names is still listed.                                           *)
CursorHolds ==
    resumes > 0 =>
        /\ store.view \in {"leaf", "mapped", "through", "commit"}
        /\ store.leaf = "sql" \/ (store.leaf = "memory" /\ scan.cursor \in Steady)

(* The limit counts rows of the leaf, not matches: a keyset scan is given  *)
(* the limit although rows are still to be filtered out.                   *)
LimitUnderFilter ==
    /\ store.leaf = "sql" /\ ~ scan.spec.orderBy
    /\ scan.plan.limit # NoLimit
    /\ scan.spec.refine \/ scan.plan.residual # AlwaysTrue \/ scan.plan.inner # AlwaysTrue

(* A scan passes over no steady match: when it ends, every matching record *)
(* nobody wrote meanwhile was returned, on this page or an earlier one,    *)
(* unless the limit was reached by matches that come before it.  Pending   *)
(* pages, confirmations, pushed limits and resumption all leave it so,     *)
(* whatever is written to the other records.                               *)
PassesOverNothing ==
    scan.step = "done" /\ CursorHolds /\ ~ LimitUnderFilter =>
        \A k \in Steady :
            (Matches(k) /\ \A i \in DOMAIN AllListed : AllListed[i] # k) =>
                /\ LimitReached
                /\ \A j \in OutKeys \cap Steady : Before(j, k)

(* SQLite's LIKE ignores case, so a key may be listed under a prefix that  *)
(* is not its own.                                                         *)
TakenForUnder(k) == store.leaf = "sql" /\ scan.plan.prefix /\ k \notin Under

Deserved(row) ==
    ~ TakenForUnder(row.key) =>
        /\ (row.key \in Steady /\ (scan.spec.project = "entries" => row.value # None))
             => Matches(row.key)
        /\ row.value # None => Accepted(row)

(* A scan returns nothing it was not asked for: a record nobody wrote is   *)
(* returned only if it matches, and a row returned with its value matches  *)
(* on that very value, also when another client replaced it meanwhile.     *)
(* The keys SQLite takes for the prefix are left aside.                    *)
ReturnsOnlyMatches == scan.step = "done" => \A i \in DOMAIN scan.out : Deserved(scan.out[i])

(* No key is returned twice, over all pages, unless redis listed it twice. *)
ReturnsOnce ==
    scan.step = "done" /\ CursorHolds /\ ~ scan.relisted =>
        \A i, j \in DOMAIN AllListed : AllListed[i] = AllListed[j] => i = j

(* A scan fails only over a key that redis listed twice: what waits for    *)
(* its value waits once (pending_keys and pending_rows agree).             *)
FailsOnlyOnRelisting == scan.step = "failed" => scan.relisted

(* A scan's rows are well typed, each returned once and none lost to an    *)
(* error, but where redis itself listed a key twice (apply_cascade).       *)
ListsOnce == ScanTypes /\ ReturnsOnce /\ FailsOnlyOnRelisting

(* delete_where removes the records that match and no others, among those  *)
(* nobody wrote between the listing and the deletion; the keys SQLite takes *)
(* for the prefix are left aside.                                          *)
DeletesTheMatches ==
    [][scan'.step = "deleted" =>
         \A k \in Steady :
            LET gone == BatchGet(data, k) # None /\ BatchGet(data', k) = None
            IN /\ gone => Matches(k) \/ TakenForUnder(k)
               /\ ~ gone => ~ Matches(k) \/ LimitReached \/ LimitUnderFilter]_scanVars

(* A scan that is pulled ends, whatever is written meanwhile: every page   *)
(* the SQL leaf reads advances, so none is read again.                     *)
ScanEnds == scan.step = "listing" ~> scan.step # "listing"

(* What the comment on the ordered scan says of any pushed limit: it is    *)
(* not spent on rows that are filtered out afterwards.                     *)
LimitCountsMatches ==
    scan.step = "done" /\ resumes = 0 /\ ~ LimitReached =>
        \A k \in Steady : Matches(k) => k \in OutKeys
=============================================================================
