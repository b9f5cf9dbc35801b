--------------------------- MODULE ScanInvariants ---------------------------
(***************************************************************************)
(* The inductive invariants of a scan: what holds at each step of a scan   *)
(* because of which it returns only matches (RowInv), each of them once    *)
(* (FlowInv), and all of them that nobody wrote (AcctInv).  The proofs are *)
(* in StoreCalls_proofs.                                                   *)
(***************************************************************************)
EXTENDS ScanRows

-----------------------------------------------------------------------------
(***************************************************************************)
(* Types.                                                                  *)
(***************************************************************************)
\* A scan that has begun, and its plan.
Underway == scan.step \in {"listing", "done", "refused", "failed", "deleted"}
PlanOf == CompileScan(scan.spec, Down(scan.spec))

\* The types of a scan's fields.
Typed ==
    /\ scan.spec \in Specs /\ scan.plan = PlanOf
    /\ scan.cursor \in Key \cup {None} /\ scan.part \in {1, 2} /\ scan.at \in Nat
    /\ scan.at <= Len(Order)
    /\ scan.started \in BOOLEAN /\ scan.snapshot \subseteq Key
    /\ scan.ended \in BOOLEAN /\ scan.relisted \in BOOLEAN
    /\ scan.page \in Seq(Row) /\ scan.given \in Nat /\ scan.passed \in Nat /\ scan.seen \subseteq Key
    /\ scan.batch \in Seq(Row) /\ scan.confirmed \in BOOLEAN /\ scan.ready \in Seq(Row)
    /\ scan.pending \in Seq(Row) /\ scan.filled \in BOOLEAN /\ scan.out \in Seq(Row)

\* What goes together in a scan that has begun.
Grounded ==
    /\ scan.step = "planned" => scan.where \in Trees
    /\ Underway =>
         /\ scan.spec.orderBy => scan.cursor = None
         /\ scan.part = 2 => store.view = "union"
         /\ scan.confirmed => scan.batch # <<>>
         /\ scan.filled => scan.pending # <<>>

-----------------------------------------------------------------------------
(***************************************************************************)
(* What the rows of a scan show.                                           *)
(***************************************************************************)
\* A scan that is listing, or has listed all it will.
Active == scan.step \in {"listing", "done"}

\* The caller's key of a stored one; where a caller's key comes in the leaf's order.
Caller(k) == IF store.view = "rekeyed" THEN Renamed[k] ELSE k
Pos(k) == Position(Order, StoredKey(k))
PartOf(k) == IF data[1][StoredKey(k)] # None THEN 1 ELSE 2

\* What a row shows of a record nobody wrote.
StatOf(k) == IF ~ StatReaches THEN None ELSE IF StoredKey(k) \in old THEN "old" ELSE "new"
Bare(k) == [key |-> k, value |-> None, stat |-> None]
UnderPrefix(k) == scan.plan.prefix => k \in (IF store.leaf = "sql" THEN Alike ELSE Under)
Sought(k) ==
    UnderPrefix(k) /\ (store.view # "leaf" => Evaluate(scan.plan.inner, Bare(k)))
Present(k) ==
    IF store.view = "union" THEN data[1][k] # None \/ data[2][k] # None
    ELSE data[1][StoredKey(k)] # None

\* What a row shows, wherever it is between the leaf's page and the caller.
PageRow(row) ==
    /\ UnderPrefix(row.key)
    /\ Caller(row.key) \in Steady =>
         data[scan.part][row.key] # None /\ row = LeafRow(scan.part, row.key)
BatchRow(row) ==
    /\ Sought(row.key) /\ row.stat = None
    /\ ~ scan.confirmed => row.value = None
    /\ row.key \in Steady =>
         /\ Present(row.key)
         /\ scan.confirmed => row.value = BatchGet(data, row.key)
ViewedRow(row) ==
    /\ Sought(StoredKey(row.key))
    /\ row.key \in Steady =>
         /\ Present(row.key)
         /\ store.view \in {"commit", "union"} => BatchGet(data, row.key) # None
         /\ row.stat = StatOf(row.key)
         /\ row.value \in {None, BatchGet(data, row.key)}
PendingRow(row) ==
    /\ ViewedRow(row)
    /\ AllPass(PartitionByNeeds(scan.plan.residual).key, row)
    /\ AllPass(PartitionByNeeds(scan.plan.residual).stat, row)
    /\ ~ scan.filled => row.value = None
    /\ scan.filled /\ row.key \in Steady => row.value = BatchGet(data, row.key)
OutRow(row) ==
    /\ Sought(StoredKey(row.key))
    /\ row.key \in Steady => Present(row.key)
    /\ Deserved(row)
RowsTrue ==
    /\ \A i \in DOMAIN scan.page : PageRow(scan.page[i])
    /\ \A i \in DOMAIN scan.batch : BatchRow(scan.batch[i])
    /\ \A i \in DOMAIN scan.ready : ViewedRow(scan.ready[i])
    /\ \A i \in DOMAIN scan.pending : PendingRow(scan.pending[i])
    /\ \A i \in DOMAIN scan.out : OutRow(scan.out[i])

\* What the plan means for the rows that wait.
Meant ==
    /\ scan.spec.orderBy => store.leaf = "sql" /\ store.view # "union"
    /\ Len(scan.ready) <= 1
    /\ scan.batch # <<>> => Batched
    /\ scan.pending # <<>> => ReadsValues

\* What keeps a scan from returning anything but matches.
RowInv == Active => RowsTrue /\ Meant

-----------------------------------------------------------------------------
(***************************************************************************)
(* The keys a scan holds, in the order in which they come out.             *)
(***************************************************************************)
\* The keys a scan holds, from those it returned to those of the leaf's page:
\* what every step moves along, drops from, or adds to at the end.
CallersOf(rows) == [i \in DOMAIN rows |-> Caller(rows[i].key)]
Kept == KeysOf(scan.out) \o KeysOf(scan.pending) \o KeysOf(scan.ready) \o KeysOf(scan.batch)
Flow == Kept \o CallersOf(scan.page)

\* How the parts of a scan go together.
Holding ==
    scan.out # <<>> \/ scan.pending # <<>> \/ scan.ready # <<>> \/ scan.batch # <<>>
Opening ==
    /\ ~ scan.started /\ store.view # "union" => ~ Holding /\ scan.seen = {}
    /\ store.leaf \notin {"memory", "redis"} => scan.started
    /\ scan.seen # {} => store.view \in {"commit", "union"}
    /\ scan.relisted => store.leaf = "redis"
OnePage ==
    store.leaf = "memory" /\ scan.page # <<>> =>
        /\ Len(scan.page) = 1 /\ ~ scan.ended
        /\ scan.at = Position(Order, scan.page[1].key)
Snapped ==
    \A k \in Key : Caller(k) \in Steady => (data[scan.part][k] # None <=> k \in scan.snapshot)
Paging ==
    /\ resumes = 0 => scan.cursor = None /\ scan.started /\ listed = <<>>
    /\ resumes > 0 => scan.cursor \in Key /\ ~ scan.spec.delete /\ ~ scan.spec.orderBy
Settled == Opening /\ OnePage /\ Snapped /\ Paging

\* The order of the keys a scan holds: as the leaf lists them, or, over several
\* parts, each once and among those seen.
Ordered ==
    /\ store.view # "union" =>
         /\ \A i \in DOMAIN Flow : Pos(Flow[i]) <= scan.at
         /\ ~ scan.relisted => \A i, j \in DOMAIN Flow : i < j => Pos(Flow[i]) < Pos(Flow[j])
    /\ store.view = "union" =>
         /\ \A i \in DOMAIN Kept : Kept[i] \in scan.seen
         /\ \A i, j \in DOMAIN Kept : Kept[i] = Kept[j] => i = j

\* Resumption: the earlier pages hold what comes up to the cursor, this one what comes after.
CursorViews ==
    store.view \in {"leaf", "mapped", "through", "commit"} /\ store.leaf \in {"sql", "memory"}
After == \A i \in DOMAIN Flow : Pos(scan.cursor) < Pos(Flow[i])
Paged ==
    resumes > 0 /\ CursorViews =>
        /\ \A i \in DOMAIN listed : Pos(listed[i]) <= Pos(scan.cursor)
        /\ \A i, j \in DOMAIN listed : listed[i] = listed[j] => i = j
        /\ scan.started => scan.at >= Pos(scan.cursor) /\ After

\* What keeps a scan from returning a key twice.
FlowInv ==
    /\ scan.step \in {"idle", "planned"} => touched = {} /\ resumes = 0 /\ listed = <<>>
    /\ scan.step = "failed" => scan.relisted
    /\ Active => Meant /\ Settled /\ Ordered /\ Paged

-----------------------------------------------------------------------------
(***************************************************************************)
(* Where a match that nobody wrote is.                                     *)
(***************************************************************************)
\* A limit that was pushed to the leaf or the view's source counts what reaches
\* the caller, where nothing is filtered afterwards.
Unfiltered ==
    /\ store.view \in {"leaf", "mapped", "rekeyed"}
    /\ scan.plan.residual = AlwaysTrue /\ ~ scan.spec.refine
Reaching == Len(scan.out) + Len(scan.ready)
Counted ==
    Unfiltered =>
        /\ store.view # "leaf" => Reaching = scan.passed
        /\ store.leaf = "sql" /\ (store.view = "leaf" \/ scan.plan.inner = AlwaysTrue) =>
             Reaching = scan.given

\* Where a pushed limit ends the listing, what was listed reaches it.
Stopped ==
    /\ Unfiltered /\ scan.ended /\ scan.page = <<>>
    /\ Reached(Reaching, scan.spec.limit)

\* A match that nobody wrote is on an earlier page; among the keys the scan holds,
\* after nothing that comes later; or still to be listed, or past a limit that what
\* was listed reaches, after all the scan holds.
Ahead(y, k) ==
    IF store.view = "union" THEN y \in Steady => Before(y, k) ELSE Pos(y) < Pos(k)
Leading(s, k) == \E i \in DOMAIN s : s[i] = k /\ \A j \in DOMAIN s : j < i => Ahead(s[j], k)
AllAhead(s, k) == \A i \in DOMAIN s : Ahead(s[i], k)
Unreached(k) ==
    \/ scan.part < PartOf(k)
    \/ scan.part = PartOf(k) /\ ~ scan.ended /\ scan.at < Pos(k)
Listed(k) == \E i \in DOMAIN listed : listed[i] = k
Accounted(k) ==
    \/ Listed(k)
    \/ Leading(Flow, k)
    \/ (Unreached(k) \/ Stopped) /\ AllAhead(Flow, k)
CursorOk ==
    resumes > 0 =>
        CursorViews /\ (store.leaf = "sql" \/ scan.started \/ scan.cursor \in Steady)
AllAccounted ==
    CursorOk /\ ~ LimitUnderFilter =>
        \A k \in Steady : Matches(k) =>
            /\ Accounted(k)
            /\ k \in scan.seen => \E i \in DOMAIN Kept : Kept[i] = k

\* A resumed scan: the matches up to the cursor were returned before, the row the
\* cursor names is still there if nobody wrote it, and the listing comes to it.
Cursored ==
    resumes > 0 /\ CursorViews =>
        /\ ~ LimitUnderFilter =>
             \A k \in Steady : Matches(k) /\ Pos(k) <= Pos(scan.cursor) => Listed(k)
        /\ scan.cursor \in Steady => Present(scan.cursor) /\ UnderPrefix(scan.cursor)
        /\ ~ scan.started /\ scan.cursor \in Steady =>
             /\ ~ scan.ended /\ scan.at <= Pos(scan.cursor)
             /\ scan.page = <<>> => scan.at < Pos(scan.cursor)

\* A scan is done when its limit is reached or there is nothing more.
Finished ==
    scan.step = "done" =>
        \/ LimitReached
        \/ /\ scan.pending = <<>> /\ scan.ready = <<>> /\ scan.batch = <<>> /\ scan.page = <<>>
           /\ scan.ended /\ scan.part = Len(Scanned)

\* What keeps a scan from passing over a match.
AcctInv == Active => Counted /\ Cursored /\ AllAccounted /\ Finished
=============================================================================
