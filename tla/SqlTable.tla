------------------------------ MODULE SqlTable ------------------------------
(***************************************************************************)
(* The SQL backend (backends/sql/store.py) on the SQLite adapter           *)
(* (backends/sql/sqlite.py), one action per statement.                     *)
(*                                                                         *)
(* Several views may share a table, each with a column of its own; the row *)
(* has one clock and one expiry for all.  A client has a connection: it    *)
(* commits each statement, or the caller commits, and then the transaction *)
(* is opened by the caller or by the first write.  SQLite has one writer   *)
(* at a time, and shows uncommitted rows to no other connection.           *)
(*                                                                         *)
(* A value is the number of the write it comes from, 0 for a column that   *)
(* is NULL.                                                                *)
(***************************************************************************)
EXTENDS Naturals, FiniteSets, SequencesExt

CONSTANTS
    Null, Never, Unset, Nobody,
    Key,            \* a set of naturals: the order of the primary key
    View, Client,
    Setup,          \* tables and connections to start from: see Setups
    WriteArg,       \* what a write brings: [ttl, past], past: an early created_at
    Op,             \* the calls each client makes
    PageSize, Limit, Attempts,
    MaxTime, MaxWrites, MaxCalls   \* bounds

VARIABLES
    setup,     \* SqlDbKvSet of each view, ExpiryGc, connections
    table,     \* committed rows: a function on the keys that have one
    txn,       \* the open write transaction: its holder, the rows it sees
    clock,
    writes,    \* writes begun
    calls,     \* calls begun, other than gets
    checked,   \* views whose backend has made its early binding check
    call       \* the call of each client

vars == <<setup, table, txn, clock, writes, calls, checked, call>>

\* The kvsets: owner, the view that owns_rows; ttl, each view's policy.
Setups(views, ttls, connections) ==
    [shares : BOOLEAN, owner : views, ttl : [views -> ttls], hides : BOOLEAN,
     binding : {"late", "early"}, legacy : BOOLEAN, connection : connections]

Connections == {"autocommit", "caller", "on_write"}
Ops == {"set", "put", "remove", "delete", "unset", "get", "gc", "scan", "take"}

ASSUME SqlAssumption ==
    /\ Key \subseteq Nat \ {0} /\ PageSize \in Nat \ {0} /\ Limit \in Nat \ {0}
    /\ Attempts \in Nat \ {0} /\ MaxWrites \in Nat \ {0} /\ {MaxTime, MaxCalls} \subseteq Nat
    /\ Null # Never /\ Unset # Never /\ {Null, Never, Unset} \cap Nat = {} /\ Nobody \notin Client
    /\ Setup \subseteq Setups(View, Nat \cup {Never}, [Client -> Connections])
    /\ WriteArg \subseteq [ttl : Nat \cup {Never, Unset}, past : BOOLEAN]
    /\ Op \in [Client -> SUBSET Ops]

Plus(moment, duration) == IF duration = Never THEN Never ELSE moment + duration
Passed(moment) == moment # Never /\ clock >= moment

\* The mutant of DeletesRows: every view deletes the row.
AlwaysDeletes(v) == v \in View

\* deletes_rows, creates_entries: the view's own table, or the rows' owner.
DeletesRows(v) == setup.owner = v \/ ~setup.shares
Views == IF setup.shares THEN View ELSE {setup.owner}

\* _held_by, _holds: on a shared table a view holds a row by its own column.
Holds(v, row) == setup.shares => row.col[v] # 0

ResolveTtl(v, ttl) == IF ttl = Unset THEN setup.ttl[v] ELSE ttl

\* A kvset with no policy writes NULL, an explicit none() a far-future marker.
ExpiresAtColumn(v, ttl, base) ==
    LET secs == ResolveTtl(v, ttl)
    IN IF secs = Never /\ ttl = Unset THEN Null ELSE Plus(base, secs)

DeathTime(v, row) == IF row.expires = Null THEN Plus(row.updated, setup.ttl[v]) ELSE row.expires
RowExpired(v, row) == Passed(DeathTime(v, row))
Alive(v, row) == ~RowExpired(v, row) /\ Holds(v, row)

\* The mutant of SqlLive: a row lives through the moment it expires.
LiveAtExpiry(v, row) ==
    /\ \/ row.expires # Null /\ (row.expires = Never \/ row.expires >= clock)
       \/ row.expires = Null /\ (setup.ttl[v] = Never \/ row.updated + setup.ttl[v] > clock)
    /\ setup.shares => row.col[v] # 0

\* SqlLiveness, the same judgement in SQL: expires_at > now, or no expires_at and
\* updated_at + ttl > now, and one of the view's columns set.
SqlLive(v, row) ==
    /\ \/ row.expires # Null /\ (row.expires = Never \/ row.expires > clock)
       \/ row.expires = Null /\ (setup.ttl[v] = Never \/ row.updated + setup.ttl[v] > clock)
    /\ setup.shares => row.col[v] # 0

\* scan_expired: the branch on updated_at is left out for early binding.
SqlExpired(v, row) ==
    \/ row.expires \notin {Null, Never} /\ row.expires <= clock
    \/ /\ row.expires = Null /\ setup.binding = "late"
       /\ setup.ttl[v] # Never /\ row.updated + setup.ttl[v] <= clock

-----------------------------------------------------------------------------
Idle == [op |-> "none", step |-> "idle", view |-> setup.owner, key |-> 0,
         row |-> <<>>, seen |-> <<>>, tries |-> 0, after |-> 0, keys |-> {},
         start |-> {}, raced |-> {}, out |-> <<>>]

NoTxn == [holder |-> Nobody, rows |-> <<>>]

\* What the statements of client c work on, and what the last writer left.
Rows(c) == IF txn.holder = c THEN txn.rows ELSE table
Latest == IF txn.holder = Nobody THEN table ELSE txn.rows

\* A row written when the table had no expires_at: the first write.
LegacyRow(v) == [col |-> [w \in View |-> IF w = v THEN 1 ELSE 0],
                 updated |-> 0, expires |-> Null, due |-> Plus(0, setup.ttl[v])]

Init ==
    /\ setup \in Setup
    /\ table = IF setup.legacy THEN [k \in Key |-> LegacyRow(setup.owner)] ELSE <<>>
    /\ txn = NoTxn
    /\ writes = IF setup.legacy THEN 1 ELSE 0
    /\ clock = 0 /\ calls = 0 /\ checked = {}
    /\ call = [c \in Client |-> Idle]

Writers == {"set", "put"}
Readers == {"get", "gc", "scan", "take"}
At(c, step) == call[c].step = step
Put(rows, k, row) == [j \in DOMAIN rows \cup {k} |-> IF j = k THEN row ELSE rows[j]]
Without(rows, ks) == [j \in DOMAIN rows \ ks |-> rows[j]]

\* The keys whose rows differ.
Differ(rows, new) ==
    {k \in DOMAIN rows \cup DOMAIN new :
        ~(k \in DOMAIN rows /\ k \in DOMAIN new /\ rows[k] = new[k])}

\* The committed rows become new, and the others' reads are raced.
Installs(c, new, cl) ==
    /\ table' = new
    /\ call' = [d \in Client |-> IF d = c THEN cl
                                 ELSE IF call[d].op \notin Readers THEN call[d]
                                 ELSE [call[d] EXCEPT !.raced = @ \cup Differ(table, new)]]

(***************************************************************************)
(* _ensure_write_txn and _after_write: a statement that leaves rows as the *)
(* result, and the call as cl.  It waits while another connection writes.  *)
(***************************************************************************)
Writes(c, rows, cl) ==
    /\ txn.holder \in {Nobody, c}
    /\ IF setup.connection[c] = "autocommit"
       THEN Installs(c, rows, cl) /\ UNCHANGED txn
       ELSE /\ setup.connection[c] = "caller" => txn.holder = c
            /\ txn' = [holder |-> c, rows |-> rows]
            /\ call' = [call EXCEPT ![c] = cl]
            /\ UNCHANGED table

Ended(c) == Idle
Still == UNCHANGED <<setup, clock, writes, calls, checked>>

\* With no transaction open the write would never commit: it raises.
Refuse(c) ==
    /\ call[c].step \in {"upsert", "update", "insert", "update_rows", "delete", "clear",
                         "insert_if", "replace_if", "delete_if", "collect"}
    /\ setup.connection[c] = "caller" /\ txn.holder # c
    /\ call' = [call EXCEPT ![c] = Ended(c)]
    /\ UNCHANGED <<table, txn>> /\ Still

\* The transactions of the caller.
Open(c) ==
    /\ At(c, "idle") /\ setup.connection[c] = "caller" /\ txn.holder = Nobody
    /\ calls < MaxCalls
    /\ txn' = [holder |-> c, rows |-> table]
    /\ UNCHANGED <<table, call>> /\ Still

Commit(c) ==
    /\ At(c, "idle") /\ txn.holder = c
    /\ Installs(c, txn.rows, call[c])
    /\ txn' = NoTxn
    /\ Still

Rollback(c) ==
    /\ At(c, "idle") /\ txn.holder = c
    /\ txn' = NoTxn
    /\ UNCHANGED <<table, call>> /\ Still

Tick ==
    /\ clock < MaxTime
    /\ clock' = clock + 1
    /\ UNCHANGED <<setup, table, txn, writes, calls, checked, call>>

-----------------------------------------------------------------------------
\* _write_rows chooses by the sharing the kvset declares.
WriteRows(v) ==
    IF ~setup.shares THEN "upsert" ELSE IF setup.owner = v THEN "update" ELSE "update_rows"

\* batch_delete, batch_unset.
Removes(op, v) ==
    IF (op = "delete" /\ DeletesRows(v)) \/ ~setup.shares THEN "delete" ELSE "clear"

\* _build_write_row: this view's column, and the row's clock and expiry.
BuildWriteRow(v, arg) ==
    LET base == IF arg.past THEN 0 ELSE clock
    IN [value |-> writes + 1, updated |-> base, expires |-> ExpiresAtColumn(v, arg.ttl, base),
        due |-> Plus(base, ResolveTtl(v, arg.ttl))]

Begin(c, op, v, k, arg) ==
    /\ At(c, "idle")
    /\ op # "get" => calls < MaxCalls
    /\ calls' = IF op = "get" THEN calls ELSE calls + 1
    /\ op \in Writers => writes < MaxWrites
    /\ writes' = IF op \in Writers THEN writes + 1 ELSE writes
    /\ call' = [call EXCEPT ![c] =
         [Idle EXCEPT
            !.op = op, !.view = v,
            !.key = IF op \in {"gc", "scan", "take"} THEN 0 ELSE k,
            !.row = IF op \in Writers THEN BuildWriteRow(v, arg) ELSE <<>>,
            !.step = CASE op = "set" -> WriteRows(v)
                       [] op \in {"delete", "unset"} -> Removes(op, v)
                       [] op \in {"put", "remove"} -> "version"
                       [] op = "get" -> "fetch"
                       [] op = "gc" -> "expired"
                       [] op \in {"scan", "take"} -> "page"]]
    /\ UNCHANGED <<setup, table, txn, clock, checked>>

\* The row with this view's columns written, and the row a view can insert.
Updated(c, row) ==
    LET w == call[c].row
    IN [row EXCEPT !.col[call[c].view] = w.value, !.updated = w.updated,
                   !.expires = w.expires, !.due = w.due]
Inserted(c) == Updated(c, [col |-> [v \in View |-> 0], updated |-> 0, expires |-> Null, due |-> Never])
Has(c) == call[c].key \in DOMAIN Rows(c)
Written(c) == Put(Rows(c), call[c].key, IF Has(c) THEN Updated(c, Rows(c)[call[c].key])
                                        ELSE Inserted(c))

UpsertRows(c) ==
    /\ At(c, "upsert")
    /\ Writes(c, Written(c), Ended(c))
    /\ Still

(***************************************************************************)
(* upsert_rows_update_first: UPDATE; if no row matched, INSERT; if another *)
(* writer took the key in between, UPDATE again, so many times.            *)
(***************************************************************************)
UpdateFirst(c) ==
    /\ At(c, "update")
    /\ IF Has(c) THEN Writes(c, Written(c), Ended(c))
       ELSE Writes(c, Rows(c), [call[c] EXCEPT !.step = "insert"])
    /\ Still

InsertNext(c) ==
    /\ At(c, "insert")
    /\ IF ~Has(c) THEN Writes(c, Written(c), Ended(c))
       ELSE Writes(c, Rows(c), IF call[c].tries + 1 = Attempts THEN Ended(c)
                               ELSE [call[c] EXCEPT !.step = "update", !.tries = @ + 1])
    /\ Still

\* update_rows: a view that does not own the rows passes over a missing one.
UpdateRows(c) ==
    /\ At(c, "update_rows")
    /\ Writes(c, IF Has(c) THEN Written(c) ELSE Rows(c), Ended(c))
    /\ Still

DeleteRows(c) ==
    /\ At(c, "delete")
    /\ Writes(c, Without(Rows(c), {call[c].key}), Ended(c))
    /\ Still

\* clear_columns: neither the clock nor the expiry of the row.
Cleared(c) == [Rows(c) EXCEPT ![call[c].key].col[call[c].view] = 0]
ClearOwnColumns(c) ==
    /\ At(c, "clear")
    /\ Writes(c, IF Has(c) THEN Cleared(c) ELSE Rows(c), Ended(c))
    /\ Still

-----------------------------------------------------------------------------
(***************************************************************************)
(* update: batch_read_versioned, then batch_write_if_unchanged with what   *)
(* decide made of it.  A row's version is the columns the view writes.     *)
(***************************************************************************)
VersionColumns(v, row) == <<row.col[v], row.updated, row.expires>>

ReadVersioned(c) ==
    /\ At(c, "version")
    /\ call' = [call EXCEPT ![c] =
         IF Has(c)
         THEN [@ EXCEPT !.seen = VersionColumns(call[c].view, Rows(c)[call[c].key]),
                        !.step = IF call[c].op = "put" THEN "replace_if"
                                 ELSE IF DeletesRows(call[c].view) THEN "delete_if"
                                 ELSE "clear_if"]
         ELSE IF @.op = "put" /\ DeletesRows(@.view) THEN [@ EXCEPT !.step = "insert_if"]
         ELSE Ended(c)]
    /\ UNCHANGED <<table, txn>> /\ Still

\* The mutant of Matches: the clock alone is compared.
MatchesClock(c) ==
    Has(c) /\ Rows(c)[call[c].key].updated = call[c].seen[2]

\* _expected and the adapter's WHERE clause.
Matches(c) ==
    Has(c) /\ VersionColumns(call[c].view, Rows(c)[call[c].key]) = call[c].seen

InsertEachIfAbsent(c) ==
    /\ At(c, "insert_if")
    /\ Writes(c, IF Has(c) THEN Rows(c) ELSE Written(c), Ended(c))
    /\ Still

ReplaceEachIf(c) ==
    /\ call[c].step \in {"replace_if", "clear_if"}
    /\ Writes(c, IF ~Matches(c) THEN Rows(c)
                 ELSE IF At(c, "clear_if") THEN Cleared(c) ELSE Written(c), Ended(c))
    /\ Still

DeleteEachIf(c) ==
    /\ At(c, "delete_if")
    /\ Writes(c, IF Matches(c) THEN Without(Rows(c), {call[c].key}) ELSE Rows(c), Ended(c))
    /\ Still

-----------------------------------------------------------------------------

\* get, exists, stat and their batches: _live_row deletes what it finds expired.
Fetch(c) ==
    /\ At(c, "fetch")
    /\ call' = [call EXCEPT ![c] =
         IF Has(c) /\ RowExpired(@.view, Rows(c)[@.key]) /\ ~setup.hides
         THEN [@ EXCEPT !.step = "collect", !.keys = {call[c].key}]
         ELSE Ended(c)]
    /\ UNCHANGED <<table, txn>> /\ Still

\* delete_by_keys of the rows found expired, one statement each.
Collect(c) ==
    /\ At(c, "collect")
    /\ \E k \in call[c].keys :
         LET rest == call[c].keys \ {k}
         IN Writes(c, Without(Rows(c), {k}),
                   IF rest # {} THEN [call[c] EXCEPT !.keys = rest]
                   ELSE IF call[c].op \in {"scan", "take"}
                   THEN [call[c] EXCEPT !.keys = {}, !.step = "answered"]
                   ELSE Ended(c))
    /\ Still

\* _ensure_early_binding_safe, once for a backend.
Unsafe(c) ==
    /\ call[c].view \notin checked
    /\ setup.binding = "early" /\ setup.ttl[call[c].view] # Never
    /\ \E k \in DOMAIN Rows(c) : Rows(c)[k].expires = Null

\* gc_expired_keys: _expired_rows, the oldest first, up to the limit.
ExpiredRows(c) ==
    LET v == call[c].view
        dead == {k \in DOMAIN Rows(c) : SqlExpired(v, Rows(c)[k])}
        size == IF Cardinality(dead) < Limit THEN Cardinality(dead) ELSE Limit
    IN /\ At(c, "expired")
       /\ checked' = checked \cup {v}
       /\ \E found \in SUBSET dead :
            /\ Cardinality(found) = size
            /\ \A k \in found, j \in dead \ found :
                 DeathTime(v, Rows(c)[k]) <= DeathTime(v, Rows(c)[j])
            /\ call' = [call EXCEPT ![c] =
                 IF Unsafe(c) THEN [@ EXCEPT !.step = "raised"]
                 ELSE IF found = {} THEN Ended(c)
                 ELSE [@ EXCEPT !.step = "collect", !.keys = found]]
       /\ UNCHANGED <<setup, table, txn, clock, writes, calls>>

-----------------------------------------------------------------------------
\* The sequences that list members of S in order, up to a page of them; and the page
\* that a query with ORDER BY and LIMIT gives of S.
Ascending(S) ==
    {s \in UNION {[1..n -> S] : n \in 0..PageSize} :
        \A i, j \in DOMAIN s : i < j => s[i] < s[j]}
FirstPage(S) ==
    {s \in Ascending(S) :
        \A k \in S \ ToSet(s) : Len(s) = PageSize /\ \A i \in DOMAIN s : s[i] < k}

\* The mutant of Page: pages are counted off, not sought by key.
OffsetPage(c) ==
    LET before(k) == {j \in DOMAIN Rows(c) : j < k}
    IN FirstPage({k \in DOMAIN Rows(c) : Cardinality(before(k)) >= Len(call[c].out)})

\* scan_page_by_key_parts: the rows after a key, in order, a page of them.
Page(c) == FirstPage({k \in DOMAIN Rows(c) : k > call[c].after})

(***************************************************************************)
(* _iter_keyset_rows: the expired rows met are deleted when the scan ends, *)
(* or has reached its limit ("take").                                      *)
(***************************************************************************)
AlivePart(c, page) == {k \in ToSet(page) : Alive(call[c].view, Rows(c)[k])}
Scanned(c, page, live) ==
    LET v == call[c].view
        row(k) == Rows(c)[k]
        taken == call[c].op = "take" /\ live # <<>>
        met == IF taken THEN {k \in ToSet(page) : k <= Head(live)} ELSE ToSet(page)
        dead == IF setup.hides THEN {} ELSE {k \in met : RowExpired(v, row(k))}
        keys == call[c].keys \cup dead
    IN [call[c] EXCEPT
          !.keys = keys,
          !.start = IF call[c].after # 0 THEN @ ELSE {k \in DOMAIN Rows(c) : Alive(v, row(k))},
          !.out = @ \o (IF taken THEN <<Head(live)>> ELSE live),
          !.after = IF page = <<>> THEN @ ELSE Last(page),
          !.step = IF Len(page) = PageSize /\ ~taken THEN "page"
                   ELSE IF keys # {} THEN "collect" ELSE "answered"]
IterKeysetRows(c) ==
    /\ At(c, "page")
    /\ \E page \in Page(c) : \E live \in Ascending(AlivePart(c, page)) :
         /\ ToSet(live) = AlivePart(c, page)
         /\ call' = [call EXCEPT ![c] = Scanned(c, page, live)]
    /\ UNCHANGED <<table, txn>> /\ Still

Return(c) ==
    /\ call[c].step \in {"answered", "raised"}
    /\ call' = [call EXCEPT ![c] = Ended(c)]
    /\ UNCHANGED <<table, txn>> /\ Still

Step(c) ==
    \/ Refuse(c) \/ Open(c) \/ Commit(c) \/ Rollback(c)
    \/ UpsertRows(c) \/ UpdateFirst(c) \/ InsertNext(c) \/ UpdateRows(c)
    \/ DeleteRows(c) \/ ClearOwnColumns(c)
    \/ ReadVersioned(c) \/ InsertEachIfAbsent(c) \/ ReplaceEachIf(c) \/ DeleteEachIf(c)
    \/ Fetch(c) \/ Collect(c) \/ ExpiredRows(c) \/ IterKeysetRows(c) \/ Return(c)

Next ==
    \/ Tick
    \/ \E c \in Client : Step(c)
    \/ \E c \in Client, v \in Views, k \in Key, arg \in WriteArg :
         \E op \in Op[c] : Begin(c, op, v, k, arg)

Spec == Init /\ [][Next]_vars

-----------------------------------------------------------------------------
Row == [col : [View -> 0..MaxWrites], updated : 0..MaxTime,
        expires : Nat \cup {Null, Never}, due : Nat \cup {Never}]

\* The types of the state; and only a connection that does not commit by itself holds a
\* transaction, and no upsert by UPDATE and INSERT is tried more often than it may be.
TypeOK ==
    /\ DOMAIN table \subseteq Key /\ \A k \in DOMAIN table : table[k] \in Row
    /\ txn.holder \in Client \cup {Nobody}
    /\ DOMAIN txn.rows \subseteq Key /\ \A k \in DOMAIN txn.rows : txn.rows[k] \in Row
    /\ txn.holder # Nobody => setup.connection[txn.holder] # "autocommit"
    /\ \A c \in Client : call[c].tries < Attempts /\ call[c].keys \subseteq Key

\* A step of client c's call, other than of another client that races it.
Acts(c) == ~At(c, "idle") /\ (call'[c].step # call[c].step \/ call'[c].keys # call[c].keys)

\* Liveness is judged in Python and in SQL, for reads, ordered scans and gc; the
\* three agree on every row (adapter.py, "Predicate must match _row_expired"),
\* but for the rows early binding leaves to a backfill.
PushdownAgrees ==
    \A v \in Views, k \in DOMAIN table :
        /\ SqlLive(v, table[k]) <=> Alive(v, table[k])
        /\ setup.binding = "late" \/ table[k].expires # Null =>
             (SqlExpired(v, table[k]) <=> RowExpired(v, table[k]))

\* A row's one expiry is what its last writer asked for, whichever view reads it
\* and whatever was written and cleared in between; the views agree on their TTL.
ExpiresAsAsked ==
    \A v \in Views, k \in DOMAIN Latest : DeathTime(v, Latest[k]) = Latest[k].due

\* Rows are well typed, carry the expiry asked for, and are judged alike in Python
\* and in SQL (_row_expired, SqlLiveness, scan_expired).
JudgedAsAsked == TypeOK /\ PushdownAgrees /\ ExpiresAsAsked

\* Reads, scans and gc delete rows of their own accord only when they have run
\* out, or were written since they were found.
CollectsTheExpired(c) ==
    At(c, "collect") /\ Acts(c) =>
        \A k \in DOMAIN Latest \ DOMAIN Latest' :
            k \in call[c].raced \/ Passed(Latest[k].due)

\* schema.py, owns_rows: "Only the owner creates rows", "deleting from a sibling
\* view never takes the record with it".  Whatever a view that does not own the
\* rows writes or removes, however it races the owner, no row comes or goes, and
\* the other views' columns stay.
SiblingsKeepTheirs(c) ==
    Acts(c) /\ ~At(c, "collect") /\ setup.shares /\ call[c].view # setup.owner =>
        /\ DOMAIN Latest' = DOMAIN Latest
        /\ \A k \in DOMAIN Latest, v \in View \ {call[c].view} :
             Latest'[k].col[v] = Latest[k].col[v]

\* No step takes what is not its own to take: of its own accord only what has run
\* out, and from a view that does not own the rows only the view's own columns.
TakesOnlyItsOwn == [][\A c \in Client : CollectsTheExpired(c) /\ SiblingsKeepTheirs(c)]_vars

\* keymap.py, update: written only if the entry is still what decide saw, though
\* others write, clear and delete between the read and the conditional statement.
UpdateReplacesWhatItSaw ==
    [][\A c \in Client :
         Acts(c) /\ call[c].op \in {"put", "remove"} /\ Latest' # Latest =>
             LET k == call[c].key
             IN IF call[c].seen = <<>> THEN k \notin DOMAIN Latest
                ELSE k \in DOMAIN Latest /\ Latest[k].col[call[c].view] = call[c].seen[1]]_vars

\* A scan that has run to its end has listed, in order, every key whose row was
\* there all the time, while rows before and after the page came and went.
ScanListsTheSteady ==
    \A c \in Client : At(c, "answered") =>
        /\ \A i, j \in 1..Len(call[c].out) : i < j => call[c].out[i] < call[c].out[j]
        /\ call[c].op = "scan" =>
             \A k \in call[c].start \ call[c].raced : k \in ToSet(call[c].out) \/ k \notin DOMAIN Rows(c)
                                                   \/ RowExpired(call[c].view, Rows(c)[k])
=============================================================================
