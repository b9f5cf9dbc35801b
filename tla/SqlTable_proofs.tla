-------------------------- MODULE SqlTable_proofs --------------------------
(***************************************************************************)
(* Theorems about SqlTable: any keys, views, clients and connections, any  *)
(* TTLs and clocks, any size of page.                                      *)
(***************************************************************************)
EXTENDS SqlTable, SequenceTheorems, TLAPS

-----------------------------------------------------------------------------
(***************************************************************************)
(* The judgements of the module with the setup and the time as parameters, *)
(* so that a statement about one state can be carried to the next.         *)
(***************************************************************************)
Moment == Nat \cup {Never}
Death(st, v, row) == IF row.expires = Null THEN Plus(row.updated, st.ttl[v]) ELSE row.expires
Over(moment, m) == moment # Never /\ m >= moment
Owns(st, v) == st.owner = v \/ ~st.shares
Keeps(st, v, row) == st.shares => row.col[v] # 0
ViewsOf(st) == IF st.shares THEN View ELSE {st.owner}

\* The views that share a table have one TTL.
Agree == \A s \in Setup : s.shares => \A v, w \in View : s.ttl[v] = s.ttl[w]

-----------------------------------------------------------------------------
(***************************************************************************)
(* The inductive invariant.  Rows, and the rows about to be written, are   *)
(* well formed, and carry the expiry asked for where the views agree.      *)
(***************************************************************************)
Asked(st, row) == Agree => \A v \in ViewsOf(st) : Death(st, v, row) = row.due
RowsOK(st, rows) ==
    /\ DOMAIN rows \subseteq Key /\ rows \in [DOMAIN rows -> Row]
    /\ \A k \in DOMAIN rows : Asked(st, rows[k])

WriteRow ==
    [value : 1..MaxWrites, updated : 0..MaxTime, expires : Nat \cup {Null, Never}, due : Moment]

\* Where a call of each kind may stand; only the owner of the rows stands where rows
\* are created or deleted.
Creating == {"upsert", "update", "insert", "insert_if"}
Deleting == {"delete", "delete_if"}
Swapping == {"replace_if", "clear_if", "delete_if"}
Listing == {"gc", "scan", "take"}
AllSteps == Creating \cup Deleting \cup Swapping \cup
    {"idle", "update_rows", "clear", "version", "fetch", "expired", "page", "collect",
     "answered", "raised"}
Version == (0..MaxWrites) \X (0..MaxTime) \X (Nat \cup {Null, Never})
CallType ==
    [op : Ops \cup {"none"}, step : AllSteps, view : View, key : Nat,
     row : WriteRow \cup {<<>>}, seen : Version \cup {<<>>},
     tries : 0..(Attempts - 1), after : Nat, keys : SUBSET Key, start : SUBSET Key,
     raced : SUBSET Key, out : Seq(Key)]
Stands(st, cl) ==
    /\ cl.step = "idle" <=> cl.op = "none"
    /\ cl.step \in {"upsert", "update", "insert", "update_rows"} => cl.op = "set"
    /\ cl.step \in {"delete", "clear"} => cl.op \in {"delete", "unset"}
    /\ cl.step = "version" => cl.op \in {"put", "remove"}
    /\ cl.step \in {"insert_if", "replace_if"} => cl.op = "put"
    /\ cl.step \in {"delete_if", "clear_if"} => cl.op = "remove"
    /\ cl.step = "fetch" => cl.op = "get"
    /\ cl.step \in {"expired", "raised"} => cl.op = "gc"
    /\ cl.step \in {"page", "answered"} => cl.op \in {"scan", "take"}
    /\ cl.step = "collect" => cl.op \in Readers
    /\ cl.step \in Creating \cup Deleting => Owns(st, cl.view)
    /\ cl.step \in Swapping <=> cl.seen # <<>>
    /\ cl.op \in Writers => cl.row \in WriteRow /\ Asked(st, cl.row)
    /\ cl.op \notin Listing \cup {"none"} => cl.key \in Key
    /\ cl.op \notin Readers => cl.keys = {} /\ cl.start = {} /\ cl.out = <<>>
    /\ cl.view \in ViewsOf(st)

\* What a scan or a deletion of expired rows has found, of the rows nobody else wrote
\* since: rows is what the call's statements work on, m the time.
Found(st, cl, rows, m) ==
    \A k \in (cl.keys \cap DOMAIN rows) \ cl.raced : Over(Death(st, cl.view, rows[k]), m)

InOrder(out, after) ==
    /\ \A i, j \in 1..Len(out) : i < j => out[i] < out[j]
    /\ \A i \in 1..Len(out) : out[i] <= after

Listed(st, cl, rows, m) ==
    \A k \in (cl.start \cap DOMAIN rows) \ cl.raced :
        /\ Keeps(st, cl.view, rows[k])
        /\ cl.op = "scan" =>
             \/ k \in ToSet(cl.out) \/ Over(Death(st, cl.view, rows[k]), m)
             \/ cl.step = "page" /\ k > cl.after

Knows(st, cl, rows, m) ==
    /\ Stands(st, cl) /\ Found(st, cl, rows, m)
    /\ InOrder(cl.out, cl.after) /\ Listed(st, cl, rows, m)

Inv ==
    /\ setup \in Setup /\ clock \in 0..MaxTime /\ writes \in 0..MaxWrites
    /\ RowsOK(setup, table) /\ RowsOK(setup, txn.rows)
    /\ txn = [holder |-> txn.holder, rows |-> txn.rows] /\ txn.holder \in Client \cup {Nobody}
    /\ txn.holder # Nobody => setup.connection[txn.holder] # "autocommit"
    /\ call \in [Client -> CallType]
    /\ \A c \in Client : Knows(setup, call[c], Rows(c), clock)

-----------------------------------------------------------------------------
(***************************************************************************)
(* The module's judgements are those of the invariant.                     *)
(***************************************************************************)

\* A setup's fields.
LEMMA SetupTyped ==
    ASSUME NEW st \in Setup
    PROVE  /\ st.shares \in BOOLEAN /\ st.owner \in View /\ st.ttl \in [View -> Moment]
           /\ st.hides \in BOOLEAN /\ st.binding \in {"late", "early"} /\ st.legacy \in BOOLEAN
           /\ st.connection \in [Client -> Connections]
           /\ st.owner \in ViewsOf(st) /\ ViewsOf(st) \subseteq View
<1>1. st \in Setups(View, Nat \cup {Never}, [Client -> Connections])
  BY SqlAssumption
<1> QED
  BY <1>1 DEF Setups, Moment, ViewsOf

\* Expiry and holding, with their parameters spelt out.
LEMMA Judgements ==
    /\ \A v, row : DeathTime(v, row) = Death(setup, v, row)
    /\ \A v, row : RowExpired(v, row) <=> Over(Death(setup, v, row), clock)
    /\ \A v, row : Holds(v, row) <=> Keeps(setup, v, row)
    /\ \A v : DeletesRows(v) <=> Owns(setup, v)
    /\ Views = ViewsOf(setup)
  BY DEF DeathTime, RowExpired, Passed, Death, Over, Holds, Keeps, DeletesRows, Owns, Views, ViewsOf

\* The moment a row runs out is a moment, and what has run out stays so.
LEMMA DeathTyped ==
    ASSUME NEW st \in Setup, NEW v \in View, NEW row,
           row.updated \in Nat, row.expires \in Nat \cup {Null, Never}
    PROVE  Death(st, v, row) \in Moment
  BY SetupTyped, SqlAssumption DEF Death, Plus, Moment

\* What has run out has run out at every later time.
LEMMA OverLater ==
    ASSUME NEW moment \in Moment, NEW m \in Nat, NEW m1 \in Nat, m1 >= m, Over(moment, m)
    PROVE  Over(moment, m1)
  BY SqlAssumption DEF Over, Moment

-----------------------------------------------------------------------------
(***************************************************************************)
(* What a call knows outlives the steps of others.                         *)
(***************************************************************************)
Raced(cl, rows, new) ==
    IF cl.op \notin Readers THEN cl ELSE [cl EXCEPT !.raced = @ \cup Differ(rows, new)]

\* The others' writes are noted.
LEMMA StaysKnown ==
    ASSUME NEW st \in Setup, NEW cl \in CallType, NEW rows, NEW new, NEW m \in Nat,
           RowsOK(st, rows), RowsOK(st, new), Knows(st, cl, rows, m)
    PROVE  Raced(cl, rows, new) \in CallType /\ Knows(st, Raced(cl, rows, new), new, m)
<1> DEFINE one == Raced(cl, rows, new)
<1>1. CASE cl.op \notin Readers
  <2>1. one = cl /\ cl.keys = {} /\ cl.start = {}
    BY <1>1 DEF Raced, Knows, Stands
  <2> QED
    BY <2>1 DEF Knows, Found, Listed
<1>2. CASE cl.op \in Readers
  <2>1. one = [cl EXCEPT !.raced = @ \cup Differ(rows, new)]
    BY <1>2 DEF Raced
  <2>2. Differ(rows, new) \subseteq Key
    BY DEF Differ, RowsOK
  <2>3. one \in CallType
    BY <2>1, <2>2 DEF CallType
  <2>4. /\ one.op = cl.op /\ one.step = cl.step /\ one.view = cl.view /\ one.key = cl.key
        /\ one.row = cl.row /\ one.seen = cl.seen /\ one.after = cl.after /\ one.keys = cl.keys
        /\ one.start = cl.start /\ one.out = cl.out /\ one.raced = cl.raced \cup Differ(rows, new)
    BY <2>1 DEF CallType
  <2>5. ASSUME NEW k \in DOMAIN new, k \notin one.raced
        PROVE  k \in DOMAIN rows /\ k \notin cl.raced /\ rows[k] = new[k]
    BY <2>4, <2>5 DEF Differ
  <2>6. Stands(st, one)
    BY <2>4 DEF Knows, Stands
  <2>7. Found(st, one, new, m)
    BY <2>4, <2>5 DEF Knows, Found
  <2>8. Listed(st, one, new, m)
    BY <2>4, <2>5 DEF Knows, Listed
  <2> QED
    BY <2>3, <2>4, <2>6, <2>7, <2>8 DEF Knows
<1> QED
  BY <1>1, <1>2

\* Time passes.
LEMMA KnownLater ==
    ASSUME NEW st \in Setup, NEW cl \in CallType, NEW rows, NEW m \in Nat, NEW m1 \in Nat,
           m1 >= m, RowsOK(st, rows), Knows(st, cl, rows, m)
    PROVE  Knows(st, cl, rows, m1)
<1>1. ASSUME NEW k \in DOMAIN rows, Over(Death(st, cl.view, rows[k]), m)
      PROVE  Over(Death(st, cl.view, rows[k]), m1)
  <2>1. rows[k].updated \in Nat /\ rows[k].expires \in Nat \cup {Null, Never} /\ cl.view \in View
    BY SqlAssumption DEF RowsOK, Row, CallType
  <2> QED
    BY <1>1, <2>1, DeathTyped, OverLater
<1> QED
  BY <1>1 DEF Knows, Found, Listed

\* A call loses nothing by rows of its own that it deletes.
LEMMA KnownOfFewer ==
    ASSUME NEW st \in Setup, NEW cl \in CallType, NEW rows, NEW new, NEW m \in Nat,
           DOMAIN new \subseteq DOMAIN rows, \A k \in DOMAIN new : new[k] = rows[k],
           Knows(st, cl, rows, m)
    PROVE  Knows(st, cl, new, m)
  BY DEF Knows, Found, Listed

-----------------------------------------------------------------------------
(***************************************************************************)
(* One statement of a client, and one step that writes nothing.            *)
(***************************************************************************)

\* What a statement leaves: the rows the client works on, and what the others see.
LEMMA WritesSee ==
    ASSUME Inv, NEW c \in Client, NEW rows, NEW cl, Writes(c, rows, cl)
    PROVE  /\ Latest = Rows(c) /\ Latest' = rows /\ Rows(c)' = rows /\ call'[c] = cl
           /\ \A d \in Client \ {c} :
                Rows(d) = table /\ Rows(d)' = table' /\ call'[d] = Raced(call[d], table, table')
           /\ \/ table' = rows /\ txn' = txn
              \/ table' = table /\ txn' = [holder |-> c, rows |-> rows]
           /\ txn'.holder # Nobody => setup.connection[txn'.holder] # "autocommit"
           /\ txn'.holder \in Client \cup {Nobody} /\ DOMAIN call' = Client
<1> USE SqlAssumption
<1>0. call \in [Client -> CallType] /\ (txn.holder # Nobody => setup.connection[txn.holder] # "autocommit")
      /\ txn.holder \in {Nobody, c} /\ c # Nobody
  BY DEF Inv, Writes
<1>1. CASE setup.connection[c] = "autocommit"
  <2>1. txn.holder = Nobody /\ txn' = txn /\ table' = rows
    BY <1>0, <1>1 DEF Writes, Installs
  <2>2. call' = [d \in Client |-> IF d = c THEN cl ELSE Raced(call[d], table, rows)]
    BY <1>1 DEF Writes, Installs, Raced
  <2> QED
    BY <1>0, <2>1, <2>2 DEF Latest, Rows
<1>2. CASE setup.connection[c] # "autocommit"
  <2>1. txn' = [holder |-> c, rows |-> rows] /\ call' = [call EXCEPT ![c] = cl] /\ table' = table
    BY <1>2 DEF Writes
  <2>2. txn'.holder = c /\ txn'.rows = rows
    BY <2>1
  <2>3. Differ(table, table) = {}
    BY DEF Differ
  <2>4. \A d \in Client \ {c} : call'[d] = call[d] /\ Raced(call[d], table, table) = call[d]
    BY <1>0, <2>1, <2>3 DEF Raced, CallType
  <2> QED
    BY <1>0, <1>2, <2>1, <2>2, <2>4 DEF Latest, Rows
<1> QED
  BY <1>1, <1>2

\* So it keeps the invariant where it leaves good rows and a good call.
LEMMA WritesKeep ==
    ASSUME Inv, NEW c \in Client, NEW rows, NEW cl, Writes(c, rows, cl), Still,
           RowsOK(setup, rows), cl \in CallType, Knows(setup, cl, rows, clock)
    PROVE  Inv'
<1>0. setup' = setup /\ clock' = clock /\ writes' = writes
  BY DEF Still
<1>1. RowsOK(setup', table') /\ RowsOK(setup', txn'.rows)
      /\ txn' = [holder |-> txn'.holder, rows |-> txn'.rows] /\ txn'.holder \in Client \cup {Nobody}
      /\ (txn'.holder # Nobody => setup'.connection[txn'.holder] # "autocommit")
  BY <1>0, WritesSee DEF Inv
<1>2. call'[c] \in CallType /\ Knows(setup', call'[c], Rows(c)', clock')
  BY <1>0, WritesSee
<1>3. ASSUME NEW d \in Client \ {c}
      PROVE  call'[d] \in CallType /\ Knows(setup', call'[d], Rows(d)', clock')
  <2>1. Rows(d) = table /\ Rows(d)' = table' /\ call'[d] = Raced(call[d], table, table')
    BY WritesSee
  <2>2. setup \in Setup /\ call[d] \in CallType /\ clock \in Nat /\ RowsOK(setup, table)
        /\ Knows(setup, call[d], table, clock)
    BY <2>1, SqlAssumption DEF Inv
  <2> QED
    BY <1>0, <1>1, <2>1, <2>2, StaysKnown
<1>4. call' \in [Client -> CallType]
  <2>1. call' = [d \in Client |-> call'[d]]
    BY DEF Writes, Installs, Inv
  <2> QED
    BY <1>2, <1>3, <2>1
<1> QED
  BY <1>0, <1>1, <1>2, <1>3, <1>4 DEF Inv

\* A step of one client's call only.
LEMMA ReadsKeep ==
    ASSUME Inv, NEW c \in Client, NEW cl \in CallType, call' = [call EXCEPT ![c] = cl],
           UNCHANGED <<setup, table, txn, clock>>, writes' \in 0..MaxWrites,
           Knows(setup, cl, Rows(c), clock)
    PROVE  Inv'
<1>1. \A d \in Client : Rows(d)' = Rows(d)
  BY DEF Rows
<1>2. call' \in [Client -> CallType] /\ \A d \in Client : call'[d] = IF d = c THEN cl ELSE call[d]
  BY DEF Inv
<1>3. \A d \in Client : Knows(setup', call'[d], Rows(d)', clock')
  BY <1>1, <1>2 DEF Inv
<1> QED
  BY <1>2, <1>3 DEF Inv

-----------------------------------------------------------------------------
(***************************************************************************)
(* The rows that statements make.                                          *)
(***************************************************************************)

\* The rows a client works on.
LEMMA RowsGood ==
    ASSUME Inv, NEW c \in Client
    PROVE  RowsOK(setup, Rows(c)) /\ setup \in Setup /\ call[c] \in CallType
           /\ Knows(setup, call[c], Rows(c), clock) /\ clock \in Nat
  BY SqlAssumption DEF Inv, Rows

\* Good rows with a good row put among them.
LEMMA PutGood ==
    ASSUME NEW st, NEW rows, RowsOK(st, rows), NEW k \in Key, NEW row \in Row, Asked(st, row)
    PROVE  RowsOK(st, Put(rows, k, row))
  BY DEF RowsOK, Put

\* Good rows but for some.
LEMMA WithoutGood ==
    ASSUME NEW st, NEW rows, RowsOK(st, rows), NEW ks
    PROVE  RowsOK(st, Without(rows, ks))
  BY DEF RowsOK, Without

\* A write leaves a good row, in place of another or new; it changes its own column,
\* and clearing a column nothing else.
LEMMA UpdatedGood ==
    ASSUME Inv, NEW c \in Client, call[c].op \in Writers, NEW row \in Row
    PROVE  /\ Updated(c, row) \in Row /\ Asked(setup, Updated(c, row))
           /\ \A v \in View \ {call[c].view} : Updated(c, row).col[v] = row.col[v]
<1> DEFINE w == call[c].row
           new == Updated(c, row)
<1>1. w \in WriteRow /\ Asked(setup, w) /\ call[c].view \in View
  BY RowsGood DEF Knows, Stands, CallType
<1>2. new = [row EXCEPT !.col[call[c].view] = w.value, !.updated = w.updated,
                        !.expires = w.expires, !.due = w.due]
  BY DEF Updated
<1>5. w.value \in 0..MaxWrites /\ w.updated \in 0..MaxTime /\ w.due \in Nat \cup {Never}
      /\ w.expires \in Nat \cup {Null, Never}
  BY <1>1, SqlAssumption DEF WriteRow, Moment
<1>6. row.col \in [View -> 0..MaxWrites] /\ DOMAIN row = {"col", "updated", "expires", "due"}
  BY DEF Row
<1>7. [row.col EXCEPT ![call[c].view] = w.value] \in [View -> 0..MaxWrites]
  BY <1>1, <1>5, <1>6
<1>8. /\ new.updated = w.updated /\ new.expires = w.expires /\ new.due = w.due
      /\ new.col = [row.col EXCEPT ![call[c].view] = w.value]
  BY <1>2, <1>6
<1>3. new \in Row /\ new.updated = w.updated /\ new.expires = w.expires /\ new.due = w.due
      /\ new.col = [row.col EXCEPT ![call[c].view] = w.value]
  BY <1>2, <1>5, <1>7, <1>8 DEF Row
<1>4. Asked(setup, new)
  BY <1>1, <1>3 DEF Asked, Death
<1> QED
  BY <1>3, <1>4 DEF Row

\* The row a write inserts, with the other views' columns NULL.
LEMMA InsertedGood ==
    ASSUME Inv, NEW c \in Client, call[c].op \in Writers
    PROVE  Inserted(c) \in Row /\ Asked(setup, Inserted(c))
<1>1. PICK blank : blank = [col |-> [v \in View |-> 0], updated |-> 0, expires |-> Null, due |-> Never]
  OBVIOUS
<1>2. blank \in Row
  BY <1>1, SqlAssumption DEF Row
<1>3. Inserted(c) = Updated(c, blank)
  BY <1>1 DEF Inserted
<1> QED
  BY <1>2, <1>3, UpdatedGood

\* The rows a write leaves, by UPDATE or by INSERT.
LEMMA WrittenGood ==
    ASSUME Inv, NEW c \in Client, call[c].op \in Writers
    PROVE  RowsOK(setup, Written(c))
<1>1. call[c].key \in Key
  BY RowsGood DEF Knows, Stands, Writers, Listing
<1>2. ASSUME Has(c) PROVE Rows(c)[call[c].key] \in Row
  BY <1>2, RowsGood DEF Has, RowsOK
<1>3. PICK row : row = IF Has(c) THEN Updated(c, Rows(c)[call[c].key]) ELSE Inserted(c)
  OBVIOUS
<1>4. row \in Row /\ Asked(setup, row)
  BY <1>2, <1>3, UpdatedGood, InsertedGood
<1>5. Written(c) = Put(Rows(c), call[c].key, row)
  BY <1>3 DEF Written
<1> QED
  BY <1>1, <1>4, <1>5, RowsGood, PutGood

\* The rows clear_columns leaves: one column less, no clock and no expiry changed.
LEMMA ClearedGood ==
    ASSUME Inv, NEW c \in Client, Has(c)
    PROVE  /\ RowsOK(setup, Cleared(c)) /\ DOMAIN Cleared(c) = DOMAIN Rows(c)
           /\ \A k \in DOMAIN Rows(c), v \in View \ {call[c].view} :
                Cleared(c)[k].col[v] = Rows(c)[k].col[v]
<1> DEFINE k0 == call[c].key
           v0 == call[c].view
           old == Rows(c)[k0]
           new == [old EXCEPT !.col[v0] = 0]
<1>1. k0 \in DOMAIN Rows(c) /\ v0 \in View /\ RowsOK(setup, Rows(c))
  BY RowsGood DEF Has, CallType
<1>2. old \in Row /\ Asked(setup, old)
  BY <1>1 DEF RowsOK
<1>3. /\ new \in Row /\ new.updated = old.updated /\ new.expires = old.expires
      /\ new.due = old.due /\ new.col = [old.col EXCEPT ![v0] = 0]
  BY <1>1, <1>2, SqlAssumption DEF Row
<1>4. Asked(setup, new)
  BY <1>2, <1>3 DEF Asked, Death
<1>5. Cleared(c) = [Rows(c) EXCEPT ![k0] = new]
  BY <1>1 DEF Cleared, RowsOK
<1>6. DOMAIN Cleared(c) = DOMAIN Rows(c)
      /\ \A k \in DOMAIN Rows(c) : Cleared(c)[k] = IF k = k0 THEN new ELSE Rows(c)[k]
  BY <1>1, <1>5 DEF RowsOK
<1>7. RowsOK(setup, Cleared(c))
  BY <1>1, <1>3, <1>4, <1>5, <1>6 DEF RowsOK
<1>8. \A k \in DOMAIN Rows(c), v \in View \ {v0} : Cleared(c)[k].col[v] = Rows(c)[k].col[v]
  BY <1>1, <1>2, <1>3, <1>6 DEF Row
<1> QED
  BY <1>6, <1>7, <1>8

\* A call that has ended knows nothing and needs nothing.
LEMMA IdleGood ==
    ASSUME Inv
    PROVE  Idle \in CallType /\ \A rows : Knows(setup, Idle, rows, clock)
<1>1. setup \in Setup
  BY DEF Inv
<1>2. Idle \in CallType
  BY <1>1, SetupTyped, SqlAssumption DEF Idle, CallType, AllSteps
<1>3. Stands(setup, Idle)
  BY <1>1, SetupTyped DEF Stands, Idle, Creating, Deleting, Swapping, Readers, Writers, Listing
<1>4. \A rows : Found(setup, Idle, rows, clock) /\ Listed(setup, Idle, rows, clock) /\ InOrder(Idle.out, Idle.after)
  BY DEF Found, Listed, InOrder, Idle
<1> QED
  BY <1>2, <1>3, <1>4 DEF Knows

\* The last statement of a call keeps the invariant if it leaves good rows.
LEMMA EndsWell ==
    ASSUME Inv, NEW c \in Client, NEW rows, RowsOK(setup, rows), Writes(c, rows, Ended(c)), Still
    PROVE  Inv'
<1>1. PICK cl : cl = Ended(c)
  OBVIOUS
<1>2. Writes(c, rows, cl)
  BY <1>1 DEF Writes, Installs
<1>3. cl \in CallType /\ Knows(setup, cl, rows, clock)
  BY <1>1, IdleGood DEF Ended
<1> QED
  BY <1>2, <1>3, WritesKeep

-----------------------------------------------------------------------------
(***************************************************************************)
(* The invariant, action by action.                                        *)
(***************************************************************************)

\* A table from before it had an expiry, or an empty one.
LEMMA InitInv == Init => Inv
<1> SUFFICES ASSUME Init PROVE Inv
  OBVIOUS
<1>0. /\ setup \in Setup /\ clock = 0 /\ writes \in 0..1 /\ txn = NoTxn
      /\ call = [c \in Client |-> Idle] /\ 0 \in 0..MaxTime /\ 0..1 \subseteq 0..MaxWrites
  BY SqlAssumption DEF Init
<1>1. RowsOK(setup, <<>>)
  BY DEF RowsOK
<1>2. ASSUME setup.legacy PROVE RowsOK(setup, [k \in Key |-> LegacyRow(setup.owner)])
  <2>1. LegacyRow(setup.owner) \in Row
    BY <1>0, SetupTyped, SqlAssumption DEF LegacyRow, Row, Plus, Moment
  <2>2. ASSUME Agree, NEW v \in ViewsOf(setup)
        PROVE  setup.ttl[v] = setup.ttl[setup.owner]
    BY <1>0, <2>2, SetupTyped DEF Agree, ViewsOf
  <2>3. Asked(setup, LegacyRow(setup.owner))
    BY <2>2 DEF Asked, Death, LegacyRow
  <2> QED
    BY <2>1, <2>3 DEF RowsOK
<1>3. RowsOK(setup, table)
  BY <1>1, <1>2 DEF Init
<1>4. Idle \in CallType
  BY <1>0, SetupTyped, SqlAssumption DEF Idle, CallType, AllSteps
<1>5. \A rows : Knows(setup, Idle, rows, clock)
  <2>1. Stands(setup, Idle)
    BY <1>0, SetupTyped DEF Stands, Idle, Creating, Deleting, Swapping, Readers, Writers, Listing
  <2> QED
    BY <2>1 DEF Knows, Found, Listed, InOrder, Idle
<1> QED
  BY <1>0, <1>1, <1>3, <1>4, <1>5 DEF Inv, NoTxn

\* What a write brings is a good row, whose expiry is the one asked for.
LEMMA BuildsGood ==
    ASSUME Inv, NEW v \in ViewsOf(setup), NEW arg \in WriteArg, writes < MaxWrites
    PROVE  BuildWriteRow(v, arg) \in WriteRow /\ Asked(setup, BuildWriteRow(v, arg))
<1> DEFINE base == IF arg.past THEN 0 ELSE clock
           w == BuildWriteRow(v, arg)
<1>1. setup \in Setup /\ clock \in 0..MaxTime /\ writes \in 0..MaxWrites
  BY DEF Inv
<1>2. arg.ttl \in Nat \cup {Never, Unset} /\ setup.ttl[v] \in Moment /\ base \in 0..MaxTime
  BY <1>1, SetupTyped, SqlAssumption
<1>3. /\ w.value = writes + 1 /\ w.updated = base /\ w.expires = ExpiresAtColumn(v, arg.ttl, base)
      /\ w.due = Plus(base, ResolveTtl(v, arg.ttl))
      /\ w = [value |-> w.value, updated |-> w.updated, expires |-> w.expires, due |-> w.due]
  BY DEF BuildWriteRow
<1>4. ResolveTtl(v, arg.ttl) \in Moment
  BY <1>2 DEF ResolveTtl, Moment
<1>5. w.due \in Moment /\ w.expires \in Nat \cup {Null, Never}
  BY <1>2, <1>3, <1>4, SqlAssumption DEF ExpiresAtColumn, Plus, Moment
<1>6. w \in WriteRow
  BY <1>1, <1>2, <1>3, <1>5, SqlAssumption DEF WriteRow
<1>7. ASSUME Agree, NEW u \in ViewsOf(setup)
      PROVE  Death(setup, u, w) = w.due
  <2>1. setup.ttl[u] = setup.ttl[v]
    BY <1>1, <1>7, SetupTyped DEF Agree, ViewsOf
  <2>2. CASE arg.ttl = Unset /\ setup.ttl[v] = Never
    BY <1>3, <2>1, <2>2 DEF Death, ExpiresAtColumn, ResolveTtl
  <2>3. CASE ~(arg.ttl = Unset /\ setup.ttl[v] = Never)
    <3>1. w.expires = w.due
      BY <1>3, <2>3, SqlAssumption DEF ExpiresAtColumn, ResolveTtl
    <3> QED
      BY <3>1, <1>5, SqlAssumption DEF Death, Moment
  <2> QED
    BY <2>2, <2>3
<1> QED
  BY <1>6, <1>7 DEF Asked

\* A call begins, at the statement its view and operation choose.
LEMMA BeginInv ==
    ASSUME Inv, NEW c \in Client, NEW op \in Ops, NEW v \in Views, NEW k \in Key,
           NEW arg \in WriteArg, Begin(c, op, v, k, arg)
    PROVE  Inv'
<1> DEFINE step == CASE op = "set" -> WriteRows(v)
                     [] op \in {"delete", "unset"} -> Removes(op, v)
                     [] op \in {"put", "remove"} -> "version"
                     [] op = "get" -> "fetch"
                     [] op = "gc" -> "expired"
                     [] op \in {"scan", "take"} -> "page"
           row == IF op \in Writers THEN BuildWriteRow(v, arg) ELSE <<>>
           place == IF op \in {"gc", "scan", "take"} THEN 0 ELSE k
<1>1. PICK cl : cl = [Idle EXCEPT !.op = op, !.view = v, !.key = place, !.row = row, !.step = step]
  OBVIOUS
<1>2. call' = [call EXCEPT ![c] = cl]
  BY <1>1 DEF Begin
<1>3. UNCHANGED <<setup, table, txn, clock>> /\ writes' \in 0..MaxWrites
  BY SqlAssumption DEF Begin, Inv
<1>4. setup \in Setup /\ v \in ViewsOf(setup) /\ v \in View
  BY Judgements, SetupTyped DEF Inv
<1>5. op \in Writers => row \in WriteRow /\ Asked(setup, row)
  BY <1>4, BuildsGood DEF Begin
<1>6. /\ cl.op = op /\ cl.view = v /\ cl.key = place /\ cl.row = row /\ cl.step = step
      /\ cl.seen = <<>> /\ cl.keys = {} /\ cl.start = {} /\ cl.out = <<>> /\ cl.raced = {}
      /\ cl.tries = 0 /\ cl.after = 0
      /\ cl = [op |-> op, step |-> step, view |-> v, key |-> place, row |-> row, seen |-> <<>>,
               tries |-> 0, after |-> 0, keys |-> {}, start |-> {}, raced |-> {}, out |-> <<>>]
  BY <1>1 DEF Idle
<1>7. step \in AllSteps \ {"idle"} /\ step \notin Swapping /\ step \notin {"insert_if", "collect", "raised", "answered"}
  BY DEF Ops, WriteRows, Removes, AllSteps, Creating, Deleting, Swapping
<1>8. cl \in CallType
  <2>1. place \in Nat /\ 0 \in 0..(Attempts - 1)
    BY SqlAssumption
  <2>2. row \in WriteRow \cup {<<>>} /\ step \in AllSteps
    BY <1>5, <1>7
  <2>3. <<>> \in Seq(Key)
    OBVIOUS
  <2> HIDE DEF step, row, place
  <2> QED
    BY <1>4, <1>6, <2>1, <2>2, <2>3 DEF CallType
<1>9. /\ step \in {"upsert", "update", "insert", "update_rows"} => op = "set"
      /\ step \in {"delete", "clear"} => op \in {"delete", "unset"}
      /\ step = "version" => op \in {"put", "remove"}
      /\ step = "fetch" => op = "get"
      /\ step = "expired" => op = "gc"
      /\ step = "page" => op \in {"scan", "take"}
  BY DEF Ops, WriteRows, Removes
<1>10. step \in Creating \cup Deleting => Owns(setup, v)
  BY Judgements DEF Ops, WriteRows, Removes, Creating, Deleting, Owns
<1>11. Stands(setup, cl)
  BY <1>4, <1>5, <1>6, <1>7, <1>9, <1>10 DEF Stands, Swapping, Listing, Writers, Readers, Ops
<1>12. Knows(setup, cl, Rows(c), clock)
  <2> HIDE DEF step, row, place
  <2> QED
    BY <1>6, <1>11 DEF Knows, Found, Listed, InOrder
<1> QED
  BY <1>2, <1>3, <1>8, <1>12, ReadsKeep

\* The statements that end a call, and leave rows written, removed, cleared or as they were.
LEMMA StatementInv ==
    ASSUME Inv, NEW c \in Client,
           \/ UpsertRows(c) \/ UpdateRows(c) \/ DeleteRows(c) \/ ClearOwnColumns(c)
           \/ InsertEachIfAbsent(c) \/ ReplaceEachIf(c) \/ DeleteEachIf(c)
    PROVE  Inv'
<1>0. Still /\ ~At(c, "idle")
  BY DEF UpsertRows, UpdateRows, DeleteRows, ClearOwnColumns, InsertEachIfAbsent, ReplaceEachIf,
         DeleteEachIf, At
<1>1. RowsOK(setup, Rows(c)) /\ RowsOK(setup, Without(Rows(c), {call[c].key})) /\ Stands(setup, call[c])
  BY RowsGood, WithoutGood DEF Knows
<1>2. CASE UpsertRows(c)
  <2>1. RowsOK(setup, Written(c))
    BY <1>1, <1>2, WrittenGood DEF UpsertRows, At, Stands, Writers
  <2> QED
    BY <1>0, <1>2, <2>1, EndsWell DEF UpsertRows
<1>3. CASE UpdateRows(c)
  <2>1. RowsOK(setup, IF Has(c) THEN Written(c) ELSE Rows(c))
    BY <1>1, <1>3, WrittenGood DEF UpdateRows, At, Stands, Writers
  <2> QED
    BY <1>0, <1>3, <2>1, EndsWell DEF UpdateRows
<1>4. CASE DeleteRows(c)
  BY <1>0, <1>1, <1>4, EndsWell DEF DeleteRows
<1>5. CASE ClearOwnColumns(c)
  <2>1. RowsOK(setup, IF Has(c) THEN Cleared(c) ELSE Rows(c))
    BY <1>1, ClearedGood
  <2> QED
    BY <1>0, <1>5, <2>1, EndsWell DEF ClearOwnColumns
<1>6. CASE InsertEachIfAbsent(c)
  <2>1. RowsOK(setup, IF Has(c) THEN Rows(c) ELSE Written(c))
    BY <1>1, <1>6, WrittenGood DEF InsertEachIfAbsent, At, Stands, Writers
  <2> QED
    BY <1>0, <1>6, <2>1, EndsWell DEF InsertEachIfAbsent
<1>7. CASE ReplaceEachIf(c)
  <2>1. ~At(c, "clear_if") => call[c].op \in Writers
    BY <1>1, <1>7 DEF ReplaceEachIf, At, Stands, Writers
  <2>2. RowsOK(setup, IF ~Matches(c) THEN Rows(c)
                      ELSE IF At(c, "clear_if") THEN Cleared(c) ELSE Written(c))
    BY <1>1, <2>1, ClearedGood, WrittenGood DEF Matches
  <2> QED
    BY <1>0, <1>7, <2>2, EndsWell DEF ReplaceEachIf
<1>8. CASE DeleteEachIf(c)
  <2>1. RowsOK(setup, IF Matches(c) THEN Without(Rows(c), {call[c].key}) ELSE Rows(c))
    BY <1>1
  <2> QED
    BY <1>0, <1>8, <2>1, EndsWell DEF DeleteEachIf
<1> QED
  BY <1>2, <1>3, <1>4, <1>5, <1>6, <1>7, <1>8

\* A call that reads nothing page by page, and deletes nothing expired, knows nothing.
LEMMA StandsAlone ==
    ASSUME NEW st, NEW cl, Stands(st, cl), cl.op \notin Readers
    PROVE  \A rows, m : Knows(st, cl, rows, m)
  BY DEF Stands, Knows, Found, Listed, InOrder

\* upsert_rows_update_first: the UPDATE.
LEMMA UpdateFirstInv ==
    ASSUME Inv, NEW c \in Client, UpdateFirst(c)
    PROVE  Inv'
<1>0. Still /\ call[c].step = "update" /\ RowsOK(setup, Rows(c)) /\ Stands(setup, call[c])
      /\ call[c] \in CallType /\ call[c].op = "set"
  BY RowsGood DEF UpdateFirst, At, Knows, Stands
<1>1. CASE Has(c)
  BY <1>0, <1>1, WrittenGood, EndsWell DEF UpdateFirst, Writers
<1>2. CASE ~Has(c)
  <2>1. PICK rows : rows = Rows(c)
    OBVIOUS
  <2>2. PICK cl : cl = [call[c] EXCEPT !.step = "insert"]
    OBVIOUS
  <2>3. Writes(c, rows, cl)
    BY <1>2, <2>1, <2>2 DEF UpdateFirst, Writes, Installs
  <2>4. cl \in CallType /\ cl.op = "set" /\ Stands(setup, cl)
    BY <1>0, <2>2 DEF CallType, AllSteps, Creating, Deleting, Swapping, Stands
  <2>5. Knows(setup, cl, rows, clock)
    BY <2>4, StandsAlone DEF Readers
  <2> QED
    BY <1>0, <2>1, <2>3, <2>4, <2>5, WritesKeep
<1> QED
  BY <1>1, <1>2

\* INSERT where no row matched the UPDATE, or another UPDATE.
LEMMA InsertNextInv ==
    ASSUME Inv, NEW c \in Client, InsertNext(c)
    PROVE  Inv'
<1>0. Still /\ call[c].step = "insert" /\ RowsOK(setup, Rows(c)) /\ Stands(setup, call[c])
      /\ call[c] \in CallType /\ call[c].op = "set"
  BY RowsGood DEF InsertNext, At, Knows, Stands
<1>1. CASE ~Has(c)
  BY <1>0, <1>1, WrittenGood, EndsWell DEF InsertNext, Writers
<1>2. CASE Has(c) /\ call[c].tries + 1 = Attempts
  <2>1. Writes(c, Rows(c), Ended(c))
    BY <1>2 DEF InsertNext
  <2> QED
    BY <1>0, <2>1, EndsWell
<1>3. CASE Has(c) /\ call[c].tries + 1 # Attempts
  <2>1. PICK rows : rows = Rows(c)
    OBVIOUS
  <2>2. PICK cl : cl = [call[c] EXCEPT !.step = "update", !.tries = @ + 1]
    OBVIOUS
  <2>3. Writes(c, rows, cl)
    BY <1>3, <2>1, <2>2 DEF InsertNext, Writes, Installs
  <2>4. call[c].tries + 1 \in 0..(Attempts - 1)
    BY <1>0, <1>3, SqlAssumption DEF CallType
  <2>5. cl \in CallType /\ cl.op = "set" /\ Stands(setup, cl)
    BY <1>0, <2>2, <2>4 DEF CallType, AllSteps, Creating, Deleting, Swapping, Stands
  <2>6. Knows(setup, cl, rows, clock)
    BY <2>5, StandsAlone DEF Readers
  <2> QED
    BY <1>0, <2>1, <2>3, <2>5, <2>6, WritesKeep
<1> QED
  BY <1>1, <1>2, <1>3

\* A step after which a call has ended, and that writes nothing.
LEMMA LeavesWell ==
    ASSUME Inv, NEW c \in Client, call' = [call EXCEPT ![c] = Idle],
           UNCHANGED <<setup, table, txn, clock>>, writes' = writes
    PROVE  Inv'
<1>1. PICK cl : cl = Idle
  OBVIOUS
<1>2. cl \in CallType /\ Knows(setup, cl, Rows(c), clock) /\ call' = [call EXCEPT ![c] = cl]
      /\ writes' \in 0..MaxWrites
  BY <1>1, IdleGood DEF Inv
<1> QED
  BY <1>2, ReadsKeep

\* batch_read_versioned.
LEMMA ReadVersionedInv ==
    ASSUME Inv, NEW c \in Client, ReadVersioned(c)
    PROVE  Inv'
<1>0. UNCHANGED <<setup, table, txn, clock>> /\ writes' = writes /\ writes' \in 0..MaxWrites
  BY DEF ReadVersioned, Still, Inv
<1>1. /\ call[c].step = "version" /\ call[c] \in CallType /\ Stands(setup, call[c])
      /\ call[c].op \in {"put", "remove"} /\ RowsOK(setup, Rows(c)) /\ call[c].seen = <<>>
      /\ call \in [Client -> CallType]
  BY RowsGood DEF ReadVersioned, At, Knows, Stands, Swapping, Inv
<1>2. CASE Has(c)
  <2>1. PICK see : see = VersionColumns(call[c].view, Rows(c)[call[c].key])
    OBVIOUS
  <2>2. see \in Version
    <3>1. Rows(c)[call[c].key] \in Row /\ call[c].view \in View
      BY <1>1, <1>2 DEF Has, RowsOK, CallType
    <3> QED
      BY <2>1, <3>1 DEF VersionColumns, Version, Row
  <2>3. see # <<>>
    BY <2>1 DEF VersionColumns
  <2>4. PICK step \in Swapping :
             /\ step = IF call[c].op = "put" THEN "replace_if"
                       ELSE IF DeletesRows(call[c].view) THEN "delete_if" ELSE "clear_if"
    BY DEF Swapping
  <2>5. PICK cl : cl = [call[c] EXCEPT !.seen = see, !.step = step]
    OBVIOUS
  <2>6. call' = [call EXCEPT ![c] = cl]
    BY <1>1, <1>2, <2>1, <2>4, <2>5 DEF ReadVersioned
  <2>7. cl \in CallType
    BY <1>1, <2>2, <2>5 DEF CallType, AllSteps
  <2>8. /\ cl.op = call[c].op /\ cl.step = step /\ cl.view = call[c].view /\ cl.key = call[c].key
        /\ cl.row = call[c].row /\ cl.seen = see /\ cl.keys = call[c].keys
        /\ cl.start = call[c].start /\ cl.out = call[c].out
    BY <1>1, <2>5 DEF CallType
  <2>9. Stands(setup, cl)
    BY <1>1, <2>3, <2>4, <2>8, Judgements DEF Stands, Swapping, Creating, Deleting
  <2>10. Knows(setup, cl, Rows(c), clock)
    BY <1>1, <2>8, <2>9, StandsAlone DEF Readers
  <2> QED
    BY <1>0, <2>6, <2>7, <2>10, ReadsKeep
<1>3. CASE ~Has(c) /\ call[c].op = "put" /\ DeletesRows(call[c].view)
  <2>1. PICK cl : cl = [call[c] EXCEPT !.step = "insert_if"]
    OBVIOUS
  <2>2. call' = [call EXCEPT ![c] = cl]
    BY <1>1, <1>3, <2>1 DEF ReadVersioned
  <2>3. cl \in CallType /\ cl.op = "put" /\ Stands(setup, cl)
    BY <1>1, <1>3, <2>1, Judgements DEF CallType, AllSteps, Creating, Deleting, Swapping, Stands
  <2>4. Knows(setup, cl, Rows(c), clock)
    BY <2>3, StandsAlone DEF Readers
  <2> QED
    BY <1>0, <2>2, <2>3, <2>4, ReadsKeep
<1>4. CASE ~Has(c) /\ ~(call[c].op = "put" /\ DeletesRows(call[c].view))
  BY <1>0, <1>1, <1>4, LeavesWell DEF ReadVersioned, Ended
<1> QED
  BY <1>2, <1>3, <1>4

\* A read that finds its row expired will delete it.
LEMMA FetchInv ==
    ASSUME Inv, NEW c \in Client, Fetch(c)
    PROVE  Inv'
<1>0. UNCHANGED <<setup, table, txn, clock>> /\ writes' = writes /\ writes' \in 0..MaxWrites
  BY DEF Fetch, Still, Inv
<1>1. /\ call[c].step = "fetch" /\ call[c] \in CallType /\ Knows(setup, call[c], Rows(c), clock)
      /\ call[c].op = "get" /\ RowsOK(setup, Rows(c)) /\ call \in [Client -> CallType]
  BY RowsGood DEF Fetch, At, Knows, Stands, Inv
<1>2. CASE Has(c) /\ RowExpired(call[c].view, Rows(c)[call[c].key]) /\ ~setup.hides
  <2>1. PICK cl : cl = [call[c] EXCEPT !.step = "collect", !.keys = {call[c].key}]
    OBVIOUS
  <2>2. call' = [call EXCEPT ![c] = cl]
    BY <1>1, <1>2, <2>1 DEF Fetch
  <2>3. cl \in CallType
    BY <1>1, <1>2, <2>1 DEF CallType, AllSteps, Has, RowsOK
  <2>4. /\ cl.op = "get" /\ cl.step = "collect" /\ cl.view = call[c].view /\ cl.key = call[c].key
        /\ cl.row = call[c].row /\ cl.seen = call[c].seen /\ cl.keys = {call[c].key}
        /\ cl.start = call[c].start /\ cl.out = call[c].out /\ cl.after = call[c].after
        /\ cl.raced = call[c].raced
    BY <1>1, <2>1 DEF CallType
  <2>5. Stands(setup, cl)
    BY <1>1, <2>4 DEF Knows, Stands, Swapping, Creating, Deleting, Readers, Writers, Listing
  <2>6. Found(setup, cl, Rows(c), clock)
    BY <1>2, <2>4, Judgements DEF Found
  <2>7. Listed(setup, cl, Rows(c), clock)
    BY <1>1, <2>4 DEF Knows, Listed
  <2>8. Knows(setup, cl, Rows(c), clock)
    BY <1>1, <2>4, <2>5, <2>6, <2>7 DEF Knows
  <2> QED
    BY <1>0, <2>2, <2>3, <2>8, ReadsKeep
<1>3. CASE ~(Has(c) /\ RowExpired(call[c].view, Rows(c)[call[c].key]) /\ ~setup.hides)
  BY <1>0, <1>1, <1>3, LeavesWell DEF Fetch, Ended
<1> QED
  BY <1>2, <1>3

\* delete_by_keys, one row.
LEMMA CollectInv ==
    ASSUME Inv, NEW c \in Client, Collect(c)
    PROVE  Inv'
<1>0. Still
  BY DEF Collect
<1>1. /\ call[c].step = "collect" /\ call[c] \in CallType /\ Knows(setup, call[c], Rows(c), clock)
      /\ call[c].op \in Readers /\ RowsOK(setup, Rows(c)) /\ setup \in Setup /\ clock \in Nat
  BY RowsGood DEF Collect, At, Knows, Stands
<1> DEFINE left(k) == IF call[c].keys \ {k} # {} THEN [call[c] EXCEPT !.keys = call[c].keys \ {k}]
                      ELSE IF call[c].op \in {"scan", "take"}
                      THEN [call[c] EXCEPT !.keys = {}, !.step = "answered"]
                      ELSE Ended(c)
<1>2. PICK k \in call[c].keys : Writes(c, Without(Rows(c), {k}), left(k))
  BY DEF Collect
<1>3. PICK rows : rows = Without(Rows(c), {k})
  OBVIOUS
<1>4. PICK cl : cl = left(k)
  OBVIOUS
<1>5. Writes(c, rows, cl)
  BY <1>2, <1>3, <1>4 DEF Writes, Installs
<1>6. /\ RowsOK(setup, rows) /\ DOMAIN rows \subseteq DOMAIN Rows(c)
      /\ \A j \in DOMAIN rows : rows[j] = Rows(c)[j]
  BY <1>1, <1>3, WithoutGood DEF Without
<1>7. CASE cl = Idle
  BY <1>0, <1>5, <1>6, <1>7, IdleGood, WritesKeep
<1>8. CASE cl # Idle
  <2>1. \/ cl = [call[c] EXCEPT !.keys = call[c].keys \ {k}]
        \/ cl = [call[c] EXCEPT !.keys = {}, !.step = "answered"] /\ call[c].op \in {"scan", "take"}
    BY <1>4, <1>8 DEF Ended
  <2>2. /\ cl \in CallType
        /\ cl.op = call[c].op /\ cl.view = call[c].view /\ cl.key = call[c].key
        /\ cl.row = call[c].row /\ cl.seen = call[c].seen /\ cl.keys \subseteq call[c].keys
        /\ cl.start = call[c].start /\ cl.out = call[c].out /\ cl.after = call[c].after
        /\ cl.raced = call[c].raced
        /\ \/ cl.step = "collect"
           \/ cl.step = "answered" /\ cl.op \in {"scan", "take"}
    <3>1. CASE cl = [call[c] EXCEPT !.keys = call[c].keys \ {k}]
      BY <1>1, <3>1 DEF CallType
    <3>2. CASE cl = [call[c] EXCEPT !.keys = {}, !.step = "answered"] /\ call[c].op \in {"scan", "take"}
      BY <1>1, <3>2 DEF CallType, AllSteps
    <3> QED
      BY <2>1, <3>1, <3>2
  <2>3. Stands(setup, cl)
    BY <1>1, <2>2 DEF Knows, Stands, Swapping, Creating, Deleting, Readers, Writers
  <2>4. Knows(setup, cl, Rows(c), clock)
    BY <1>1, <2>2, <2>3 DEF Knows, Found, Listed
  <2>5. Knows(setup, cl, rows, clock)
    BY <1>1, <1>6, <2>2, <2>4, KnownOfFewer
  <2> QED
    BY <1>0, <1>5, <1>6, <2>2, <2>5, WritesKeep
<1> QED
  BY <1>7, <1>8

\* What SQL finds expired is expired; and it judges life as Python does.
LEMMA SqlAgrees ==
    ASSUME Inv, NEW v \in View, NEW row \in Row
    PROVE  /\ SqlExpired(v, row) => RowExpired(v, row)
           /\ (setup.binding = "late" \/ row.expires # Null) /\ RowExpired(v, row) => SqlExpired(v, row)
           /\ SqlLive(v, row) <=> Alive(v, row)
<1>1. /\ row.updated \in Nat /\ row.expires \in Nat \cup {Null, Never} /\ setup.ttl[v] \in Moment
      /\ clock \in Nat /\ setup.binding \in {"late", "early"}
  BY SetupTyped, SqlAssumption DEF Inv, Row
<1>2. CASE row.expires = Null
  <2>1. CASE setup.ttl[v] = Never
    BY <1>1, <1>2, <2>1, SqlAssumption
       DEF SqlExpired, RowExpired, Passed, DeathTime, Plus, SqlLive, Alive, Holds, Moment
  <2>2. CASE setup.ttl[v] \in Nat
    BY <1>1, <1>2, <2>2, SqlAssumption
       DEF SqlExpired, RowExpired, Passed, DeathTime, Plus, SqlLive, Alive, Holds
  <2> QED
    BY <1>1, <2>1, <2>2 DEF Moment
<1>3. CASE row.expires \in Nat
  BY <1>1, <1>3, SqlAssumption DEF SqlExpired, RowExpired, Passed, DeathTime, SqlLive, Alive, Holds
<1>4. CASE row.expires = Never
  BY <1>1, <1>4, SqlAssumption DEF SqlExpired, RowExpired, Passed, DeathTime, SqlLive, Alive, Holds
<1> QED
  BY <1>1, <1>2, <1>3, <1>4

\* gc finds expired rows.
LEMMA ExpiredRowsInv ==
    ASSUME Inv, NEW c \in Client, ExpiredRows(c)
    PROVE  Inv'
<1> DEFINE v == call[c].view
           dead == {k \in DOMAIN Rows(c) : SqlExpired(v, Rows(c)[k])}
<1>0. UNCHANGED <<setup, table, txn, clock>> /\ writes' = writes /\ writes' \in 0..MaxWrites
  BY DEF ExpiredRows, Inv
<1>1. /\ call[c].step = "expired" /\ call[c] \in CallType /\ Knows(setup, call[c], Rows(c), clock)
      /\ call[c].op = "gc" /\ RowsOK(setup, Rows(c)) /\ call \in [Client -> CallType]
  BY RowsGood DEF ExpiredRows, At, Knows, Stands, Inv
<1>2. PICK found \in SUBSET dead :
        call' = [call EXCEPT ![c] =
                   IF Unsafe(c) THEN [@ EXCEPT !.step = "raised"]
                   ELSE IF found = {} THEN Ended(c)
                   ELSE [@ EXCEPT !.step = "collect", !.keys = found]]
  BY DEF ExpiredRows
<1>3. CASE ~Unsafe(c) /\ found = {}
  BY <1>0, <1>1, <1>2, <1>3, LeavesWell DEF Ended
<1>4. CASE Unsafe(c) \/ found # {}
  <2>1. PICK cl : cl = IF Unsafe(c) THEN [call[c] EXCEPT !.step = "raised"]
                       ELSE [call[c] EXCEPT !.step = "collect", !.keys = found]
    OBVIOUS
  <2>2. call' = [call EXCEPT ![c] = cl]
    BY <1>1, <1>2, <1>4, <2>1
  <2>3. cl \in CallType
    BY <1>1, <2>1 DEF CallType, AllSteps, RowsOK
  <2>4. /\ cl.op = "gc" /\ cl.view = call[c].view /\ cl.key = call[c].key
        /\ cl.row = call[c].row /\ cl.seen = call[c].seen
        /\ cl.start = call[c].start /\ cl.out = call[c].out /\ cl.after = call[c].after
        /\ cl.raced = call[c].raced /\ cl.step \in {"raised", "collect"}
        /\ cl.keys = call[c].keys \/ cl.keys = found
    BY <1>1, <2>1 DEF CallType
  <2>5. Stands(setup, cl)
    BY <1>1, <2>4 DEF Knows, Stands, Swapping, Creating, Deleting, Readers, Writers, Listing
  <2>6. ASSUME NEW k \in found PROVE Over(Death(setup, v, Rows(c)[k]), clock)
    <3>1. Rows(c)[k] \in Row /\ SqlExpired(v, Rows(c)[k]) /\ v \in View
      BY <1>1 DEF RowsOK, CallType
    <3> QED
      BY <3>1, SqlAgrees, Judgements
  <2>7. Found(setup, cl, Rows(c), clock)
    BY <1>1, <2>4, <2>6 DEF Knows, Found
  <2>8. Listed(setup, cl, Rows(c), clock)
    BY <1>1, <2>4 DEF Knows, Listed
  <2>9. Knows(setup, cl, Rows(c), clock)
    BY <1>1, <2>4, <2>5, <2>7, <2>8 DEF Knows
  <2> QED
    BY <1>0, <2>2, <2>3, <2>9, ReadsKeep
<1> QED
  BY <1>3, <1>4

\* The end of a call, and a write that is refused.
LEMMA ReturnInv ==
    ASSUME Inv, NEW c \in Client, Return(c) \/ Refuse(c)
    PROVE  Inv'
<1>1. UNCHANGED <<setup, table, txn, clock>> /\ writes' = writes /\ call' = [call EXCEPT ![c] = Idle]
  BY DEF Return, Refuse, Still, Ended
<1> QED
  BY <1>1, LeavesWell

\* Time.
LEMMA TickInv == Inv /\ Tick => Inv'
<1> SUFFICES ASSUME Inv, Tick PROVE Inv'
  OBVIOUS
<1>1. UNCHANGED <<setup, table, txn, writes, call>> /\ clock \in Nat /\ clock' \in 0..MaxTime
      /\ clock' >= clock /\ clock' \in Nat
  BY SqlAssumption DEF Tick, Inv
<1>2. ASSUME NEW c \in Client PROVE Rows(c)' = Rows(c) /\ Knows(setup, call[c], Rows(c), clock')
  <2>1. Rows(c)' = Rows(c)
    BY <1>1 DEF Rows
  <2> QED
    BY <1>1, <2>1, RowsGood, KnownLater
<1> QED
  BY <1>1, <1>2 DEF Inv

\* The caller opens a transaction.
LEMMA OpenInv ==
    ASSUME Inv, NEW c \in Client, Open(c)
    PROVE  Inv'
<1>1. /\ UNCHANGED <<setup, table, clock, writes, call>> /\ txn' = [holder |-> c, rows |-> table]
      /\ txn.holder = Nobody /\ setup.connection[c] = "caller" /\ c # Nobody
  BY SqlAssumption DEF Open, Still
<1>2. txn'.holder = c /\ txn'.rows = table
  BY <1>1
<1>3. \A d \in Client : Rows(d)' = Rows(d)
  BY <1>1, <1>2, SqlAssumption DEF Rows
<1>4. \A d \in Client : Knows(setup', call'[d], Rows(d)', clock')
  BY <1>1, <1>3 DEF Inv
<1> QED
  BY <1>1, <1>2, <1>4 DEF Inv

\* The commit installs what the transaction made; the others' reads are raced.
LEMMA CommitInv ==
    ASSUME Inv, NEW c \in Client, Commit(c)
    PROVE  Inv'
<1>1. /\ UNCHANGED <<setup, clock, writes>> /\ txn.holder = c /\ table' = txn.rows
      /\ txn' = [holder |-> Nobody, rows |-> <<>>] /\ c # Nobody
      /\ call' = [d \in Client |-> IF d = c THEN call[c] ELSE Raced(call[d], table, table')]
  BY SqlAssumption DEF Commit, Still, Installs, NoTxn, Raced
<1>2. txn'.holder = Nobody /\ txn'.rows = <<>> /\ RowsOK(setup', <<>>) /\ RowsOK(setup', table')
  BY <1>1 DEF RowsOK, Inv
<1>3. ASSUME NEW d \in Client
      PROVE  call'[d] \in CallType /\ Knows(setup', call'[d], Rows(d)', clock')
  <2>1. Rows(d)' = table'
    BY <1>1, <1>2, SqlAssumption DEF Rows
  <2>2. CASE d = c
    BY <1>1, <2>1, <2>2 DEF Inv, Rows
  <2>3. CASE d # c
    <3>1. Rows(d) = table /\ call'[d] = Raced(call[d], table, table')
      BY <1>1, <2>3 DEF Rows
    <3>2. setup \in Setup /\ call[d] \in CallType /\ clock \in Nat /\ RowsOK(setup, table)
          /\ Knows(setup, call[d], table, clock)
      BY <3>1, SqlAssumption DEF Inv
    <3> QED
      BY <1>1, <1>2, <2>1, <3>1, <3>2, StaysKnown
  <2> QED
    BY <2>2, <2>3
<1>4. call' \in [Client -> CallType]
  BY <1>1, <1>3
<1> QED
  BY <1>1, <1>2, <1>3, <1>4 DEF Inv

\* A rollback leaves the committed rows, and the caller is in no call.
LEMMA RollbackInv ==
    ASSUME Inv, NEW c \in Client, Rollback(c)
    PROVE  Inv'
<1>1. /\ UNCHANGED <<setup, table, clock, writes, call>> /\ txn.holder = c
      /\ txn' = [holder |-> Nobody, rows |-> <<>>] /\ c # Nobody /\ call[c].step = "idle"
  BY SqlAssumption DEF Rollback, Still, NoTxn, At
<1>2. txn'.holder = Nobody /\ txn'.rows = <<>> /\ RowsOK(setup', <<>>)
  BY <1>1 DEF RowsOK
<1>3. ASSUME NEW d \in Client PROVE Knows(setup', call'[d], Rows(d)', clock')
  <2>1. CASE d = c
    <3>1. Stands(setup, call[c]) /\ call[c].op \notin Readers
      BY <1>1, RowsGood DEF Knows, Stands, Readers
    <3> QED
      BY <1>1, <2>1, <3>1, StandsAlone
  <2>2. CASE d # c
    <3>1. Rows(d)' = Rows(d)
      BY <1>1, <1>2, <2>2, SqlAssumption DEF Rows
    <3> QED
      BY <1>1, <3>1 DEF Inv
  <2> QED
    BY <2>1, <2>2
<1> QED
  BY <1>1, <1>2, <1>3 DEF Inv

-----------------------------------------------------------------------------
(***************************************************************************)
(* A page of a scan.                                                       *)
(***************************************************************************)

\* Keys are numbers from 1, and a page has room for a row.
LEMMA Sizes == Key \subseteq Nat /\ 0 \notin Key /\ PageSize \in Nat /\ PageSize # 0
  BY SqlAssumption

\* The members of a set in order are a sequence.
LEMMA AscendingIs ==
    ASSUME NEW S, NEW s \in Ascending(S)
    PROVE  /\ s \in Seq(S) /\ DOMAIN s = 1..Len(s) /\ ToSet(s) = {s[i] : i \in 1..Len(s)}
           /\ \A i, j \in 1..Len(s) : i < j => s[i] < s[j]
<1>1. PICK n \in 0..PageSize : s \in [1..n -> S]
  BY DEF Ascending
<1>2. s \in Seq(S) /\ Len(s) = n
  BY <1>1, SqlAssumption
<1> QED
  BY <1>1, <1>2 DEF Ascending, ToSet

\* A page: what lies beyond it is beyond its last row, and only if the page is full.
LEMMA PageIs ==
    ASSUME NEW S, S \subseteq Key, NEW s \in FirstPage(S)
    PROVE  /\ \A k \in ToSet(s) : k \in S /\ k <= s[Len(s)] /\ Len(s) # 0
           /\ \A k \in S \ ToSet(s) : Len(s) = PageSize /\ Len(s) # 0 /\ s[Len(s)] < k
           /\ Len(s) # 0 => s[Len(s)] \in S
<1>1. s \in Ascending(S)
  BY DEF FirstPage
<1>2. /\ s \in Seq(S) /\ DOMAIN s = 1..Len(s) /\ ToSet(s) = {s[i] : i \in 1..Len(s)}
      /\ \A i, j \in 1..Len(s) : i < j => s[i] < s[j]
  BY <1>1, AscendingIs
<1>3. \A i \in 1..Len(s) : s[i] \in S /\ s[i] \in Nat
  <2>1. \A i \in 1..Len(s) : s[i] \in S
    BY <1>2, ElementOfSeq
  <2> QED
    BY <2>1, Sizes
<1>4. Len(s) \in Nat
  BY <1>2
<1>5. \A k \in ToSet(s) : k \in S /\ k <= s[Len(s)] /\ Len(s) # 0
  <2> SUFFICES ASSUME NEW i \in 1..Len(s) PROVE s[i] <= s[Len(s)] /\ Len(s) # 0 /\ s[i] \in S
    BY <1>2
  <2>1. CASE i = Len(s)
    BY <1>3, <1>4, <2>1
  <2>2. CASE i < Len(s)
    BY <1>2, <1>3, <1>4, <2>2
  <2> QED
    BY <1>4, <2>1, <2>2
<1>6. \A k \in S \ ToSet(s) : Len(s) = PageSize /\ Len(s) # 0 /\ s[Len(s)] < k
  <2> SUFFICES ASSUME NEW k \in S \ ToSet(s) PROVE Len(s) = PageSize /\ Len(s) # 0 /\ s[Len(s)] < k
    OBVIOUS
  <2>1. Len(s) = PageSize /\ \A i \in DOMAIN s : s[i] < k
    BY DEF FirstPage
  <2> QED
    BY <1>2, <1>4, <2>1, Sizes
<1>7. Len(s) # 0 => s[Len(s)] \in S
  BY <1>3, <1>4
<1> QED
  BY <1>5, <1>6, <1>7

\* What is listed stays in order when a page's rows are added.
LEMMA OrderGrows ==
    ASSUME NEW out \in Seq(Key), NEW more \in Seq(Key), NEW after \in Nat, NEW last \in Nat,
           InOrder(out, after), after <= last,
           \A i, j \in 1..Len(more) : i < j => more[i] < more[j],
           \A i \in 1..Len(more) : after < more[i] /\ more[i] <= last
    PROVE  InOrder(out \o more, last) /\ ToSet(out \o more) = ToSet(out) \cup ToSet(more)
<1> DEFINE all == out \o more
           n == Len(out)
           l == Len(more)
<1>1. /\ all \in Seq(Key) /\ Len(all) = n + l /\ n \in Nat /\ l \in Nat
      /\ \A i \in 1..n : all[i] = out[i] /\ all[i] \in Nat /\ all[i] <= after
      /\ \A i \in 1..l : all[n + i] = more[i] /\ more[i] \in Nat
  <2>1. all \in Seq(Key) /\ Len(all) = n + l /\ n \in Nat /\ l \in Nat
    OBVIOUS
  <2>5. \A i \in 1..(n + l) : all[i] = IF i <= n THEN out[i] ELSE more[i - n]
    BY ConcatProperties
  <2>6. (\A i \in 1..n : out[i] \in Key) /\ (\A i \in 1..l : more[i] \in Key)
    BY ElementOfSeq
  <2>2. \A i \in 1..n : all[i] = out[i] /\ out[i] \in Nat
    <3> HIDE DEF all, n, l
    <3> SUFFICES ASSUME NEW i \in 1..n PROVE all[i] = out[i] /\ out[i] \in Nat
      OBVIOUS
    <3>1. i \in 1..(n + l) /\ i <= n
      BY <2>1
    <3> QED
      BY <2>5, <2>6, <3>1, Sizes
  <2>3. \A i \in 1..n : out[i] <= after
    BY DEF InOrder
  <2>4. \A i \in 1..l : all[n + i] = more[i] /\ more[i] \in Nat
    <3> HIDE DEF all, n, l
    <3> SUFFICES ASSUME NEW i \in 1..l PROVE all[n + i] = more[i] /\ more[i] \in Nat
      OBVIOUS
    <3>1. n + i \in 1..(n + l) /\ ~(n + i <= n) /\ (n + i) - n = i
      BY <2>1
    <3> QED
      BY <2>5, <2>6, <3>1, Sizes
  <2> HIDE DEF all, n, l
  <2> QED
    BY <2>1, <2>2, <2>3, <2>4
<1>2. \A i \in 1..Len(all) : i \in 1..n \/ (i - n \in 1..l /\ all[i] = more[i - n])
  BY <1>1
<1>3. \A i \in 1..Len(all) : all[i] \in Nat /\ all[i] <= last
  <2> SUFFICES ASSUME NEW i \in 1..Len(all) PROVE all[i] \in Nat /\ all[i] <= last
    OBVIOUS
  <2>1. CASE i \in 1..n
    <3>1. all[i] \in Nat /\ all[i] <= after
      BY <1>1, <2>1
    <3> HIDE DEF all
    <3> QED
      BY <3>1
  <2>2. CASE i - n \in 1..l /\ all[i] = more[i - n]
    BY <1>1, <2>2
  <2> QED
    BY <1>2, <2>1, <2>2
<1>4. ASSUME NEW i \in 1..Len(all), NEW j \in 1..Len(all), i < j
      PROVE  all[i] < all[j]
  <2>1. CASE i \in 1..n /\ j \in 1..n
    BY <1>1, <1>4, <2>1 DEF InOrder
  <2>2. CASE i \in 1..n /\ j \notin 1..n
    <3>1. all[i] \in Nat /\ all[i] <= after /\ j - n \in 1..l /\ all[j] = more[j - n] /\ all[j] \in Nat
      BY <1>1, <1>2, <1>3, <2>2
    <3>2. after < all[j]
      BY <3>1
    <3> HIDE DEF all
    <3> QED
      BY <3>1, <3>2
  <2>3. CASE i \notin 1..n
    <3>1. i - n \in 1..l /\ j - n \in 1..l /\ i - n < j - n
      BY <1>1, <1>2, <1>4, <2>3
    <3> QED
      BY <1>1, <1>2, <1>4, <2>3, <3>1
  <2> QED
    BY <2>1, <2>2, <2>3
<1>5. ToSet(all) = ToSet(out) \cup ToSet(more)
  <2>1. ToSet(all) = {all[i] : i \in 1..(n + l)} /\ ToSet(out) = {out[i] : i \in 1..n}
        /\ ToSet(more) = {more[i] : i \in 1..l}
    <3>1. DOMAIN all = 1..(n + l) /\ DOMAIN out = 1..n /\ DOMAIN more = 1..l
      BY <1>1
    <3> HIDE DEF all, n, l
    <3> QED
      BY <3>1 DEF ToSet
  <2>2. \A i \in 1..n : i \in 1..(n + l)
    BY <1>1
  <2>3. \A i \in 1..l : n + i \in 1..(n + l)
    BY <1>1
  <2> QED
    BY <1>1, <1>2, <2>1, <2>2, <2>3
<1> QED
  BY <1>3, <1>4, <1>5 DEF InOrder

\* A page is read: what it holds alive is listed, what it holds expired will be deleted,
\* and what lies beyond is beyond the new cursor.
LEMMA PageInv ==
    ASSUME Inv, NEW c \in Client, IterKeysetRows(c)
    PROVE  Inv'
<1> DEFINE v == call[c].view
           after == call[c].after
           rows == Rows(c)
           beyond == {k \in DOMAIN rows : k > after}
<1>0. UNCHANGED <<setup, table, txn, clock>> /\ writes' = writes /\ writes' \in 0..MaxWrites
  BY DEF IterKeysetRows, Still, Inv
<1>1. /\ call[c].step = "page" /\ call[c] \in CallType /\ Knows(setup, call[c], rows, clock)
      /\ call[c].op \in {"scan", "take"} /\ RowsOK(setup, rows) /\ after \in Nat /\ v \in View
      /\ call[c].out \in Seq(Key) /\ call[c].keys \subseteq Key /\ call[c].start \subseteq Key
  BY RowsGood DEF IterKeysetRows, At, Knows, Stands, CallType
<1>2. PICK page \in FirstPage(beyond) : \E live \in Ascending(AlivePart(c, page)) :
         /\ ToSet(live) = AlivePart(c, page)
         /\ call' = [call EXCEPT ![c] = Scanned(c, page, live)]
  BY DEF IterKeysetRows, Page
<1>3. PICK live \in Ascending(AlivePart(c, page)) :
         /\ ToSet(live) = AlivePart(c, page)
         /\ call' = [call EXCEPT ![c] = Scanned(c, page, live)]
  BY <1>2
<1>4. PICK cl : cl = Scanned(c, page, live)
  OBVIOUS
<1>5. call' = [call EXCEPT ![c] = cl]
  BY <1>3, <1>4
<1> DEFINE taken == call[c].op = "take" /\ live # <<>>
           more == IF taken THEN <<Head(live)>> ELSE live
           met == IF taken THEN {k \in ToSet(page) : k <= Head(live)} ELSE ToSet(page)
           dead == IF setup.hides THEN {} ELSE {k \in met : RowExpired(v, rows[k])}
           keys == call[c].keys \cup dead
           start == IF after # 0 THEN call[c].start ELSE {k \in DOMAIN rows : Alive(v, rows[k])}
           last == IF page = <<>> THEN after ELSE Last(page)
           step == IF Len(page) = PageSize /\ ~taken THEN "page"
                   ELSE IF keys # {} THEN "collect" ELSE "answered"
<1>6. /\ cl = [call[c] EXCEPT !.keys = keys, !.start = start, !.out = call[c].out \o more,
                              !.after = last, !.step = step]
  BY <1>4 DEF Scanned
<1>7. /\ cl.op = call[c].op /\ cl.view = v /\ cl.key = call[c].key /\ cl.row = call[c].row
      /\ cl.seen = call[c].seen /\ cl.raced = call[c].raced /\ cl.tries = call[c].tries
      /\ cl.keys = keys /\ cl.start = start /\ cl.out = call[c].out \o more
      /\ cl.after = last /\ cl.step = step
  <2> HIDE DEF keys, start, more, last, step, v
  <2>1. v = call[c].view
    BY DEF v
  <2> QED
    BY <1>1, <1>6, <2>1 DEF CallType
\* The page and its cursor.
<1>8. beyond \subseteq Key /\ beyond \subseteq DOMAIN rows /\ page \in Seq(beyond)
  BY <1>1, AscendingIs DEF RowsOK, FirstPage
<1>9. /\ \A k \in ToSet(page) : k \in beyond /\ k <= last
      /\ \A k \in beyond \ ToSet(page) : Len(page) = PageSize /\ last < k
      /\ last \in Nat /\ after <= last
  <2>1. /\ \A k \in ToSet(page) : k \in beyond /\ k <= page[Len(page)] /\ Len(page) # 0
        /\ \A k \in beyond \ ToSet(page) : Len(page) = PageSize /\ Len(page) # 0 /\ page[Len(page)] < k
        /\ Len(page) # 0 => page[Len(page)] \in beyond
    BY <1>8, PageIs
  <2>2. Len(page) = 0 <=> page = <<>>
    BY <1>8
  <2>3. page # <<>> => last = page[Len(page)]
    BY DEF Last
  <2>4. \A k \in beyond : k \in Nat /\ k > after
    BY <1>8, Sizes
  <2> HIDE DEF beyond
  <2> QED
    BY <1>1, <2>1, <2>2, <2>3, <2>4
\* The rows listed.
<1>10. /\ live \in Seq(Key) /\ \A i, j \in 1..Len(live) : i < j => live[i] < live[j]
       /\ \A i \in 1..Len(live) : live[i] \in ToSet(page)
  <2>1. AlivePart(c, page) \subseteq ToSet(page) /\ ToSet(page) \subseteq Key
    BY <1>8, <1>9 DEF AlivePart
  <2>2. live \in Seq(AlivePart(c, page)) /\ \A i, j \in 1..Len(live) : i < j => live[i] < live[j]
    BY AscendingIs
  <2>3. \A i \in 1..Len(live) : live[i] \in AlivePart(c, page)
    BY <2>2, ElementOfSeq
  <2>4. live \in Seq(Key)
    BY <2>1, <2>2
  <2> QED
    BY <2>1, <2>2, <2>3, <2>4
<1>11. /\ more \in Seq(Key) /\ \A i, j \in 1..Len(more) : i < j => more[i] < more[j]
       /\ \A i \in 1..Len(more) : more[i] \in ToSet(page)
  <2>1. CASE taken
    <3>1. Len(live) # 0 /\ Len(live) \in Nat /\ Head(live) = live[1]
      BY <1>10, <2>1
    <3>2. more = <<live[1]>>
      BY <2>1, <3>1
    <3>3. 1 \in 1..Len(live)
      BY <3>1
    <3>4. live[1] \in ToSet(page) /\ live[1] \in Key
      BY <1>10, <3>3, ElementOfSeq
    <3> HIDE DEF more
    <3>5. more \in Seq(Key) /\ Len(more) = 1 /\ more[1] = live[1]
      BY <3>2, <3>4
    <3> QED
      BY <3>4, <3>5
  <2>2. CASE ~taken
    BY <1>10, <2>2
  <2> QED
    BY <2>1, <2>2
<1>12. InOrder(cl.out, cl.after) /\ ToSet(cl.out) = ToSet(call[c].out) \cup ToSet(more)
  <2>1. \A i \in 1..Len(more) : after < more[i] /\ more[i] <= last
    BY <1>9, <1>11
  <2>2. InOrder(call[c].out, after)
    BY <1>1 DEF Knows
  <2> HIDE DEF more, last, after
  <2> QED
    BY <1>1, <1>7, <1>9, <1>11, <2>1, <2>2, OrderGrows
<1>13. keys \subseteq Key /\ start \subseteq Key /\ step \in {"page", "collect", "answered"}
       /\ call[c].out \o more \in Seq(Key)
  <2>1. met \subseteq Key
    BY <1>8, <1>9
  <2>2. keys \subseteq Key /\ start \subseteq Key
    BY <1>1, <2>1 DEF RowsOK
  <2>3. call[c].out \o more \in Seq(Key)
    <3> HIDE DEF more
    <3> QED
      BY <1>1, <1>11
  <2> QED
    BY <2>2, <2>3
<1>14. cl \in CallType
  <2> HIDE DEF keys, start, more, last, step
  <2> QED
    BY <1>1, <1>6, <1>9, <1>13 DEF CallType, AllSteps
<1>15. Stands(setup, cl)
  <2> HIDE DEF keys, start, more, last, step
  <2> QED
    BY <1>1, <1>7, <1>13 DEF Knows, Stands, Swapping, Creating, Deleting, Readers, Writers, Listing
<1>16. Found(setup, cl, rows, clock)
  <2>1. \A k \in dead : Over(Death(setup, v, rows[k]), clock)
    BY Judgements
  <2>2. \A k \in (call[c].keys \cap DOMAIN rows) \ call[c].raced : Over(Death(setup, v, rows[k]), clock)
    BY <1>1 DEF Knows, Found
  <2> HIDE DEF dead, rows
  <2> QED
    BY <1>7, <2>1, <2>2 DEF Found
<1>17. Listed(setup, cl, rows, clock)
  <2> SUFFICES ASSUME NEW k \in (start \cap DOMAIN rows) \ call[c].raced
               PROVE  /\ Keeps(setup, v, rows[k])
                      /\ call[c].op = "scan" =>
                           \/ k \in ToSet(cl.out) \/ Over(Death(setup, v, rows[k]), clock)
                           \/ step = "page" /\ k > last
    <3> HIDE DEF keys, start, more, last, step, rows
    <3> QED
      BY <1>7 DEF Listed
  <2>1. Keeps(setup, v, rows[k])
    <3>1. CASE after = 0
      BY <3>1, Judgements DEF Alive
    <3>2. CASE after # 0
      BY <1>1, <3>2 DEF Knows, Listed
    <3> QED
      BY <3>1, <3>2
  <2>2. ASSUME call[c].op = "scan"
        PROVE  \/ k \in ToSet(cl.out) \/ Over(Death(setup, v, rows[k]), clock)
               \/ step = "page" /\ k > last
    <3>0. ~taken /\ more = live /\ k \in Nat /\ k # 0
      BY <1>13, <2>2, Sizes
    <3>1. CASE k \in ToSet(page)
      <4>1. CASE Alive(v, rows[k])
        <5>1. k \in ToSet(live)
          BY <1>3, <3>1, <4>1 DEF AlivePart
        <5> QED
          BY <1>12, <3>0, <5>1
      <4>2. CASE ~Alive(v, rows[k])
        BY <2>1, <4>2, Judgements DEF Alive
      <4> QED
        BY <4>1, <4>2
    <3>2. CASE k \in beyond \ ToSet(page)
      <4>1. Len(page) = PageSize /\ last < k
        BY <1>9, <3>2
      <4>2. step = "page"
        BY <3>0, <4>1
      <4> HIDE DEF step, last
      <4> QED
        BY <1>9, <3>0, <4>1, <4>2
    <3>3. CASE k \notin beyond
      <4>1. ~(k > after) /\ after # 0
        BY <1>1, <3>0, <3>3
      <4>2. k \in (call[c].start \cap DOMAIN rows) \ call[c].raced
        BY <4>1
      <4>3. k \in ToSet(call[c].out) \/ Over(Death(setup, v, rows[k]), clock)
        BY <1>1, <2>2, <4>1, <4>2 DEF Knows, Listed
      <4> QED
        BY <1>12, <4>3
    <3> QED
      BY <3>1, <3>2, <3>3
  <2> QED
    BY <2>1, <2>2
<1>18. Knows(setup, cl, Rows(c), clock)
  BY <1>12, <1>15, <1>16, <1>17 DEF Knows
<1> HIDE DEF v, after, rows, beyond, taken, more, met, dead, keys, start, last, step
<1> QED
  BY <1>0, <1>5, <1>14, <1>18, ReadsKeep

-----------------------------------------------------------------------------
(***************************************************************************)
(* The theorems.                                                           *)
(***************************************************************************)

\* Every step keeps the invariant.
LEMMA NextInv == Inv /\ [Next]_vars => Inv'
<1> SUFFICES ASSUME Inv, [Next]_vars PROVE Inv'
  OBVIOUS
<1>1. CASE Tick
  BY <1>1, TickInv
<1>2. ASSUME NEW c \in Client, Step(c) PROVE Inv'
  <2>1. CASE Return(c) \/ Refuse(c)
    BY <2>1, ReturnInv
  <2>2. CASE Open(c) \/ Commit(c) \/ Rollback(c)
    BY <2>2, OpenInv, CommitInv, RollbackInv
  <2>3. CASE \/ UpsertRows(c) \/ UpdateRows(c) \/ DeleteRows(c) \/ ClearOwnColumns(c)
             \/ InsertEachIfAbsent(c) \/ ReplaceEachIf(c) \/ DeleteEachIf(c)
    BY <2>3, StatementInv
  <2>4. CASE UpdateFirst(c) \/ InsertNext(c)
    BY <2>4, UpdateFirstInv, InsertNextInv
  <2>5. CASE ReadVersioned(c) \/ Fetch(c)
    BY <2>5, ReadVersionedInv, FetchInv
  <2>6. CASE Collect(c) \/ ExpiredRows(c) \/ IterKeysetRows(c)
    BY <2>6, CollectInv, ExpiredRowsInv, PageInv
  <2> QED
    BY <1>2, <2>1, <2>2, <2>3, <2>4, <2>5, <2>6 DEF Step
<1>3. ASSUME NEW c \in Client, NEW v \in Views, NEW k \in Key, NEW arg \in WriteArg,
             NEW op \in Op[c], Begin(c, op, v, k, arg)
      PROVE  Inv'
  <2>1. op \in Ops
    BY SqlAssumption
  <2> QED
    BY <1>3, <2>1, BeginInv
<1>4. CASE UNCHANGED vars
  <2>1. \A c \in Client : Rows(c)' = Rows(c)
    BY <1>4 DEF vars, Rows
  <2> QED
    BY <1>4, <2>1 DEF vars, Inv
<1> QED
  BY <1>1, <1>2, <1>3, <1>4 DEF Next

\* The inductive invariant of the SQL backend (store.py on sqlite.py): what each call
\* between two of its statements knows, for any clients, views, TTLs and connections.
THEOREM Holding == Spec => []Inv
  BY InitInv, NextInv, PTL DEF Spec

\* JudgedAsAsked, of a state: _row_expired, SqlLiveness and scan_expired.
LEMMA InvJudges ==
    ASSUME Inv, Agree
    PROVE  JudgedAsAsked
<1>1. TypeOK
  <2>1. \A c \in Client : call[c].tries < Attempts /\ call[c].keys \subseteq Key
    BY SqlAssumption DEF Inv, CallType
  <2> QED
    BY <2>1 DEF TypeOK, Inv, RowsOK
<1>2. PushdownAgrees
  <2> SUFFICES ASSUME NEW v \in Views, NEW k \in DOMAIN table
               PROVE  /\ SqlLive(v, table[k]) <=> Alive(v, table[k])
                      /\ setup.binding = "late" \/ table[k].expires # Null =>
                           (SqlExpired(v, table[k]) <=> RowExpired(v, table[k]))
    BY DEF PushdownAgrees
  <2>1. table[k] \in Row /\ v \in View
    BY SetupTyped, Judgements DEF Inv, RowsOK
  <2> QED
    BY <2>1, SqlAgrees
<1>3. ExpiresAsAsked
  <2>1. RowsOK(setup, Latest)
    BY DEF Inv, Latest
  <2> QED
    BY <2>1, Judgements DEF ExpiresAsAsked, RowsOK, Asked
<1> QED
  BY <1>1, <1>2, <1>3 DEF JudgedAsAsked

\* For views that agree on their TTL: a row's one expiry is the one its last writer
\* asked for, whichever view reads it, and Python and SQL judge it alike, whatever was
\* written, cleared, committed or rolled back in between.
THEOREM AlwaysJudgedAsAsked ==
    ASSUME Agree
    PROVE  Spec => []JudgedAsAsked
<1>1. Inv => JudgedAsAsked
  BY InvJudges
<1> QED
  BY <1>1, Holding, PTL

\* ScanListsTheSteady, of a state.
LEMMA InvLists == Inv => ScanListsTheSteady
<1> SUFFICES ASSUME Inv, NEW c \in Client, At(c, "answered")
             PROVE  /\ \A i, j \in 1..Len(call[c].out) : i < j => call[c].out[i] < call[c].out[j]
                    /\ call[c].op = "scan" =>
                         \A k \in call[c].start \ call[c].raced :
                            \/ k \in ToSet(call[c].out) \/ k \notin DOMAIN Rows(c)
                            \/ RowExpired(call[c].view, Rows(c)[k])
  BY DEF ScanListsTheSteady
<1>1. Knows(setup, call[c], Rows(c), clock) /\ call[c].step = "answered"
  BY RowsGood DEF At
<1>2. \A i, j \in 1..Len(call[c].out) : i < j => call[c].out[i] < call[c].out[j]
  BY <1>1 DEF Knows, InOrder
<1>3. ASSUME call[c].op = "scan", NEW k \in call[c].start \ call[c].raced, k \in DOMAIN Rows(c)
      PROVE  k \in ToSet(call[c].out) \/ RowExpired(call[c].view, Rows(c)[k])
  BY <1>1, <1>3, Judgements DEF Knows, Listed
<1> QED
  BY <1>2, <1>3

\* A keyset scan (_iter_keyset_rows) lists in order, and misses no row that was there
\* all the time, for pages of any size and whatever comes and goes around the page.
THEOREM AlwaysListsTheSteady == Spec => []ScanListsTheSteady
  BY InvLists, Holding, PTL

\* What a step of a call may be, if the call moves by it.
LEMMA ActsIs ==
    ASSUME Inv, [Next]_vars, NEW c \in Client, Acts(c)
    PROVE  Step(c) /\ ~At(c, "idle")
<1>0. ~At(c, "idle") /\ (call'[c].step # call[c].step \/ call'[c].keys # call[c].keys)
      /\ call \in [Client -> CallType] /\ setup \in Setup
  BY DEF Acts, Inv
<1>1. CASE Tick \/ UNCHANGED vars
  BY <1>0, <1>1 DEF Tick, vars
<1>2. ASSUME NEW d \in Client, d # c,
             \/ Step(d) \/ \E v \in Views, k \in Key, arg \in WriteArg, op \in Op[d] : Begin(d, op, v, k, arg)
      PROVE  FALSE
  <2>1. ASSUME NEW rows, NEW cl, Writes(d, rows, cl) PROVE FALSE
    <3>1. call'[c] = Raced(call[c], table, table')
      BY <1>2, <2>1, WritesSee
    <3> QED
      BY <1>0, <3>1 DEF Raced, CallType
  <2>2. ASSUME NEW new, NEW cl, Installs(d, new, cl) PROVE FALSE
    <3>1. call'[c] = Raced(call[c], table, new)
      BY <1>2, <2>2 DEF Installs, Raced
    <3> QED
      BY <1>0, <3>1 DEF Raced, CallType
  <2>3. ASSUME NEW cl, call' = [call EXCEPT ![d] = cl] PROVE FALSE
    BY <1>0, <1>2, <2>3
  <2>4. CASE Step(d)
    <3>1. CASE Refuse(d) \/ Return(d) \/ ReadVersioned(d) \/ Fetch(d)
      BY <2>3, <3>1 DEF Refuse, Return, ReadVersioned, Fetch
    <3>2. CASE Open(d) \/ Rollback(d)
      BY <1>0, <3>2 DEF Open, Rollback
    <3>3. CASE Commit(d)
      BY <2>2, <3>3 DEF Commit
    <3>4. CASE ExpiredRows(d) \/ IterKeysetRows(d)
      BY <2>3, <3>4 DEF ExpiredRows, IterKeysetRows
    <3>5. CASE \/ UpsertRows(d) \/ UpdateRows(d) \/ DeleteRows(d) \/ ClearOwnColumns(d)
               \/ InsertEachIfAbsent(d) \/ ReplaceEachIf(d) \/ DeleteEachIf(d)
      BY <2>1, <3>5 DEF UpsertRows, UpdateRows, DeleteRows, ClearOwnColumns, InsertEachIfAbsent,
                        ReplaceEachIf, DeleteEachIf
    <3>6. CASE UpdateFirst(d) \/ InsertNext(d) \/ Collect(d)
      <4>1. \E rows, cl : Writes(d, rows, cl)
        BY <3>6 DEF UpdateFirst, InsertNext, Collect
      <4> QED
        BY <2>1, <4>1
    <3> QED
      BY <2>4, <3>1, <3>2, <3>3, <3>4, <3>5, <3>6 DEF Step
  <2>5. CASE \E v \in Views, k \in Key, arg \in WriteArg, op \in Op[d] : Begin(d, op, v, k, arg)
    <3>1. PICK v \in Views, k \in Key, arg \in WriteArg, op \in Op[d] : Begin(d, op, v, k, arg)
      BY <2>5
    <3>2. \E cl : call' = [call EXCEPT ![d] = cl]
      BY <3>1, Zenon DEF Begin
    <3> QED
      BY <2>3, <3>2
  <2> QED
    BY <1>2, <2>4, <2>5
<1>3. ASSUME \E v \in Views, k \in Key, arg \in WriteArg, op \in Op[c] : Begin(c, op, v, k, arg)
      PROVE  FALSE
  BY <1>0, <1>3 DEF Begin
<1> QED
  BY <1>0, <1>1, <1>2, <1>3 DEF Next

\* What the steps of a call leave of the rows.
LEMMA StepLeaves ==
    ASSUME Inv, NEW c \in Client, Step(c), ~At(c, "idle")
    PROVE  \/ Latest' = Latest
           \/ /\ Latest = Rows(c)
              /\ \/ /\ call[c].op \in Writers /\ Latest' = Written(c)
                    /\ \/ call[c].step \in {"upsert", "update", "insert", "update_rows"}
                       \/ At(c, "insert_if") /\ ~Has(c)
                       \/ At(c, "replace_if") /\ Matches(c)
                    /\ At(c, "update_rows") => Has(c)
                 \/ /\ Latest' = Without(Rows(c), {call[c].key})
                    /\ At(c, "delete") \/ (At(c, "delete_if") /\ Matches(c))
                 \/ /\ Latest' = Cleared(c) /\ Has(c)
                    /\ At(c, "clear") \/ (At(c, "clear_if") /\ Matches(c))
                 \/ /\ At(c, "collect")
                    /\ \E k \in call[c].keys : Latest' = Without(Rows(c), {k})
<1>0. Stands(setup, call[c])
  BY RowsGood DEF Knows
<1>1. ASSUME NEW rows, NEW cl, Writes(c, rows, cl)
      PROVE  Latest = Rows(c) /\ Latest' = rows
  BY <1>1, WritesSee
<1>2. CASE UNCHANGED <<table, txn>>
  BY <1>2 DEF Latest
<1>3. CASE Refuse(c) \/ Return(c) \/ ReadVersioned(c) \/ Fetch(c) \/ ExpiredRows(c) \/ IterKeysetRows(c)
  BY <1>2, <1>3 DEF Refuse, Return, ReadVersioned, Fetch, ExpiredRows, IterKeysetRows
<1>4. CASE UpsertRows(c) \/ UpdateRows(c) \/ UpdateFirst(c) \/ InsertNext(c)
  BY <1>0, <1>1, <1>4 DEF UpsertRows, UpdateRows, UpdateFirst, InsertNext, At, Stands, Writers
<1>5. CASE DeleteRows(c) \/ ClearOwnColumns(c)
  BY <1>1, <1>5 DEF DeleteRows, ClearOwnColumns, At
<1>6. CASE InsertEachIfAbsent(c) \/ DeleteEachIf(c)
  BY <1>0, <1>1, <1>6 DEF InsertEachIfAbsent, DeleteEachIf, At, Stands, Writers
<1>7. CASE ReplaceEachIf(c)
  BY <1>0, <1>1, <1>7 DEF ReplaceEachIf, Matches, At, Stands, Writers
<1>8. CASE Collect(c)
  <2>1. PICK k \in call[c].keys : \E cl : Writes(c, Without(Rows(c), {k}), cl)
    BY <1>8 DEF Collect
  <2>2. Latest = Rows(c) /\ Latest' = Without(Rows(c), {k})
    BY <1>1, <2>1
  <2> QED
    BY <1>8, <2>2 DEF Collect
<1>9. CASE Open(c) \/ Commit(c) \/ Rollback(c)
  BY <1>9 DEF Open, Commit, Rollback
<1> QED
  BY <1>3, <1>4, <1>5, <1>6, <1>7, <1>8, <1>9 DEF Step

\* The rows that a write, and a deletion, leave.
LEMMA WrittenIs ==
    ASSUME Inv, NEW c \in Client, call[c].op \in Writers, Has(c)
    PROVE  /\ DOMAIN Written(c) = DOMAIN Rows(c)
           /\ \A k \in DOMAIN Rows(c), v \in View \ {call[c].view} :
                Written(c)[k].col[v] = Rows(c)[k].col[v]
<1>1. call[c].key \in DOMAIN Rows(c) /\ Rows(c)[call[c].key] \in Row
  BY RowsGood DEF Has, RowsOK
<1>2. PICK row : row = Updated(c, Rows(c)[call[c].key])
  OBVIOUS
<1>3. \A v \in View \ {call[c].view} : row.col[v] = Rows(c)[call[c].key].col[v]
  BY <1>1, <1>2, UpdatedGood
<1>4. Written(c) = [j \in DOMAIN Rows(c) \cup {call[c].key} |-> IF j = call[c].key THEN row ELSE Rows(c)[j]]
  BY <1>2 DEF Written, Put
<1> QED
  BY <1>1, <1>3, <1>4

\* No view takes what is not its own: a step of a read, scan or gc that deletes.
LEMMA StepCollects ==
    ASSUME Inv, Agree, [Next]_vars, NEW c \in Client
    PROVE  CollectsTheExpired(c)
<1> SUFFICES ASSUME At(c, "collect"), Acts(c), NEW k \in DOMAIN Latest \ DOMAIN Latest', k \notin call[c].raced
             PROVE  Passed(Latest[k].due)
  BY DEF CollectsTheExpired
<1>1. Step(c) /\ ~At(c, "idle")
  BY ActsIs
<1>2. /\ Latest = Rows(c)
      /\ \E j \in call[c].keys : Latest' = Without(Rows(c), {j})
  BY <1>1, StepLeaves DEF At
<1>3. k \in call[c].keys /\ k \in DOMAIN Rows(c)
  BY <1>2 DEF Without
<1>4. Over(Death(setup, call[c].view, Rows(c)[k]), clock)
  BY <1>3, RowsGood DEF Knows, Found
<1>5. Death(setup, call[c].view, Rows(c)[k]) = Rows(c)[k].due
  BY <1>3, RowsGood DEF RowsOK, Asked, Knows, Stands
<1> QED
  BY <1>2, <1>4, <1>5 DEF Over, Passed

\* And a step of a view that does not own the rows.
LEMMA StepOfSibling ==
    ASSUME Inv, [Next]_vars, NEW c \in Client
    PROVE  SiblingsKeepTheirs(c)
<1> SUFFICES ASSUME Acts(c), ~At(c, "collect"), setup.shares, call[c].view # setup.owner
             PROVE  /\ DOMAIN Latest' = DOMAIN Latest
                    /\ \A k \in DOMAIN Latest, v \in View \ {call[c].view} :
                         Latest'[k].col[v] = Latest[k].col[v]
  BY DEF SiblingsKeepTheirs
<1>1. Step(c) /\ ~At(c, "idle")
  BY ActsIs
<1>2. call[c].step \notin Creating \cup Deleting
  BY RowsGood DEF Knows, Stands, Owns
<1>3. \/ Latest' = Latest
      \/ Latest = Rows(c) /\ Latest' = Written(c) /\ call[c].op \in Writers /\ Has(c)
      \/ Latest = Rows(c) /\ Latest' = Cleared(c) /\ Has(c)
  BY <1>1, <1>2, StepLeaves DEF At, Creating, Deleting, Matches
<1> QED
  BY <1>3, WrittenIs, ClearedGood

\* For views that agree on their TTL: reads, scans and gc (_live_row, _iter_keyset_rows,
\* gc_expired_keys) delete of their own accord only rows that have run out or were
\* written meanwhile, and a view that does not own the rows brings and takes none and
\* leaves the others' columns, whatever races the owner.
THEOREM AlwaysTakesOnlyItsOwn ==
    ASSUME Agree
    PROVE  Spec => TakesOnlyItsOwn
<1>1. Inv /\ [Next]_vars => [\A c \in Client : CollectsTheExpired(c) /\ SiblingsKeepTheirs(c)]_vars
  BY StepCollects, StepOfSibling
<1> QED
  BY <1>1, Holding, PTL DEF Spec, TakesOnlyItsOwn

\* A sibling view keeps to its own columns whether or not the views agree on their TTL
\* (schema.py, owns_rows).
THEOREM SiblingsAlwaysKeepTheirs == Spec => [][\A c \in Client : SiblingsKeepTheirs(c)]_vars
<1>1. Inv /\ [Next]_vars => [\A c \in Client : SiblingsKeepTheirs(c)]_vars
  BY StepOfSibling
<1> QED
  BY <1>1, Holding, PTL DEF Spec

\* The conditional statements (insert_each_if_absent, replace_each_if, delete_each_if)
\* change a row only if it still has the view's columns that update read, or is still
\* absent if it read none.
THEOREM UpdateAlwaysReplacesWhatItSaw == Spec => UpdateReplacesWhatItSaw
<1> DEFINE A(c) == Acts(c) /\ call[c].op \in {"put", "remove"} /\ Latest' # Latest =>
                     LET k == call[c].key
                     IN IF call[c].seen = <<>> THEN k \notin DOMAIN Latest
                        ELSE k \in DOMAIN Latest /\ Latest[k].col[call[c].view] = call[c].seen[1]
<1>1. ASSUME Inv, [Next]_vars, NEW c \in Client PROVE A(c)
  <2> SUFFICES ASSUME Acts(c), call[c].op \in {"put", "remove"}, Latest' # Latest
               PROVE  IF call[c].seen = <<>> THEN call[c].key \notin DOMAIN Latest
                      ELSE /\ call[c].key \in DOMAIN Latest
                           /\ Latest[call[c].key].col[call[c].view] = call[c].seen[1]
    OBVIOUS
  <2>1. Step(c) /\ ~At(c, "idle")
    BY <1>1, ActsIs
  <2>2. Stands(setup, call[c])
    BY <1>1, RowsGood DEF Knows
  <2>3. /\ Latest = Rows(c)
        /\ \/ At(c, "insert_if") /\ ~Has(c)
           \/ call[c].step \in Swapping /\ Matches(c)
    BY <1>1, <2>1, <2>2, StepLeaves DEF At, Stands, Swapping, Readers
  <2>4. CASE At(c, "insert_if") /\ ~Has(c)
    BY <2>2, <2>3, <2>4 DEF At, Has, Stands, Swapping
  <2>5. CASE call[c].step \in Swapping /\ Matches(c)
    BY <2>2, <2>3, <2>5 DEF Stands, Matches, Has, VersionColumns
  <2> QED
    BY <2>3, <2>4, <2>5
<1>2. Inv /\ [Next]_vars => [\A c \in Client : A(c)]_vars
  BY <1>1
<1> QED
  BY <1>2, Holding, PTL DEF Spec, UpdateReplacesWhatItSaw
=============================================================================
