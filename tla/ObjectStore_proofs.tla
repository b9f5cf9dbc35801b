------------------------- MODULE ObjectStore_proofs -------------------------
(***************************************************************************)
(* Theorems about ObjectStore: every medium and source of expiry, with any *)
(* number of clients, keys and contents, any TTL, and any bound.           *)
(***************************************************************************)
EXTENDS ObjectStore, TLAPS

-----------------------------------------------------------------------------
(***************************************************************************)
(* The sources of expiry and the drivers.                                  *)
(***************************************************************************)

\* A collection's setup is a provision the library ships.
LEMMA SetupTypes ==
    ASSUME NEW st \in Setup
    PROVE  /\ st.ttl \in Nat \cup {Never}
           /\ st.medium \in {"s3", "gcs", "azure", "fs"}
           /\ st.source \in {"object_time", "expires", "custom_time", "metadata", "mtime", "sidecar"}
           /\ st.medium = "s3" => st.source \in {"object_time", "expires"}
<1>1. [medium |-> st.medium, source |-> st.source] \in Provisions /\ st.ttl \in Nat \cup {Never}
  BY ObjectAssumption
<1>2. PICK p \in Provisions : p = [medium |-> st.medium, source |-> st.source]
  BY <1>1
<1>3. p.medium = st.medium /\ p.source = st.source
  BY <1>2
<1> QED
  BY <1>1, <1>2, <1>3 DEF Provisions, S3Provisions, GcsProvisions, AzureProvisions, FsProvisions

\* The sources, one by one.
LEMMA Sources ==
    /\ TtlSource["object_time"] = ObjectTimeTtl /\ TtlSource["expires"] = S3ExpiresTtl
    /\ TtlSource["custom_time"] = GcsCustomTimeTtl /\ TtlSource["metadata"] = AzureMetadataTtl
    /\ TtlSource["mtime"] = FilesystemMtimeTtl /\ TtlSource["sidecar"] = FilesystemSidecarTtl
BY DEF TtlSource

\* When a source stores an expiry, and what it can be asked for.
LEMMA SourceFacts ==
    ASSUME NEW s \in {"object_time", "expires", "custom_time", "metadata", "mtime", "sidecar"}
    PROVE  /\ TtlSource[s].stamps = IF s \in {"object_time", "mtime"} THEN "never"
                                    ELSE IF s = "custom_time" THEN "always" ELSE "explicit"
           /\ TtlSource[s].ttl <=> s \notin {"object_time", "mtime"}
           /\ TtlSource[s].clock <=> s # "object_time"
           /\ TtlSource[s].mtime <=> s \in {"mtime", "sidecar"}
           /\ TtlSource[s].head <=> s = "expires"
BY Sources DEF ObjectTimeTtl, S3ExpiresTtl, GcsCustomTimeTtl, AzureMetadataTtl, FilesystemMtimeTtl,
               FilesystemSidecarTtl

\* The drivers, one by one.
LEMMA Drivers ==
    /\ BlobDriver["s3"] = S3BlobDriver /\ BlobDriver["gcs"] = GcsBlobDriver
    /\ BlobDriver["azure"] = AzureBlobDriver /\ BlobDriver["fs"] = FilesystemBlobDriver
BY DEF BlobDriver

\* Only S3's listing leaves the expiry out, and only its version is a digest.
LEMMA DriverFacts ==
    ASSUME NEW m \in {"s3", "gcs", "azure", "fs"}
    PROVE  /\ BlobDriver[m].tells <=> m # "s3"
           /\ BlobDriver[m].digest <=> m = "s3"
           /\ BlobDriver[m].one_read <=> m = "s3"
BY Drivers DEF S3BlobDriver, GcsBlobDriver, AzureBlobDriver, FilesystemBlobDriver

\* A verdict on what is stored.
Dead(st, o, t) == IsExpired(st.source, o, st.ttl, t)

\* The moments of a write are moments.
LEMMA PlusType ==
    ASSUME NEW m \in Nat, NEW d \in Nat \cup {Never}
    PROVE  Plus(m, d) \in Moment /\ Plus(m, d) # Unset /\ (Plus(m, d) = Never <=> d = Never)
BY MarkersAssumption DEF Plus, Moment

\* Every source carries what a write asked for to the medium and back.
LEMMA CarriesExpiry ==
    ASSUME NEW st \in Setup, NEW ttl \in Nat \cup {Unset, Never}, NEW created \in Nat \cup {Unset},
           NEW at \in Nat, NEW t \in Nat, NEW o,
           Honours(st.source, ttl, created), ~ ClockDropped(st.source, ttl, created),
           o.modified = ModifiedAt(st.source, created, at),
           o.native = NativeExpiry(st.source, ttl, st.ttl, ClockBase(created, at))
    PROVE  Dead(st, o, t) <=> /\ AskedExpiry(ttl, st.ttl, created, at) # Never
                              /\ t >= AskedExpiry(ttl, st.ttl, created, at)
<1> DEFINE s == st.source
           base == ClockBase(created, at)
<1>1. /\ st.ttl \in Nat \cup {Never} /\ base \in Nat
      /\ s \in {"object_time", "expires", "custom_time", "metadata", "mtime", "sidecar"}
  BY SetupTypes DEF ClockBase
<1>2. (ttl # Unset => ttl \in Nat \cup {Never}) /\ ResolveTtl(ttl, st.ttl) \in Nat \cup {Never}
  BY <1>1 DEF ResolveTtl
<1>3. AskedExpiry(ttl, st.ttl, created, at) = Plus(base, ResolveTtl(ttl, st.ttl))
  BY DEF AskedExpiry
<1>4. CASE s = "object_time"
  <2>1. ttl = Unset /\ created = Unset /\ TtlSource[s].stamps = "never"
    BY <1>1, <1>4, SourceFacts DEF Honours
  <2>2. o.modified = at /\ base = at /\ ResolveTtl(ttl, st.ttl) = st.ttl
    BY <1>1, <1>4, <2>1, SourceFacts DEF ModifiedAt, ClockBase, ResolveTtl
  <2> QED
    BY <1>1, <1>3, <2>1, <2>2, MarkersAssumption DEF Dead, IsExpired, Plus
<1>5. CASE s = "mtime"
  <2>1. ttl = Unset /\ TtlSource[s].stamps = "never" /\ TtlSource[s].mtime
    BY <1>1, <1>5, SourceFacts DEF Honours
  <2>2. o.modified = base /\ ResolveTtl(ttl, st.ttl) = st.ttl
    BY <2>1 DEF ModifiedAt, ResolveTtl
  <2> QED
    BY <1>1, <1>3, <2>1, <2>2, MarkersAssumption DEF Dead, IsExpired, Plus
<1>6. CASE s = "custom_time"
  <2>1. TtlSource[s].stamps = "always"
    BY <1>1, <1>6, SourceFacts
  <2>2. o.native = IF ttl = Unset /\ st.ttl = Never THEN Unset ELSE Plus(base, ResolveTtl(ttl, st.ttl))
    BY <2>1 DEF NativeExpiry
  <2>3. CASE ttl = Unset /\ st.ttl = Never
    BY <1>3, <2>1, <2>2, <2>3 DEF Dead, IsExpired, Plus, ResolveTtl
  <2>4. CASE ~ (ttl = Unset /\ st.ttl = Never)
    <3>1. o.native = Plus(base, ResolveTtl(ttl, st.ttl)) /\ o.native # Unset
      BY <1>1, <1>2, <2>2, <2>4, PlusType
    <3> QED
      BY <1>3, <2>1, <3>1 DEF Dead, IsExpired
  <2> QED
    BY <2>3, <2>4
<1>7. CASE s \in {"expires", "metadata", "sidecar"}
  <2>1. TtlSource[s].stamps = "explicit"
    BY <1>1, <1>7, SourceFacts
  <2>2. o.native = IF ttl = Unset THEN Unset ELSE Plus(base, ttl)
    BY <2>1 DEF NativeExpiry
  <2>3. CASE ttl = Unset
    <3>1. created = Unset \/ TtlSource[s].mtime
      BY <2>1, <2>3 DEF ClockDropped
    <3>2. o.modified = base /\ o.native = Unset /\ ResolveTtl(ttl, st.ttl) = st.ttl
      BY <2>2, <2>3, <3>1 DEF ModifiedAt, ClockBase, ResolveTtl
    <3> QED
      BY <1>1, <1>3, <2>1, <3>2, MarkersAssumption DEF Dead, IsExpired, Plus
  <2>4. CASE ttl # Unset
    <3>1. o.native = Plus(base, ttl) /\ o.native # Unset /\ ResolveTtl(ttl, st.ttl) = ttl
      BY <1>1, <1>2, <2>2, <2>4, PlusType DEF ResolveTtl
    <3> QED
      BY <1>3, <2>1, <3>1 DEF Dead, IsExpired
  <2> QED
    BY <2>3, <2>4
<1> QED
  BY <1>1, <1>4, <1>5, <1>6, <1>7

\* The reported expiry is the moment from which an object is expired.
LEMMA TellsExpiry ==
    ASSUME NEW st \in Setup, NEW o \in Object, NEW t \in Nat
    PROVE  Dead(st, o, t) <=> /\ ReportedExpiry(st.source, o, st.ttl) # Never
                              /\ t >= ReportedExpiry(st.source, o, st.ttl)
<1>1. st.ttl \in Nat \cup {Never} /\ o.modified \in Nat
  BY SetupTypes DEF Object
<1> QED
  BY <1>1, MarkersAssumption DEF Dead, IsExpired, ReportedExpiry, Plus

\* What has expired stays expired.
LEMMA StaysDead ==
    ASSUME NEW st \in Setup, NEW o \in Object, NEW t \in Nat, NEW u \in Nat, t <= u,
           Dead(st, o, t)
    PROVE  Dead(st, o, u)
<1>1. ReportedExpiry(st.source, o, st.ttl) \in Moment
  <2>1. st.ttl \in Nat \cup {Never} /\ o.modified \in Nat /\ o.native \in Moment \cup {Unset}
    BY SetupTypes DEF Object
  <2>2. Plus(o.modified, st.ttl) \in Moment
    BY <2>1, PlusType
  <2> QED
    BY <2>1, <2>2 DEF ReportedExpiry
<1> QED
  BY <1>1, TellsExpiry DEF Moment

RowStats(st) == TtlSource[st.source].head \/ BlobDriver[st.medium].walks
Row1(st, o) == IF BlobDriver[st.medium].tells THEN o ELSE [o EXCEPT !.native = Unset]

\* Where rows are judged on the listing, it tells all that the verdict needs.
LEMMA ListingTells ==
    ASSUME NEW st \in Setup, NEW o \in Object, NEW t \in Nat, ~ RowStats(st)
    PROVE  /\ Row1(st, o) \in Object /\ Row1(st, o).id = o.id
           /\ Dead(st, Row1(st, o), t) <=> Dead(st, o, t)
<1>1. CASE BlobDriver[st.medium].tells
  BY <1>1 DEF Row1
<1>2. CASE ~ BlobDriver[st.medium].tells
  <2>1. st.medium = "s3"
    BY <1>2, SetupTypes, DriverFacts
  <2>2. st.source = "object_time"
    BY <2>1, SetupTypes, SourceFacts DEF RowStats
  <2>3. TtlSource[st.source].stamps = "never"
    BY <2>2, SourceFacts
  <2>4. /\ Row1(st, o) \in Object /\ Row1(st, o).id = o.id /\ Row1(st, o).modified = o.modified
    BY <1>2 DEF Row1, Object
  <2> QED
    BY <2>3, <2>4 DEF Dead, IsExpired
<1> QED
  BY <1>1, <1>2

-----------------------------------------------------------------------------
(***************************************************************************)
(* The inductive invariant.  What a call relies on is stated of the setup  *)
(* st, the objects ob, the time nw and the number of writes wr, so that it *)
(* can be said of the state before and after a step.                       *)
(***************************************************************************)
Collectors == {"get", "exists", "read_stream", "scan", "keys", "gc"}
Points == {"get", "exists", "read_stream", "delete", "insert", "update"}
AllOps == Points \cup Listings \cup {"batch_delete", "none"}
Keyed == {"head", "read", "body", "chunks", "probe", "remove", "row", "write"}
Visiting == {"head", "probe", "remove"}
AllSteps == Keyed \cup {"idle", "list", "bulk", "done", "failed"}
Rows == UNION {[S -> Object] : S \in SUBSET Key}

CallType ==
    [op : AllOps, step : AllSteps, phase : {"point", "list", "sweep"}, key : Key \cup {Nothing},
     todo : SUBSET Key, listed : Rows \cup {Nothing}, saw : Object \cup {Nothing},
     shown : Object \cup {Nothing}, found : SUBSET [key : Key, id : Nat],
     present : SUBSET Key, out : SUBSET Object, began : Nat, mark : Nat]

\* A reported object is gone; what k holds may be collected by the call.
Gone(ob, f) == ob[f.key] = Nothing \/ ob[f.key].id # f.id
Stale(st, ob, nw, cl, k) == ob[k] = Nothing \/ Dead(st, ob[k], nw) \/ ob[k].id > cl.mark

\* What every call keeps: its answers and its reports are sound.
Base(st, ob, nw, wr, cl) ==
    /\ cl \in CallType /\ cl.began <= nw /\ cl.mark <= wr
    /\ \A o \in cl.out : o.id > cl.mark \/ ~ Dead(st, o, cl.began)
    /\ \A f \in cl.found : /\ f.id <= wr /\ Stale(st, ob, nw, cl, f.key)
                           /\ Gone(ob, f) \/ Dead(st, ob[f.key], nw)
    /\ cl.op # "gc" => cl.found = {}

\* A listed row is of the object that is there, or that one is newer.
Told(st, ob, wr, cl, k) ==
    /\ k \in DOMAIN cl.listed /\ cl.listed[k] \in Object /\ cl.listed[k].id <= wr
    /\ \/ ob[k] = Nothing
       \/ ob[k].id > cl.mark /\ ob[k].id > cl.listed[k].id
       \/ cl.listed[k] = Row1(st, ob[k])

\* What is left for a call to visit may be visited.
Ahead(st, ob, nw, wr, cl) ==
    /\ cl.phase = "point" => cl.op \in Points
    /\ cl.phase = "list" => /\ cl.op \in Listings /\ cl.present = {}
                            /\ ~ RowStats(st) => \A k \in cl.todo : Told(st, ob, wr, cl, k)
    /\ cl.phase = "sweep" => cl.op \in {"gc", "batch_delete"}
    /\ cl.phase = "sweep" /\ cl.op = "gc" =>
         \A k \in cl.todo \cup cl.present : Stale(st, ob, nw, cl, k)

\* A lazy gc has removed what it reported, but for the keys in left.
Swept(st, ob, cl, left) ==
    st.gc = "lazy" => \A f \in cl.found : Gone(ob, f) \/ f.key \in left

\* What the call is about to do rests on what it read.
Now(st, ob, nw, wr, cl) ==
    LET o == ob[cl.key]
    IN /\ cl.step \in Keyed => cl.key \in Key
       /\ cl.step = "head" => cl.op \in {"exists", "read_stream", "batch_delete", "gc"}
       /\ cl.step \in {"read", "body"} => cl.op \in {"get", "update", "scan"}
       /\ cl.step \in {"row", "read"} => cl.saw = Nothing
       /\ cl.step = "body" =>
            /\ cl.saw \in Object /\ cl.saw.id <= wr
            /\ o = Nothing \/ o = cl.saw \/ (o.id > cl.mark /\ o.id > cl.saw.id)
       /\ cl.step = "chunks" =>
            cl.op = "read_stream" /\ (o = Nothing \/ o.id > cl.mark \/ ~ Dead(st, o, cl.began))
       /\ cl.step \in {"probe", "remove"} =>
            /\ cl.op \in Collectors \cup {"delete", "batch_delete"}
            /\ cl.op \in Collectors => Stale(st, ob, nw, cl, cl.key)
       /\ cl.step \in {"row", "list"} => cl.phase = "list"
       /\ cl.step = "row" /\ ~ RowStats(st) => Told(st, ob, wr, cl, cl.key)
       /\ cl.step = "bulk" => cl.phase = "sweep"
       /\ cl.step = "write" =>
            /\ cl.op \in {"insert", "update"}
            /\ cl.saw # Nothing => cl.saw.id <= wr
            /\ cl.saw # Nothing /\ cl.shown # Nothing /\ ~ BlobDriver[st.medium].digest =>
                 cl.shown.id = cl.saw.id \/ o = Nothing \/ o.id # cl.saw.id

Gc(st, ob, nw, cl) ==
    cl.op = "gc" =>
        /\ cl.step = "done" => Swept(st, ob, cl, {})
        /\ cl.step \notin {"idle", "done", "failed"} =>
             /\ cl.phase = "list" => cl.step \in {"list", "row"}
             /\ cl.phase = "sweep" =>
                  IF cl.step \in Visiting
                  THEN Swept(st, ob, cl, cl.todo \cup {cl.key}) /\ Stale(st, ob, nw, cl, cl.key)
                  ELSE Swept(st, ob, cl, cl.todo) /\ cl.step = "bulk" /\ cl.todo = {}

CallOK(st, ob, nw, wr, cl) ==
    /\ Base(st, ob, nw, wr, cl)
    /\ cl.step \notin {"idle", "done", "failed"} => Ahead(st, ob, nw, wr, cl)
    /\ Now(st, ob, nw, wr, cl)
    /\ Gc(st, ob, nw, cl)

\* What is stored expires when its writer asked.
Faithful(st, o) ==
    o.exact => \A t \in Nat : Dead(st, o, t) <=> o.due # Never /\ t >= o.due

World(st, ob, nw, wr) ==
    /\ st \in Setup /\ nw \in Nat /\ wr \in Nat
    /\ ob \in [Key -> Object \cup {Nothing}]
    /\ \A k \in Key : ob[k] # Nothing => ob[k].id <= wr /\ Faithful(st, ob[k])

Inv ==
    /\ World(setup, object, now, writes)
    /\ call \in [Client -> CallType]
    /\ \A c \in Client : CallOK(setup, object, now, writes, call[c])

-----------------------------------------------------------------------------
(***************************************************************************)
(* What a call relies on outlives whatever others do: objects go, or later *)
(* ones take their place, and time passes.                                 *)
(***************************************************************************)
Evolves(ob, nw, wr, ob1, nw1, wr1) ==
    /\ nw <= nw1 /\ wr <= wr1
    /\ \A k \in Key : \/ ob1[k] = ob[k] \/ ob1[k] = Nothing
                      \/ ob1[k] \in Object /\ ob1[k].id > wr

\* A reported object that is gone stays gone, and what may be collected still may.
LEMMA StaysGone ==
    ASSUME NEW st, NEW ob, NEW nw, NEW wr, NEW ob1, NEW nw1, NEW wr1,
           World(st, ob, nw, wr), World(st, ob1, nw1, wr1), Evolves(ob, nw, wr, ob1, nw1, wr1)
    PROVE  /\ \A f \in [key : Key, id : Nat] : f.id <= wr /\ Gone(ob, f) => Gone(ob1, f)
           /\ \A f \in [key : Key, id : Nat] :
                f.id <= wr /\ (Gone(ob, f) \/ Dead(st, ob[f.key], nw)) =>
                    Gone(ob1, f) \/ Dead(st, ob1[f.key], nw1)
           /\ \A cl \in CallType, k \in Key :
                cl.mark <= wr /\ Stale(st, ob, nw, cl, k) => Stale(st, ob1, nw1, cl, k)
<1>1. /\ st \in Setup /\ nw \in Nat /\ nw1 \in Nat /\ wr \in Nat /\ nw <= nw1
      /\ \A k \in Key : ob[k] \in Object \cup {Nothing} /\ ob1[k] \in Object \cup {Nothing}
      /\ \A k \in Key : \/ ob1[k] = ob[k] \/ ob1[k] = Nothing
                        \/ ob1[k] \in Object /\ ob1[k].id > wr
  BY DEF World, Evolves
<1>2. \A o \in Object : o.id \in Nat /\ (Dead(st, o, nw) => Dead(st, o, nw1))
  BY <1>1, StaysDead DEF Object
<1>3. ASSUME NEW f \in [key : Key, id : Nat], f.id <= wr, Gone(ob, f) PROVE Gone(ob1, f)
  BY <1>1, <1>2, <1>3 DEF Gone
<1>4. ASSUME NEW f \in [key : Key, id : Nat], f.id <= wr, Dead(st, ob[f.key], nw)
      PROVE  Gone(ob1, f) \/ Dead(st, ob1[f.key], nw1)
  <2>1. CASE ob[f.key] = Nothing
    BY <1>3, <1>4, <2>1 DEF Gone
  <2>2. CASE ob[f.key] \in Object
    BY <1>1, <1>2, <1>4, <2>2 DEF Gone
  <2> QED
    BY <1>1, <2>1, <2>2
<1>5. ASSUME NEW cl \in CallType, NEW k \in Key, cl.mark <= wr, Stale(st, ob, nw, cl, k)
      PROVE  Stale(st, ob1, nw1, cl, k)
  <2>1. cl.mark \in Nat
    BY DEF CallType
  <2>2. CASE ob1[k] = ob[k] /\ ob[k] \in Object
    BY <1>2, <1>5, <2>2 DEF Stale
  <2>3. CASE ob1[k] = Nothing
    BY <2>3 DEF Stale
  <2>4. CASE ob1[k] \in Object /\ ob1[k].id > wr
    BY <1>1, <1>2, <1>5, <2>1, <2>4 DEF Stale
  <2> QED
    BY <1>1, <2>2, <2>3, <2>4
<1> QED
  BY <1>3, <1>4, <1>5

\* What a call relies on outlives a step that is not its own.
LEMMA StaysOK ==
    ASSUME NEW st, NEW ob, NEW nw, NEW wr, NEW ob1, NEW nw1, NEW wr1, NEW cl,
           World(st, ob, nw, wr), World(st, ob1, nw1, wr1), Evolves(ob, nw, wr, ob1, nw1, wr1),
           CallOK(st, ob, nw, wr, cl)
    PROVE  CallOK(st, ob1, nw1, wr1, cl)
<1>0. /\ nw \in Nat /\ nw1 \in Nat /\ wr \in Nat /\ wr1 \in Nat /\ nw <= nw1 /\ wr <= wr1
      /\ st \in Setup
      /\ \A k \in Key : ob[k] \in Object \cup {Nothing} /\ ob1[k] \in Object \cup {Nothing}
      /\ \A k \in Key : \/ ob1[k] = ob[k] \/ ob1[k] = Nothing
                        \/ ob1[k] \in Object /\ ob1[k].id > wr
      /\ \A o \in Object : o.id \in Nat
  BY DEF World, Evolves, Object
<1>1. /\ cl \in CallType /\ cl.mark <= wr /\ cl.mark \in Nat /\ cl.began <= nw /\ cl.began \in Nat
      /\ cl.found \subseteq [key : Key, id : Nat] /\ cl.todo \cup cl.present \subseteq Key
      /\ \A f \in cl.found : f.id <= wr /\ f.id \in Nat /\ f.key \in Key
  BY DEF CallOK, Base, CallType
<1>2. \A k \in Key : Stale(st, ob, nw, cl, k) => Stale(st, ob1, nw1, cl, k)
  BY <1>1, StaysGone
<1>3. \A f \in cl.found : /\ Gone(ob, f) => Gone(ob1, f)
                          /\ Gone(ob, f) \/ Dead(st, ob[f.key], nw) =>
                               Gone(ob1, f) \/ Dead(st, ob1[f.key], nw1)
  BY <1>1, StaysGone
<1>4. Base(st, ob1, nw1, wr1, cl)
  BY <1>0, <1>1, <1>2, <1>3 DEF CallOK, Base
<1>5. \A k \in Key : Told(st, ob, wr, cl, k) => Told(st, ob1, wr1, cl, k)
  BY <1>0, <1>1 DEF Told
<1>6. Ahead(st, ob, nw, wr, cl) => Ahead(st, ob1, nw1, wr1, cl)
  BY <1>1, <1>2, <1>5 DEF Ahead
<1>7. \A left : Swept(st, ob, cl, left) => Swept(st, ob1, cl, left)
  BY <1>3 DEF Swept
<1>8. Gc(st, ob1, nw1, cl)
  <2>1. cl.step \in Visiting => cl.key \in Key
    BY DEF CallOK, Now, Visiting, Keyed
  <2> QED
    BY <1>2, <1>7, <2>1 DEF CallOK, Gc
<1>9. Now(st, ob1, nw1, wr1, cl)
  <2>1. cl.step \in Keyed => cl.key \in Key
    BY DEF CallOK, Now
  <2>2. ASSUME cl.step = "body"
        PROVE  /\ cl.saw \in Object /\ cl.saw.id <= wr1
               /\ \/ ob1[cl.key] = Nothing \/ ob1[cl.key] = cl.saw
                  \/ ob1[cl.key].id > cl.mark /\ ob1[cl.key].id > cl.saw.id
    BY <1>0, <1>1, <2>1, <2>2 DEF CallOK, Now, Keyed
  <2>3. ASSUME cl.step = "chunks"
        PROVE  \/ ob1[cl.key] = Nothing \/ ob1[cl.key].id > cl.mark
               \/ ~ Dead(st, ob1[cl.key], cl.began)
    BY <1>0, <1>1, <2>1, <2>3 DEF CallOK, Now, Keyed
  <2>4. ASSUME cl.step = "write"
        PROVE  /\ cl.saw # Nothing => cl.saw.id <= wr1
               /\ cl.saw # Nothing /\ cl.shown # Nothing /\ ~ BlobDriver[st.medium].digest =>
                    cl.shown.id = cl.saw.id \/ ob1[cl.key] = Nothing \/ ob1[cl.key].id # cl.saw.id
    <3>1. cl.saw # Nothing => cl.saw.id \in Nat /\ cl.saw.id <= wr
      BY <1>0, <1>1, <2>4 DEF CallType, CallOK, Now
    <3> QED
      BY <1>0, <1>1, <2>1, <2>4, <3>1 DEF CallOK, Now, Keyed
  <2>5. cl.step \in {"probe", "remove"} /\ cl.op \in Collectors => Stale(st, ob1, nw1, cl, cl.key)
    BY <1>2, <2>1 DEF CallOK, Now, Keyed
  <2>6. cl.step = "row" /\ ~ RowStats(st) => Told(st, ob1, wr1, cl, cl.key)
    BY <1>5, <2>1 DEF CallOK, Now, Keyed
  <2> QED
    BY <2>1, <2>2, <2>3, <2>4, <2>5, <2>6 DEF CallOK, Now
<1> QED
  BY <1>4, <1>6, <1>8, <1>9 DEF CallOK

-----------------------------------------------------------------------------
(***************************************************************************)
(* How a call goes on.                                                     *)
(***************************************************************************)

\* A client that is in no call relies on nothing.
LEMMA IdleOK ==
    ASSUME NEW st, NEW ob, NEW nw, NEW wr, World(st, ob, nw, wr)
    PROVE  NoCall \in CallType /\ CallOK(st, ob, nw, wr, NoCall)
<1>1. NoCall \in CallType
  BY DEF NoCall, CallType, AllOps, AllSteps
<1>2. /\ NoCall.op = "none" /\ NoCall.step = "idle" /\ NoCall.out = {} /\ NoCall.found = {}
      /\ NoCall.began = 0 /\ NoCall.mark = 0
  BY DEF NoCall
<1>3. nw \in Nat /\ wr \in Nat
  BY DEF World
<1>4. Base(st, ob, nw, wr, NoCall)
  BY <1>1, <1>2, <1>3 DEF Base
<1>5. Now(st, ob, nw, wr, NoCall) /\ Gc(st, ob, nw, NoCall)
  BY <1>2 DEF Now, Gc, Keyed
<1> QED
  BY <1>1, <1>2, <1>4, <1>5 DEF CallOK

\* The fields of a call that has ended.
LEMMA EndedFields ==
    ASSUME NEW cl \in CallType, NEW step \in {"done", "failed"}
    PROVE  /\ Ended(cl, step) \in CallType
           /\ Ended(cl, step).op = cl.op /\ Ended(cl, step).step = step
           /\ Ended(cl, step).out = cl.out /\ Ended(cl, step).found = cl.found
           /\ Ended(cl, step).began = cl.began /\ Ended(cl, step).mark = cl.mark
BY DEF Ended, NoCall, CallType, AllSteps

\* A call whose answers are sound may end; a gc that succeeds has swept.
LEMMA EndedOK ==
    ASSUME NEW st, NEW ob, NEW nw, NEW wr, NEW cl, NEW step \in {"done", "failed"},
           Base(st, ob, nw, wr, cl),
           step = "done" /\ cl.op = "gc" => Swept(st, ob, cl, {})
    PROVE  CallOK(st, ob, nw, wr, Ended(cl, step))
<1> DEFINE e == Ended(cl, step)
<1>1. cl \in CallType
  BY DEF Base
<1>2. /\ e \in CallType /\ e.op = cl.op /\ e.step = step /\ e.out = cl.out /\ e.found = cl.found
      /\ e.began = cl.began /\ e.mark = cl.mark
  BY <1>1, EndedFields
<1> HIDE DEF e
<1>3. Base(st, ob, nw, wr, e)
  BY <1>2 DEF Base, Stale
<1>4. Now(st, ob, nw, wr, e)
  BY <1>2 DEF Now, Keyed
<1>5. Gc(st, ob, nw, e)
  BY <1>2 DEF Gc, Swept
<1> QED
  BY <1>2, <1>3, <1>4, <1>5 DEF CallOK, e

\* A call that goes on to one of keys.
Going(cl, keys, k, phase, step) ==
    [cl EXCEPT !.key = k, !.todo = keys \ {k}, !.phase = phase, !.step = step, !.saw = Nothing]

\* The ways a call goes on after a key.
LEMMA OnwardCases ==
    ASSUME NEW cl \in CallType, NEW next \in Onward(cl)
    PROVE  \/ cl.phase = "point" /\ next = Done(cl)
           \/ cl.phase = "list" /\ \E k \in cl.todo : next = Going(cl, cl.todo, k, "list", "row")
           \/ cl.phase = "list" /\ cl.found = {} /\ next = Done(cl)
           \/ /\ cl.phase = "list"
              /\ \E f \in cl.found : next = Going(cl, {g.key : g \in cl.found}, f.key, "sweep", "head")
           \/ cl.phase = "sweep" /\ \E k \in cl.todo : next = Going(cl, cl.todo, k, "sweep", "head")
           \/ cl.phase = "sweep" /\ cl.todo = {} /\ next = Done(cl)
           \/ cl.phase = "sweep" /\ cl.todo = {} /\ next = [cl EXCEPT !.step = "bulk"]
<1> DEFINE full == cl.op = "gc" /\ cl.phase = "list" /\ Cardinality(cl.found) = GcLimit
           coll == {f.key : f \in cl.found}
<1>0. cl.phase \in {"point", "list", "sweep"}
  BY DEF CallType
<1>1. CASE cl.phase = "point"
  BY <1>1 DEF Onward
<1>2. CASE cl.phase = "list" /\ cl.todo # {} /\ ~ full
  <2>1. Onward(cl) = {Going(cl, cl.todo, k, "list", "row") : k \in cl.todo}
    BY <1>2 DEF Onward, Going
  <2> QED
    BY <1>2, <2>1
<1>3. CASE cl.phase = "list" /\ (cl.todo = {} \/ full)
  <2>1. Onward(cl) = IF coll = {} THEN {Done(cl)}
                     ELSE {Going(cl, coll, k, "sweep", "head") : k \in coll}
    BY <1>3 DEF Onward, Going
  <2>2. CASE coll = {}
    <3>1. cl.found = {} /\ next = Done(cl)
      BY <2>1, <2>2
    <3> QED
      BY <1>3, <3>1
  <2>3. CASE coll # {}
    <3>1. PICK k \in coll : next = Going(cl, coll, k, "sweep", "head")
      BY <2>1, <2>3
    <3>2. PICK f \in cl.found : k = f.key
      BY <3>1
    <3> QED
      BY <1>3, <3>1, <3>2
  <2> QED
    BY <2>2, <2>3
<1>4. CASE cl.phase = "sweep" /\ cl.todo # {}
  <2>1. Onward(cl) = {Going(cl, cl.todo, k, "sweep", "head") : k \in cl.todo}
    BY <1>4 DEF Onward, Going
  <2> QED
    BY <1>4, <2>1
<1>5. CASE cl.phase = "sweep" /\ cl.todo = {}
  <2>1. Onward(cl) = {IF cl.present = {} THEN Done(cl) ELSE [cl EXCEPT !.step = "bulk"]}
    BY <1>5 DEF Onward
  <2> QED
    BY <1>5, <2>1
<1> QED
  BY <1>0, <1>1, <1>2, <1>3, <1>4, <1>5

\* What a call was about to do apart, it may go on as it does: to the next row it
\* was told of, to the next key it may collect, to the chunk, or to its end.
LEMMA OnwardOK ==
    ASSUME NEW st, NEW ob, NEW nw, NEW wr, NEW cl, World(st, ob, nw, wr),
           Base(st, ob, nw, wr, cl), Ahead(st, ob, nw, wr, cl),
           cl.op = "gc" /\ cl.phase = "sweep" => Swept(st, ob, cl, cl.todo),
           NEW next \in Onward(cl)
    PROVE  CallOK(st, ob, nw, wr, next)
<1>0. /\ cl \in CallType /\ cl.todo \subseteq Key /\ cl.found \subseteq [key : Key, id : Nat]
      /\ cl.present \subseteq Key
  BY DEF Base, CallType
<1>1. CASE cl.phase = "point" /\ next = Done(cl)
  <2>1. cl.op # "gc"
    BY <1>1 DEF Ahead, Points
  <2> QED
    BY <1>1, <2>1, EndedOK DEF Done
<1>2. CASE cl.phase = "list" /\ \E k \in cl.todo : next = Going(cl, cl.todo, k, "list", "row")
  <2>1. PICK k \in cl.todo : next = Going(cl, cl.todo, k, "list", "row")
    BY <1>2
  <2>2. /\ next \in CallType /\ next.op = cl.op /\ next.step = "row" /\ next.phase = "list"
        /\ next.key = k /\ next.todo = cl.todo \ {k} /\ next.listed = cl.listed
        /\ next.found = cl.found /\ next.present = cl.present /\ next.out = cl.out
        /\ next.began = cl.began /\ next.mark = cl.mark /\ next.saw = Nothing
    BY <1>0, <2>1 DEF Going, CallType, AllSteps, Keyed
  <2>3. Base(st, ob, nw, wr, next)
    BY <2>2 DEF Base, Stale
  <2>4. Ahead(st, ob, nw, wr, next)
    BY <1>2, <2>2 DEF Ahead, Told
  <2>5. Now(st, ob, nw, wr, next)
    BY <1>0, <1>2, <2>2 DEF Now, Ahead, Told
  <2>6. Gc(st, ob, nw, next)
    BY <2>2 DEF Gc
  <2> QED
    BY <2>3, <2>4, <2>5, <2>6 DEF CallOK
<1>3. CASE cl.phase = "list" /\ cl.found = {} /\ next = Done(cl)
  BY <1>3, EndedOK DEF Done, Swept
<1>4. ASSUME NEW keys \in SUBSET Key, NEW k \in keys, next = Going(cl, keys, k, "sweep", "head"),
             cl.op \in {"gc", "batch_delete"}, cl.op = "gc" => Swept(st, ob, cl, keys),
             cl.op = "gc" => \A j \in keys \cup cl.present : Stale(st, ob, nw, cl, j)
      PROVE  CallOK(st, ob, nw, wr, next)
  <2>2. /\ next \in CallType /\ next.op = cl.op /\ next.step = "head" /\ next.phase = "sweep"
        /\ next.key = k /\ next.todo = keys \ {k} /\ next.listed = cl.listed
        /\ next.found = cl.found /\ next.present = cl.present /\ next.out = cl.out
        /\ next.began = cl.began /\ next.mark = cl.mark
    BY <1>0, <1>4 DEF Going, CallType, AllSteps, Keyed
  <2>3. Base(st, ob, nw, wr, next)
    BY <2>2 DEF Base, Stale
  <2>4. Ahead(st, ob, nw, wr, next)
    BY <1>4, <2>2 DEF Ahead, Stale
  <2>5. Now(st, ob, nw, wr, next)
    BY <1>4, <2>2 DEF Now
  <2>6. Gc(st, ob, nw, next)
    <3>1. next.todo \cup {next.key} = keys
      BY <2>2
    <3>2. cl.op = "gc" => Swept(st, ob, next, keys) /\ Stale(st, ob, nw, next, k)
      BY <1>4, <2>2 DEF Swept, Stale
    <3> QED
      BY <2>2, <3>1, <3>2 DEF Gc, Visiting
  <2> QED
    BY <2>3, <2>4, <2>5, <2>6 DEF CallOK
<1>5. CASE /\ cl.phase = "list"
           /\ \E f \in cl.found : next = Going(cl, {g.key : g \in cl.found}, f.key, "sweep", "head")
  <2> DEFINE keys == {g.key : g \in cl.found}
  <2>1. PICK f \in cl.found : next = Going(cl, keys, f.key, "sweep", "head")
    BY <1>5
  <2>2. cl.op = "gc" /\ cl.present = {}
    BY <1>5, <2>1 DEF Base, Ahead
  <2>3. keys \in SUBSET Key /\ f.key \in keys /\ Swept(st, ob, cl, keys)
    BY <1>0 DEF Swept
  <2>4. \A j \in keys \cup cl.present : Stale(st, ob, nw, cl, j)
    BY <2>2 DEF Base
  <2> HIDE DEF keys
  <2> QED
    BY <1>4, <2>1, <2>2, <2>3, <2>4
<1>6. CASE cl.phase = "sweep" /\ \E k \in cl.todo : next = Going(cl, cl.todo, k, "sweep", "head")
  <2>1. /\ cl.op \in {"gc", "batch_delete"} /\ (cl.op = "gc" => Swept(st, ob, cl, cl.todo))
        /\ cl.op = "gc" => \A j \in cl.todo \cup cl.present : Stale(st, ob, nw, cl, j)
    BY <1>6 DEF Ahead
  <2> QED
    BY <1>0, <1>4, <1>6, <2>1
<1>7. CASE cl.phase = "sweep" /\ cl.todo = {} /\ next = Done(cl)
  BY <1>7, EndedOK DEF Done
<1>8. CASE cl.phase = "sweep" /\ cl.todo = {} /\ next = [cl EXCEPT !.step = "bulk"]
  <2>2. /\ next \in CallType /\ next.op = cl.op /\ next.step = "bulk" /\ next.phase = "sweep"
        /\ next.todo = {} /\ next.found = cl.found /\ next.present = cl.present
        /\ next.out = cl.out /\ next.began = cl.began /\ next.mark = cl.mark
    BY <1>0, <1>8 DEF CallType, AllSteps
  <2>3. Base(st, ob, nw, wr, next)
    BY <2>2 DEF Base, Stale
  <2>4. Ahead(st, ob, nw, wr, next)
    BY <1>8, <2>2 DEF Ahead, Stale
  <2>5. Now(st, ob, nw, wr, next)
    BY <2>2 DEF Now, Keyed
  <2>6. Gc(st, ob, nw, next)
    BY <1>8, <2>2 DEF Gc, Visiting, Swept
  <2> QED
    BY <2>3, <2>4, <2>5, <2>6 DEF CallOK
<1> QED
  BY <1>0, <1>1, <1>2, <1>3, <1>5, <1>6, <1>7, <1>8, OnwardCases

-----------------------------------------------------------------------------
(***************************************************************************)
(* The steps.  One that leaves the calls alone, or moves one of them to    *)
(* where it may be, keeps the invariant.                                   *)
(***************************************************************************)

\* A step of the world alone.
LEMMA Outlasts ==
    ASSUME Inv, UNCHANGED <<setup, call>>, World(setup, object', now', writes'),
           Evolves(object, now, writes, object', now', writes')
    PROVE  Inv'
<1>1. \A c \in Client : CallOK(setup, object', now', writes', call[c])
  BY StaysOK DEF Inv
<1> QED
  BY <1>1 DEF Inv

\* A step of one call.
LEMMA Settles ==
    ASSUME Inv, NEW c \in Client, NEW cl, call' = [call EXCEPT ![c] = cl], setup' = setup,
           World(setup, object', now', writes'),
           Evolves(object, now, writes, object', now', writes'),
           CallOK(setup, object', now', writes', cl)
    PROVE  Inv'
<1>1. cl \in CallType
  BY DEF CallOK, Base
<1>2. call' \in [Client -> CallType]
  BY <1>1 DEF Inv
<1>3. ASSUME NEW d \in Client PROVE CallOK(setup, object', now', writes', call'[d])
  <2>1. CASE d = c
    BY <2>1 DEF Inv
  <2>2. CASE d # c
    <3>1. call'[d] = call[d]
      BY <2>2 DEF Inv
    <3> QED
      BY <3>1, StaysOK DEF Inv
  <2> QED
    BY <2>1, <2>2
<1> QED
  BY <1>2, <1>3 DEF Inv

\* The same where the call only reads.
LEMMA SettlesHere ==
    ASSUME Inv, NEW c \in Client, NEW cl, call' = [call EXCEPT ![c] = cl], Kept,
           UNCHANGED <<setup, now>>, CallOK(setup, object, now, writes, cl)
    PROVE  Inv'
<1>1. World(setup, object', now', writes') /\ CallOK(setup, object', now', writes', cl)
  BY DEF Inv, Kept
<1>2. Evolves(object, now, writes, object', now', writes')
  BY DEF Inv, World, Kept, Evolves
<1> QED
  BY <1>1, <1>2, Settles

\* What a write stores is an object of the next id, and expires as asked.
LEMMA StoredOK ==
    ASSUME World(setup, object, now, writes), NEW b \in Contents, NEW w \in WriteArg,
           Honours(setup.source, w.ttl, w.created)
    PROVE  LET o == Stored(b, w.ttl, w.created)
           IN o \in Object /\ o.id = writes + 1 /\ Faithful(setup, o)
<1> DEFINE o == Stored(b, w.ttl, w.created)
           base == ClockBase(w.created, now)
<1>1. /\ w.ttl \in Nat \cup {Unset, Never} /\ w.created \in Nat \cup {Unset}
      /\ setup \in Setup /\ now \in Nat /\ writes \in Nat
  BY ObjectAssumption DEF World
<1>2. /\ base \in Nat /\ setup.ttl \in Nat \cup {Never}
      /\ setup.source \in {"object_time", "expires", "custom_time", "metadata", "mtime", "sidecar"}
  BY <1>1, SetupTypes DEF ClockBase
<1>3. ResolveTtl(w.ttl, setup.ttl) \in Nat \cup {Never}
  BY <1>1, <1>2 DEF ResolveTtl
<1>4. o.due \in Moment
  BY <1>1, <1>2, <1>3, PlusType DEF Stored, AskedExpiry
<1>5. NativeExpiry(setup.source, w.ttl, setup.ttl, base) \in Moment \cup {Unset}
  <2>1. TtlSource[setup.source].stamps \in {"never", "explicit", "always"}
    BY <1>2, SourceFacts
  <2>2. w.ttl # Unset => Plus(base, w.ttl) \in Moment
    BY <1>1, <1>2, PlusType
  <2>3. Plus(base, ResolveTtl(w.ttl, setup.ttl)) \in Moment
    BY <1>2, <1>3, PlusType
  <2> QED
    BY <2>1, <2>2, <2>3 DEF NativeExpiry
<1>6. ModifiedAt(setup.source, w.created, now) \in Nat
  BY <1>1, <1>2 DEF ModifiedAt
<1>7. b \in Body
  BY ObjectAssumption DEF Contents
<1>8. ClockDropped(setup.source, w.ttl, w.created) \in BOOLEAN
  BY DEF ClockDropped
<1>9. o \in Object
  BY <1>1, <1>4, <1>5, <1>6, <1>7, <1>8 DEF Stored, Object
<1>10. /\ o.id = writes + 1 /\ o.modified = ModifiedAt(setup.source, w.created, now)
       /\ o.native = NativeExpiry(setup.source, w.ttl, setup.ttl, base)
       /\ o.due = AskedExpiry(w.ttl, setup.ttl, w.created, now)
       /\ o.exact <=> ~ ClockDropped(setup.source, w.ttl, w.created)
  BY DEF Stored
<1> HIDE DEF o, base
<1>11. ASSUME o.exact, NEW t \in Nat
       PROVE  Dead(setup, o, t) <=> o.due # Never /\ t >= o.due
  <2>1. ~ ClockDropped(setup.source, w.ttl, w.created)
    BY <1>10, <1>11
  <2>2. o.native = NativeExpiry(setup.source, w.ttl, setup.ttl, ClockBase(w.created, now))
    BY <1>10 DEF base
  <2>3. Dead(setup, o, t) <=> /\ AskedExpiry(w.ttl, setup.ttl, w.created, now) # Never
                              /\ t >= AskedExpiry(w.ttl, setup.ttl, w.created, now)
    BY <1>1, <1>10, <2>1, <2>2, CarriesExpiry, ZenonT(60)
  <2> QED
    BY <1>10, <2>3
<1>12. Faithful(setup, o)
  BY <1>11 DEF Faithful
<1> QED
  BY <1>9, <1>10, <1>12 DEF o

\* A write stores the object under one key, after all that was written.
LEMMA WritesOne ==
    ASSUME World(setup, object, now, writes), NEW k \in Key, NEW b \in Contents, NEW w \in WriteArg,
           Honours(setup.source, w.ttl, w.created), UNCHANGED <<setup, now>>,
           object' = [object EXCEPT ![k] = Stored(b, w.ttl, w.created)], writes' = writes + 1
    PROVE  /\ World(setup, object', now', writes')
           /\ Evolves(object, now, writes, object', now', writes')
<1> DEFINE o == Stored(b, w.ttl, w.created)
<1>1. o \in Object /\ o.id = writes + 1 /\ Faithful(setup, o)
  BY StoredOK
<1>2. object' = [object EXCEPT ![k] = o]
  OBVIOUS
<1> HIDE DEF o
<1>3. \A i \in Object : i.id \in Nat
  BY DEF Object
<1>4. object' \in [Key -> Object \cup {Nothing}] /\ \A j \in Key : object'[j] = IF j = k THEN o ELSE object[j]
  BY <1>1, <1>2 DEF World
<1>5. World(setup, object', now', writes')
  BY <1>1, <1>3, <1>4 DEF World
<1>6. Evolves(object, now, writes, object', now', writes')
  BY <1>1, <1>4 DEF Evolves, World
<1> QED
  BY <1>5, <1>6

\* Removing objects leaves the others as they were.
LEMMA RemovesSome ==
    ASSUME World(setup, object, now, writes), UNCHANGED <<setup, now, writes>>, NEW K \in SUBSET Key,
           object' = [k \in Key |-> IF k \in K THEN Nothing ELSE object[k]]
    PROVE  /\ World(setup, object', now', writes')
           /\ Evolves(object, now, writes, object', now', writes')
BY DEF World, Evolves

\* Clock, writers and whoever else deletes.
LEMMA WorldSteps ==
    ASSUME Inv
    PROVE  /\ Tick => Inv'
           /\ \A k \in Key, b \in Contents, w \in WriteArg : Set(k, b, w.ttl, w.created) => Inv'
           /\ \A k \in Key : Vanish(k) => Inv'
<1>1. World(setup, object, now, writes) /\ setup \in Setup /\ now \in Nat /\ writes \in Nat
  BY DEF Inv, World
<1>2. ASSUME Tick PROVE Inv'
  <2>1. World(setup, object', now', writes') /\ Evolves(object, now, writes, object', now', writes')
    BY <1>1, <1>2 DEF Tick, World, Evolves
  <2> QED
    BY <1>2, <2>1, Outlasts DEF Tick
<1>3. ASSUME NEW k \in Key, NEW b \in Contents, NEW w \in WriteArg, Set(k, b, w.ttl, w.created)
      PROVE  Inv'
  <2>1. World(setup, object', now', writes') /\ Evolves(object, now, writes, object', now', writes')
    BY <1>1, <1>3, WritesOne DEF Set
  <2> QED
    BY <1>3, <2>1, Outlasts DEF Set
<1>4. ASSUME NEW k \in Key, Vanish(k) PROVE Inv'
  <2>1. object' = [j \in Key |-> IF j \in {k} THEN Nothing ELSE object[j]] /\ {k} \in SUBSET Key
    BY <1>1, <1>4 DEF Vanish, World
  <2>2. UNCHANGED <<setup, now, writes>>
    BY <1>4 DEF Vanish
  <2>3. World(setup, object', now', writes') /\ Evolves(object, now, writes, object', now', writes')
    BY <1>1, <2>1, <2>2, RemovesSome
  <2> QED
    BY <1>4, <2>3, Outlasts DEF Vanish
<1> QED
  BY <1>2, <1>3, <1>4

-----------------------------------------------------------------------------
(***************************************************************************)
(* The steps of a call.                                                    *)
(***************************************************************************)

\* The call at another step, with another stat or body in hand.
Same(cl, d) ==
    /\ d \in CallType /\ d.op = cl.op /\ d.phase = cl.phase /\ d.key = cl.key /\ d.todo = cl.todo
    /\ d.listed = cl.listed /\ d.found = cl.found /\ d.present = cl.present /\ d.out = cl.out
    /\ d.began = cl.began /\ d.mark = cl.mark

\* It keeps its answers, its reports and what is left to visit.
LEMMA SameKeeps ==
    ASSUME NEW st, NEW ob, NEW nw, NEW wr, NEW cl, NEW d, Same(cl, d)
    PROVE  /\ Base(st, ob, nw, wr, cl) => Base(st, ob, nw, wr, d)
           /\ Ahead(st, ob, nw, wr, cl) => Ahead(st, ob, nw, wr, d)
           /\ \A left : Swept(st, ob, cl, left) => Swept(st, ob, d, left)
           /\ \A k : Stale(st, ob, nw, cl, k) <=> Stale(st, ob, nw, d, k)
           /\ \A k : Told(st, ob, wr, cl, k) <=> Told(st, ob, wr, d, k)
<1>1. /\ \A k : Stale(st, ob, nw, cl, k) <=> Stale(st, ob, nw, d, k)
      /\ \A k : Told(st, ob, wr, cl, k) <=> Told(st, ob, wr, d, k)
      /\ \A left : Swept(st, ob, cl, left) => Swept(st, ob, d, left)
  BY DEF Stale, Told, Swept, Same
<1>2. Base(st, ob, nw, wr, cl) => Base(st, ob, nw, wr, d)
  BY <1>1 DEF Base, Same
<1>3. Ahead(st, ob, nw, wr, cl) => Ahead(st, ob, nw, wr, d)
  BY <1>1 DEF Ahead, Same
<1> QED
  BY <1>1, <1>2, <1>3

\* What a call in the middle of its work, at one of its keys, has to go by.
Under(cl) ==
    /\ World(setup, object, now, writes) /\ cl.key \in Key
    /\ Base(setup, object, now, writes, cl) /\ Ahead(setup, object, now, writes, cl)
    /\ cl.op = "gc" /\ cl.phase = "sweep" => Swept(setup, object, cl, cl.todo \cup {cl.key})

\* A call that found its key expired deletes it, or goes on.
LEMMA HiddenOK ==
    ASSUME NEW cl, NEW stat \in Object, Under(cl), cl.op \in Collectors \cup {"batch_delete"},
           cl.op \in Collectors => Stale(setup, object, now, cl, cl.key),
           cl.op = "gc" => cl.phase = "sweep",
           NEW next \in Hidden(cl, stat)
    PROVE  CallOK(setup, object, now, writes, next)
<1>1. CASE Lazy
  <2>1. next = [cl EXCEPT !.step = "probe", !.saw = stat]
    BY <1>1 DEF Hidden
  <2>2. Same(cl, next) /\ next.step = "probe"
    BY <2>1 DEF Same, Under, Base, CallType, AllSteps, Keyed
  <2>3. /\ next.op = cl.op /\ next.key = cl.key /\ next.phase = cl.phase /\ next.todo = cl.todo
        /\ next.key \in Key
    BY <2>2 DEF Same, Under
  <2>4. /\ Base(setup, object, now, writes, next) /\ Ahead(setup, object, now, writes, next)
        /\ next.op \in Collectors => Stale(setup, object, now, next, next.key)
        /\ next.op = "gc" => Swept(setup, object, next, next.todo \cup {next.key})
    BY <2>2, <2>3, SameKeeps DEF Under
  <2>5. Now(setup, object, now, writes, next)
    BY <2>2, <2>3, <2>4 DEF Now
  <2>6. Gc(setup, object, now, next)
    BY <2>2, <2>3, <2>4 DEF Gc, Visiting, Collectors
  <2> QED
    BY <2>4, <2>5, <2>6 DEF CallOK
<1>2. CASE ~ Lazy
  <2>1. next \in Onward(cl) /\ Swept(setup, object, cl, cl.todo)
    BY <1>2 DEF Hidden, Lazy, Swept
  <2> QED
    BY <2>1, OnwardOK DEF Under
<1> QED
  BY <1>1, <1>2

\* Neither does a gc pass over what it reported: where its key holds no object,
\* or a live one, the reported object is gone.
LEMMA PassesOver ==
    ASSUME NEW cl, Under(cl), object[cl.key] = Nothing \/ ~ Expired(object[cl.key]),
           cl.op = "gc" /\ cl.phase = "sweep"
    PROVE  Swept(setup, object, cl, cl.todo)
<1>1. ASSUME NEW f \in cl.found, f.key = cl.key PROVE Gone(object, f)
  <2>1. Gone(object, f) \/ Dead(setup, object[f.key], now)
    BY DEF Under, Base
  <2> QED
    BY <1>1, <2>1 DEF Gone, Dead, Expired
<1> QED
  BY <1>1 DEF Under, Swept

\* A call that found no object goes on, and an update decides on that.
LEMMA MissingOK ==
    ASSUME NEW cl, Under(cl), object[cl.key] = Nothing, cl.saw = Nothing \/ cl.op # "update",
           NEW next \in Missing(cl)
    PROVE  CallOK(setup, object, now, writes, next)
<1>1. CASE cl.op = "update"
  <2>1. next = [cl EXCEPT !.step = "write"]
    BY <1>1 DEF Missing
  <2>2. Same(cl, next) /\ next.step = "write" /\ next.saw = cl.saw
    BY <2>1 DEF Same, Under, Base, CallType, AllSteps, Keyed
  <2>3. next.op = "update" /\ next.key \in Key /\ next.saw = Nothing
    BY <1>1, <2>2 DEF Same, Under
  <2>4. Base(setup, object, now, writes, next) /\ Ahead(setup, object, now, writes, next)
    BY <2>2, SameKeeps DEF Under
  <2>5. Now(setup, object, now, writes, next)
    BY <2>2, <2>3 DEF Now
  <2>6. Gc(setup, object, now, next)
    BY <2>3 DEF Gc
  <2> QED
    BY <2>4, <2>5, <2>6 DEF CallOK
<1>2. CASE cl.op # "update"
  <2>1. next \in Onward(cl)
    BY <1>2 DEF Missing
  <2>2. cl.op = "gc" /\ cl.phase = "sweep" => Swept(setup, object, cl, cl.todo)
    BY PassesOver
  <2> QED
    BY <2>1, <2>2, OnwardOK DEF Under
<1> QED
  BY <1>1, <1>2

\* What is live now was live when the call began.
LEMMA WasLive ==
    ASSUME NEW cl, Under(cl), NEW o \in Object, ~ Expired(o)
    PROVE  ~ Dead(setup, o, cl.began)
<1>1. setup \in Setup /\ now \in Nat /\ cl.began \in Nat /\ cl.began <= now
  BY DEF Under, World, Base, CallType
<1> QED
  BY <1>1, StaysDead DEF Expired, Dead

\* A call that found its key live goes on to its chunks, to its deletion, or on.
LEMMA AliveOK ==
    ASSUME NEW cl, Under(cl), object[cl.key] \in Object, ~ Expired(object[cl.key]),
           cl.op \in {"exists", "read_stream", "batch_delete", "gc"},
           cl.op = "gc" => cl.phase = "sweep" /\ Stale(setup, object, now, cl, cl.key),
           NEW next \in Alive(cl, object[cl.key])
    PROVE  CallOK(setup, object, now, writes, next)
<1>0. /\ cl \in CallType /\ cl.key \in Key
      /\ cl.phase = "sweep" => cl.op \in {"gc", "batch_delete"}
  BY DEF Under, Base, Ahead
<1>1. cl.op = "gc" /\ cl.phase = "sweep" => Swept(setup, object, cl, cl.todo)
  BY PassesOver
<1>2. CASE cl.op = "read_stream"
  <2>1. next = [cl EXCEPT !.step = "chunks"]
    BY <1>0, <1>2 DEF Alive
  <2>2. Same(cl, next) /\ next.step = "chunks"
    BY <1>0, <2>1 DEF Same, CallType, AllSteps, Keyed
  <2>3. /\ next.op = "read_stream" /\ next.key = cl.key /\ next.key \in Key
        /\ next.began = cl.began
    BY <1>2, <2>2 DEF Same, Under
  <2>4. Base(setup, object, now, writes, next) /\ Ahead(setup, object, now, writes, next)
    BY <2>2, SameKeeps DEF Under
  <2>5. ~ Dead(setup, object[cl.key], cl.began)
    BY WasLive
  <2>6. Now(setup, object, now, writes, next)
    BY <2>2, <2>3, <2>5 DEF Now
  <2>7. Gc(setup, object, now, next)
    BY <2>3 DEF Gc
  <2> QED
    BY <2>4, <2>6, <2>7 DEF CallOK
<1>3. CASE cl.op # "read_stream" /\ cl.phase = "sweep" /\ ~ Driver.bulk
  <2>1. next = [cl EXCEPT !.step = "probe"]
    BY <1>3 DEF Alive
  <2>2. Same(cl, next) /\ next.step = "probe"
    BY <1>0, <2>1 DEF Same, CallType, AllSteps, Keyed
  <2>3. /\ next.op = cl.op /\ next.key = cl.key /\ next.phase = "sweep" /\ next.todo = cl.todo
        /\ next.op \in {"gc", "batch_delete"} /\ next.key \in Key
    BY <1>0, <1>3, <2>2 DEF Same
  <2>4. /\ Base(setup, object, now, writes, next) /\ Ahead(setup, object, now, writes, next)
        /\ next.op = "gc" => /\ Stale(setup, object, now, next, next.key)
                             /\ Swept(setup, object, next, next.todo \cup {next.key})
    BY <1>3, <2>2, <2>3, SameKeeps DEF Under
  <2>5. Now(setup, object, now, writes, next)
    BY <2>2, <2>3, <2>4 DEF Now, Collectors
  <2>6. Gc(setup, object, now, next)
    BY <2>2, <2>3, <2>4 DEF Gc, Visiting
  <2> QED
    BY <2>4, <2>5, <2>6 DEF CallOK
<1>4. CASE cl.op # "read_stream" /\ cl.phase = "sweep" /\ Driver.bulk
  <2> DEFINE d == [cl EXCEPT !.present = @ \cup {cl.key}]
  <2>1. next \in Onward(d)
    BY <1>4 DEF Alive
  <2>2. /\ d \in CallType /\ d.op = cl.op /\ d.phase = cl.phase /\ d.todo = cl.todo
        /\ d.listed = cl.listed /\ d.found = cl.found /\ d.present = cl.present \cup {cl.key}
        /\ d.out = cl.out /\ d.began = cl.began /\ d.mark = cl.mark
    BY <1>0 DEF CallType
  <2> HIDE DEF d
  <2>3. Base(setup, object, now, writes, d)
    BY <2>2 DEF Under, Base, Stale
  <2>4. Ahead(setup, object, now, writes, d)
    BY <1>4, <2>2 DEF Under, Ahead, Stale
  <2>5. d.op = "gc" /\ d.phase = "sweep" => Swept(setup, object, d, d.todo)
    BY <1>1, <2>2 DEF Swept
  <2> QED
    BY <2>1, <2>3, <2>4, <2>5, OnwardOK DEF Under
<1>5. CASE cl.op # "read_stream" /\ cl.phase # "sweep"
  <2>1. next \in Onward(cl)
    BY <1>5 DEF Alive
  <2> QED
    BY <1>5, <2>1, OnwardOK DEF Under
<1> QED
  BY <1>2, <1>3, <1>4, <1>5

\* A body is answered, shown or hidden on the verdict of its own stat or of an
\* older one.
LEMMA JudgedOK ==
    ASSUME NEW cl, NEW stat \in Object, Under(cl), object[cl.key] \in Object,
           cl.op \in {"get", "update", "scan"}, stat.id <= writes,
           \/ object[cl.key] = stat
           \/ object[cl.key].id > cl.mark /\ object[cl.key].id > stat.id,
           NEW next \in Judged(cl, stat, object[cl.key])
    PROVE  CallOK(setup, object, now, writes, next)
<1> DEFINE o == object[cl.key]
<1>0. /\ cl \in CallType /\ cl.key \in Key /\ o.id \in Nat /\ stat.id \in Nat
      /\ cl.out \subseteq Object
  BY DEF Under, Base, CallType, Object
<1>1. CASE cl.op = "update"
  <2>1. next = [cl EXCEPT !.step = "write", !.saw = stat,
                          !.shown = IF Expired(stat) THEN Nothing ELSE o]
    BY <1>1 DEF Judged
  <2>2. /\ Same(cl, next) /\ next.step = "write" /\ next.saw = stat
        /\ next.shown \in {Nothing, o}
    BY <1>0, <2>1 DEF Same, CallType, AllSteps, Keyed
  <2>3. next.op = "update" /\ next.key = cl.key /\ next.key \in Key
    BY <1>0, <1>1, <2>2 DEF Same
  <2>4. Base(setup, object, now, writes, next) /\ Ahead(setup, object, now, writes, next)
    BY <2>2, SameKeeps DEF Under
  <2>5. next.shown # Nothing =>
           next.shown.id = next.saw.id \/ object[next.key].id # next.saw.id
    BY <1>0, <2>2, <2>3
  <2>6. Now(setup, object, now, writes, next)
    BY <2>2, <2>3, <2>5 DEF Now
  <2>7. Gc(setup, object, now, next)
    BY <2>3 DEF Gc
  <2> QED
    BY <2>4, <2>6, <2>7 DEF CallOK
<1>2. CASE cl.op # "update" /\ Expired(stat)
  <2>1. next \in Hidden(cl, stat)
    BY <1>2 DEF Judged
  <2>2. Stale(setup, object, now, cl, cl.key)
    BY <1>2 DEF Stale, Expired, Dead
  <2>3. cl.op \in Collectors /\ cl.op # "gc"
    BY <1>2 DEF Collectors
  <2> QED
    BY <2>1, <2>2, <2>3, HiddenOK
<1>3. CASE cl.op # "update" /\ ~ Expired(stat)
  <2> DEFINE d == [cl EXCEPT !.out = @ \cup {o}]
  <2>1. next \in Onward(d)
    BY <1>3 DEF Judged
  <2>2. /\ d \in CallType /\ d.op = cl.op /\ d.phase = cl.phase /\ d.todo = cl.todo
        /\ d.listed = cl.listed /\ d.found = cl.found /\ d.present = cl.present
        /\ d.out = cl.out \cup {o} /\ d.began = cl.began /\ d.mark = cl.mark
    BY <1>0 DEF CallType
  <2>3. o.id > cl.mark \/ ~ Dead(setup, o, cl.began)
    BY <1>3, WasLive
  <2> HIDE DEF d, o
  <2>4. Base(setup, object, now, writes, d)
    BY <2>2, <2>3 DEF Under, Base, Stale
  <2>5. Ahead(setup, object, now, writes, d)
    BY <2>2 DEF Under, Ahead, Stale, Told
  <2>6. d.op # "gc"
    BY <2>2
  <2> QED
    BY <2>1, <2>4, <2>5, <2>6, OnwardOK DEF Under
<1> QED
  BY <1>1, <1>2, <1>3

\* What the invariant says of a call at one of its keys.
LEMMA UnderWay ==
    ASSUME Inv, NEW c \in Client, call[c].step \in Keyed
    PROVE  /\ Under(call[c]) /\ call[c] \in CallType
           /\ Now(setup, object, now, writes, call[c]) /\ Gc(setup, object, now, call[c])
           /\ object[call[c].key] # Nothing =>
                object[call[c].key] \in Object /\ object[call[c].key].id <= writes
<1> DEFINE cl == call[c]
<1>1. cl.step \notin {"idle", "done", "failed"}
  BY DEF Keyed
<1>2. /\ World(setup, object, now, writes) /\ CallOK(setup, object, now, writes, cl)
  BY DEF Inv
<1>3. /\ cl.key \in Key /\ Base(setup, object, now, writes, cl) /\ Ahead(setup, object, now, writes, cl)
      /\ cl \in CallType /\ Now(setup, object, now, writes, cl) /\ Gc(setup, object, now, cl)
  BY <1>1, <1>2 DEF CallOK, Now, Base
<1>4. cl.op = "gc" /\ cl.phase = "sweep" => Swept(setup, object, cl, cl.todo \cup {cl.key})
  BY <1>1, <1>3 DEF Gc, Swept
<1>5. Under(cl)
  BY <1>2, <1>3, <1>4 DEF Under
<1> QED
  BY <1>2, <1>3, <1>5 DEF World

\* A call begins.
LEMMA BeginOK ==
    ASSUME Inv, NEW c \in Client, NEW op \in Op, Begin(c, op)
    PROVE  Inv'
<1>1. op \in AllOps /\ op # "none"
  BY ObjectAssumption DEF AllOps, Points, Listings
<1>2. PICK keys \in (IF op \in Listings THEN {{}}
                     ELSE IF op = "batch_delete" THEN (SUBSET Key) \ {{}} ELSE {{k} : k \in Key}),
           k \in Key \cup {Nothing} :
         /\ IF keys = {} THEN k = Nothing ELSE k \in keys
         /\ call' = [call EXCEPT ![c] =
                [NoCall EXCEPT !.op = op, !.step = FirstStep(op), !.key = k,
                               !.todo = keys \ {k}, !.began = now, !.mark = writes,
                               !.phase = CASE op \in Listings -> "list"
                                           [] op = "batch_delete" -> "sweep"
                                           [] OTHER -> "point"]]
  BY DEF Begin
<1> DEFINE phase == CASE op \in Listings -> "list" [] op = "batch_delete" -> "sweep" [] OTHER -> "point"
           cl == [NoCall EXCEPT !.op = op, !.step = FirstStep(op), !.key = k, !.todo = keys \ {k},
                                !.began = now, !.mark = writes, !.phase = phase]
<1>3. keys \in SUBSET Key /\ (op \in Listings <=> keys = {})
  <2>1. CASE op \in Listings
    BY <2>1
  <2>2. CASE op \notin Listings /\ op = "batch_delete"
    BY <2>2
  <2>3. CASE op \notin Listings /\ op # "batch_delete"
    <3>1. keys \in {{j} : j \in Key}
      BY <2>3
    <3>2. PICK j \in Key : keys = {j}
      BY <3>1
    <3> QED
      BY <2>3, <3>2
  <2> QED
    BY <2>1, <2>2, <2>3
<1>4. /\ phase \in {"point", "list", "sweep"} /\ (phase = "list" <=> op \in Listings)
      /\ (phase = "sweep" <=> op = "batch_delete")
      /\ phase = "point" => op \in Points
  BY <1>1 DEF Listings, AllOps
<1>5. /\ FirstStep(op) \in {"read", "head", "probe", "write", "list"}
      /\ FirstStep(op) = "read" => op \in {"get", "update"}
      /\ FirstStep(op) = "head" => op \in {"exists", "read_stream", "batch_delete"}
      /\ FirstStep(op) = "probe" => op = "delete"
      /\ FirstStep(op) = "write" => op = "insert"
      /\ FirstStep(op) = "list" <=> op \in Listings
  BY <1>1 DEF FirstStep, AllOps, Points, Listings
<1>6. now \in Nat /\ writes \in Nat /\ World(setup, object, now, writes)
  BY DEF Inv, World
<1> HIDE DEF phase
<1>7. /\ cl \in CallType /\ cl.op = op /\ cl.step = FirstStep(op) /\ cl.key = k /\ cl.todo = keys \ {k}
      /\ cl.began = now /\ cl.mark = writes /\ cl.phase = phase /\ cl.out = {} /\ cl.found = {}
      /\ cl.present = {} /\ cl.saw = Nothing /\ cl.shown = Nothing
  BY <1>1, <1>3, <1>4, <1>5, <1>6 DEF NoCall, CallType, AllSteps, Keyed
<1>8. call' = [call EXCEPT ![c] = cl]
  BY <1>2 DEF phase
<1> HIDE DEF cl
<1>9. Base(setup, object, now, writes, cl)
  BY <1>6, <1>7 DEF Base
<1>10. Ahead(setup, object, now, writes, cl)
  BY <1>2, <1>3, <1>4, <1>7 DEF Ahead, Listings
<1>11. Now(setup, object, now, writes, cl)
  <2>1. cl.step \in Keyed => cl.key \in Key
    BY <1>2, <1>3, <1>5, <1>7 DEF Keyed
  <2> QED
    BY <1>4, <1>5, <1>7, <2>1 DEF Now, Collectors
<1>12. Gc(setup, object, now, cl)
  BY <1>4, <1>5, <1>7 DEF Gc, Listings
<1>13. CallOK(setup, object, now, writes, cl)
  BY <1>9, <1>10, <1>11, <1>12 DEF CallOK
<1> QED
  BY <1>8, <1>13, SettlesHere DEF Begin

\* A head request.
LEMMA HeadStep ==
    ASSUME Inv, NEW c \in Client, Head(c)
    PROVE  Inv'
<1> DEFINE cl == call[c]
           o == object[cl.key]
<1>1. cl.step = "head"
  BY DEF Head, At
<1>2. /\ Under(cl) /\ Now(setup, object, now, writes, cl) /\ Gc(setup, object, now, cl)
      /\ o # Nothing => o \in Object
  BY <1>1, UnderWay DEF Keyed
<1>3. /\ cl.op \in {"exists", "read_stream", "batch_delete", "gc"}
      /\ cl.op = "gc" => cl.phase = "sweep" /\ Stale(setup, object, now, cl, cl.key)
  <2>1. cl.op \in {"exists", "read_stream", "batch_delete", "gc"}
    BY <1>1, <1>2 DEF Now
  <2>2. cl.phase \in {"point", "list", "sweep"} /\ (cl.phase = "point" => cl.op \in Points)
    BY <1>2 DEF Under, Base, CallType, Ahead
  <2>3. cl.op = "gc" => cl.phase = "sweep"
    BY <1>1, <1>2, <2>2 DEF Gc, Points
  <2> QED
    BY <1>1, <1>2, <2>1, <2>3 DEF Gc, Visiting
<1>4. PICK next \in (CASE o = Nothing -> Missing(cl)
                       [] o # Nothing /\ Expired(o) -> Hidden(cl, o)
                       [] OTHER -> Alive(cl, o)) : call' = [call EXCEPT ![c] = next]
  BY DEF Head, Continue
<1>5. Kept /\ UNCHANGED <<setup, now>>
  BY DEF Head, Continue
<1>6. CASE o = Nothing
  <2>1. next \in Missing(cl) /\ cl.op # "update"
    BY <1>3, <1>4, <1>6
  <2>2. CallOK(setup, object, now, writes, next)
    BY <1>2, <1>6, <2>1, MissingOK
  <2> QED
    BY <1>4, <1>5, <2>2, SettlesHere
<1>7. CASE o # Nothing /\ Expired(o)
  <2>1. next \in Hidden(cl, o) /\ o \in Object
    BY <1>2, <1>4, <1>7
  <2>2. cl.op \in Collectors \cup {"batch_delete"} /\ Stale(setup, object, now, cl, cl.key)
    BY <1>3, <1>7 DEF Collectors, Stale, Expired, Dead
  <2>3. CallOK(setup, object, now, writes, next)
    BY <1>2, <1>3, <2>1, <2>2, HiddenOK
  <2> QED
    BY <1>4, <1>5, <2>3, SettlesHere
<1>8. CASE o # Nothing /\ ~ Expired(o)
  <2>1. next \in Alive(cl, o) /\ o \in Object
    BY <1>2, <1>4, <1>8
  <2>2. CallOK(setup, object, now, writes, next)
    BY <1>2, <1>3, <1>8, <2>1, AliveOK
  <2> QED
    BY <1>4, <1>5, <2>2, SettlesHere
<1> QED
  BY <1>6, <1>7, <1>8

\* A read of a body, or of the stat before it.
LEMMA ReadStep ==
    ASSUME Inv, NEW c \in Client, Read(c)
    PROVE  Inv'
<1> DEFINE cl == call[c]
           o == object[cl.key]
<1>1. cl.step = "read"
  BY DEF Read, At
<1>2. /\ Under(cl) /\ Now(setup, object, now, writes, cl) /\ cl \in CallType
      /\ o # Nothing => o \in Object /\ o.id <= writes
  BY <1>1, UnderWay DEF Keyed
<1>3. cl.op \in {"get", "update", "scan"} /\ cl.saw = Nothing /\ cl.key \in Key
  BY <1>1, <1>2 DEF Now, Under
<1>4. PICK next \in (CASE o = Nothing -> Missing(cl)
                       [] o # Nothing /\ Driver.one_read -> Judged(cl, o, o)
                       [] OTHER -> {[cl EXCEPT !.step = "body", !.saw = o]}) :
           call' = [call EXCEPT ![c] = next]
  BY DEF Read, Continue
<1>5. Kept /\ UNCHANGED <<setup, now>>
  BY DEF Read, Continue
<1>6. CASE o = Nothing
  <2>1. next \in Missing(cl)
    BY <1>4, <1>6
  <2>2. CallOK(setup, object, now, writes, next)
    BY <1>2, <1>3, <1>6, <2>1, MissingOK
  <2> QED
    BY <1>4, <1>5, <2>2, SettlesHere
<1>7. CASE o # Nothing /\ Driver.one_read
  <2>1. next \in Judged(cl, o, o)
    BY <1>4, <1>7
  <2>2. CallOK(setup, object, now, writes, next)
    BY <1>2, <1>3, <1>7, <2>1, JudgedOK
  <2> QED
    BY <1>4, <1>5, <2>2, SettlesHere
<1>8. CASE o # Nothing /\ ~ Driver.one_read
  <2>1. next = [cl EXCEPT !.step = "body", !.saw = o] /\ o \in Object
    BY <1>2, <1>4, <1>8
  <2>2. Same(cl, next) /\ next.step = "body" /\ next.saw = o
    BY <1>2, <2>1 DEF Same, CallType, AllSteps, Keyed
  <2>3. next.op = cl.op /\ next.key = cl.key /\ next.op # "gc"
    BY <1>3, <2>2 DEF Same
  <2>4. Base(setup, object, now, writes, next) /\ Ahead(setup, object, now, writes, next)
    BY <1>2, <2>2, SameKeeps DEF Under
  <2>5. Now(setup, object, now, writes, next)
    BY <1>2, <1>3, <1>8, <2>1, <2>2, <2>3 DEF Now
  <2>6. Gc(setup, object, now, next)
    BY <2>3 DEF Gc
  <2>7. CallOK(setup, object, now, writes, next)
    BY <2>4, <2>5, <2>6 DEF CallOK
  <2> QED
    BY <1>4, <1>5, <2>7, SettlesHere
<1> QED
  BY <1>6, <1>7, <1>8

\* The body that follows a stat.
LEMMA ReadBodyStep ==
    ASSUME Inv, NEW c \in Client, ReadBody(c)
    PROVE  Inv'
<1> DEFINE cl == call[c]
           o == object[cl.key]
<1>1. cl.step = "body"
  BY DEF ReadBody, At
<1>2. /\ Under(cl) /\ Now(setup, object, now, writes, cl) /\ cl \in CallType
      /\ o # Nothing => o \in Object /\ o.id <= writes
  BY <1>1, UnderWay DEF Keyed
<1>3. /\ cl.op \in {"get", "update", "scan"} /\ cl.key \in Key
      /\ cl.saw \in Object /\ cl.saw.id <= writes
      /\ o = Nothing \/ o = cl.saw \/ (o.id > cl.mark /\ o.id > cl.saw.id)
  BY <1>1, <1>2 DEF Now, Under
<1>4. Kept
  BY DEF ReadBody
<1>5. CASE o # Nothing
  <2>1. PICK next \in Judged(cl, cl.saw, o) : call' = [call EXCEPT ![c] = next]
    BY <1>5 DEF ReadBody, Continue
  <2>2. CallOK(setup, object, now, writes, next)
    BY <1>2, <1>3, <1>5, <2>1, JudgedOK
  <2>3. UNCHANGED <<setup, now>>
    BY <1>5 DEF ReadBody, Continue
  <2> QED
    BY <1>4, <2>1, <2>2, <2>3, SettlesHere
<1>6. CASE o = Nothing
  <2> DEFINE d == [cl EXCEPT !.saw = Nothing]
  <2>1. PICK next \in (IF "download" \in Driver.raises THEN {Failed(cl)} ELSE Missing(d)) :
              call' = [call EXCEPT ![c] = next]
    BY <1>6 DEF ReadBody, Continue
  <2>2. UNCHANGED <<setup, now>>
    BY <1>6 DEF ReadBody, Continue
  <2>3. ASSUME next = Failed(cl) PROVE CallOK(setup, object, now, writes, next)
    BY <1>2, <2>3, EndedOK DEF Failed, Under
  <2>4. ASSUME next \in Missing(d) PROVE CallOK(setup, object, now, writes, next)
    <3>1. Same(cl, d) /\ d.saw = Nothing
      BY <1>2 DEF Same, CallType
    <3>2. d.key = cl.key /\ d.op = cl.op
      BY <3>1 DEF Same
    <3> HIDE DEF d
    <3>3. Under(d)
      BY <1>2, <1>3, <3>1, <3>2, SameKeeps DEF Under
    <3> QED
      BY <1>6, <2>4, <3>1, <3>2, <3>3, MissingOK
  <2>5. CallOK(setup, object, now, writes, next)
    BY <2>1, <2>3, <2>4
  <2> QED
    BY <1>4, <2>1, <2>2, <2>5, SettlesHere
<1> QED
  BY <1>5, <1>6

\* The chunks that follow a head request.
LEMMA ReadChunksStep ==
    ASSUME Inv, NEW c \in Client, ReadChunks(c)
    PROVE  Inv'
<1> DEFINE cl == call[c]
           o == object[cl.key]
           d == [cl EXCEPT !.out = {o} \ {Nothing}]
<1>1. cl.step = "chunks"
  BY DEF ReadChunks, At
<1>2. /\ Under(cl) /\ Now(setup, object, now, writes, cl) /\ cl \in CallType
      /\ o # Nothing => o \in Object /\ o.id <= writes
  BY <1>1, UnderWay DEF Keyed
<1>3. /\ cl.op = "read_stream" /\ (o = Nothing \/ o.id > cl.mark \/ ~ Dead(setup, o, cl.began))
      /\ cl.found = {}
  BY <1>1, <1>2 DEF Now, Under, Base
<1>4. /\ d \in CallType /\ d.op = cl.op /\ d.found = {} /\ d.out = {o} \ {Nothing}
      /\ d.began = cl.began /\ d.mark = cl.mark
  BY <1>2, <1>3 DEF CallType
<1>5. call' = [call EXCEPT ![c] = Done(d)] /\ Kept /\ UNCHANGED <<setup, now>>
  BY DEF ReadChunks, Continue
<1> HIDE DEF d
<1>6. Base(setup, object, now, writes, d)
  BY <1>2, <1>3, <1>4 DEF Base, Under
<1>7. CallOK(setup, object, now, writes, Done(d))
  BY <1>3, <1>4, <1>6, EndedOK DEF Done
<1> QED
  BY <1>5, <1>7, SettlesHere

\* The look before a deletion.
LEMMA ProbeStep ==
    ASSUME Inv, NEW c \in Client, Probe(c)
    PROVE  Inv'
<1> DEFINE cl == call[c]
           o == object[cl.key]
<1>1. cl.step = "probe"
  BY DEF Probe, At
<1>2. /\ Under(cl) /\ Now(setup, object, now, writes, cl) /\ cl \in CallType
      /\ Gc(setup, object, now, cl)
  BY <1>1, UnderWay DEF Keyed
<1>3. /\ cl.op \in Collectors \cup {"delete", "batch_delete"} /\ cl.key \in Key
      /\ cl.op \in Collectors => Stale(setup, object, now, cl, cl.key)
  BY <1>1, <1>2 DEF Now, Under
<1>4. PICK next \in (IF o # Nothing \/ ~ Driver.probes
                     THEN {[cl EXCEPT !.step = "remove"]} ELSE Onward(cl)) :
           call' = [call EXCEPT ![c] = next]
  BY DEF Probe, Continue
<1>5. Kept /\ UNCHANGED <<setup, now>>
  BY DEF Probe, Continue
<1>6. CASE o # Nothing \/ ~ Driver.probes
  <2>1. next = [cl EXCEPT !.step = "remove"]
    BY <1>4, <1>6
  <2>2. Same(cl, next) /\ next.step = "remove"
    BY <1>2, <2>1 DEF Same, CallType, AllSteps, Keyed
  <2>3. next.op = cl.op /\ next.key = cl.key /\ next.phase = cl.phase /\ next.todo = cl.todo
    BY <2>2 DEF Same
  <2>4. /\ Base(setup, object, now, writes, next) /\ Ahead(setup, object, now, writes, next)
        /\ next.op \in Collectors => Stale(setup, object, now, next, next.key)
        /\ next.op = "gc" /\ next.phase = "sweep" =>
             Swept(setup, object, next, next.todo \cup {next.key})
    BY <1>2, <1>3, <2>2, <2>3, SameKeeps DEF Under
  <2>5. Now(setup, object, now, writes, next)
    BY <1>3, <2>2, <2>3, <2>4 DEF Now
  <2>6. Gc(setup, object, now, next)
    BY <1>1, <1>2, <2>2, <2>3, <2>4 DEF Gc, Visiting, Collectors
  <2>7. CallOK(setup, object, now, writes, next)
    BY <2>4, <2>5, <2>6 DEF CallOK
  <2> QED
    BY <1>4, <1>5, <2>7, SettlesHere
<1>7. CASE ~ (o # Nothing \/ ~ Driver.probes)
  <2>1. next \in Onward(cl) /\ o = Nothing
    BY <1>4, <1>7
  <2>2. cl.op = "gc" /\ cl.phase = "sweep" => Swept(setup, object, cl, cl.todo)
    BY <1>2, <2>1, PassesOver
  <2>3. CallOK(setup, object, now, writes, next)
    BY <1>2, <2>1, <2>2, OnwardOK DEF Under
  <2> QED
    BY <1>4, <1>5, <2>3, SettlesHere
<1> QED
  BY <1>6, <1>7

\* The unconditional deletion.
LEMMA RemoveStep ==
    ASSUME Inv, NEW c \in Client, Remove(c)
    PROVE  Inv'
<1> DEFINE cl == call[c]
<1>1. cl.step = "remove"
  BY DEF Remove, At
<1>2. Under(cl) /\ Gc(setup, object, now, cl) /\ cl.key \in Key
  BY <1>1, UnderWay DEF Keyed, Under
<1>3. UNCHANGED <<setup, now, writes>>
  BY DEF Remove, Continue
<1>4. object' = [k \in Key |-> IF k \in {cl.key} THEN Nothing ELSE object[k]] /\ {cl.key} \in SUBSET Key
  BY <1>2 DEF Remove, Under, World
<1>5. /\ World(setup, object', now', writes')
      /\ Evolves(object, now, writes, object', now', writes')
  BY <1>2, <1>3, <1>4, RemovesSome DEF Under
<1>6. CallOK(setup, object', now', writes', cl)
  BY <1>2, <1>5, StaysOK DEF Inv, Under
<1>7. Base(setup, object', now', writes', cl) /\ Ahead(setup, object', now', writes', cl)
  BY <1>1, <1>6 DEF CallOK
<1>8. ASSUME cl.op = "gc", cl.phase = "sweep" PROVE Swept(setup, object', cl, cl.todo)
  <2>1. Swept(setup, object', cl, cl.todo \cup {cl.key})
    BY <1>1, <1>6, <1>8 DEF CallOK, Gc, Visiting
  <2>2. \A f \in cl.found : f.key = cl.key => Gone(object', f)
    BY <1>2, <1>4 DEF Gone
  <2> QED
    BY <2>1, <2>2 DEF Swept
<1>9. PICK next \in (IF object[cl.key] = Nothing /\ "delete" \in Driver.raises
                     THEN {Failed(cl)} ELSE Onward(cl)) : call' = [call EXCEPT ![c] = next]
  BY DEF Remove, Continue
<1>10. next \in Onward(cl) => CallOK(setup, object', now', writes', next)
  BY <1>5, <1>7, <1>8, OnwardOK
<1>11. next = Failed(cl) => CallOK(setup, object', now', writes', next)
  BY <1>7, EndedOK DEF Failed
<1>12. CallOK(setup, object', now', writes', next)
  BY <1>9, <1>10, <1>11
<1> QED
  BY <1>3, <1>5, <1>9, <1>12, Settles

\* The deletion of a chunk.
LEMMA BulkDeleteStep ==
    ASSUME Inv, NEW c \in Client, BulkDelete(c)
    PROVE  Inv'
<1> DEFINE cl == call[c]
<1>1. cl.step = "bulk"
  BY DEF BulkDelete, At
<1>2. /\ World(setup, object, now, writes) /\ CallOK(setup, object, now, writes, cl)
      /\ cl.present \in SUBSET Key
  BY DEF Inv, CallType
<1>3. UNCHANGED <<setup, now, writes>> /\ call' = [call EXCEPT ![c] = Done(cl)]
  BY DEF BulkDelete, Continue
<1>4. object' = [k \in Key |-> IF k \in cl.present THEN Nothing ELSE object[k]]
  BY DEF BulkDelete
<1>5. /\ World(setup, object', now', writes')
      /\ Evolves(object, now, writes, object', now', writes')
  BY <1>2, <1>3, <1>4, RemovesSome
<1>6. CallOK(setup, object', now', writes', cl)
  BY <1>2, <1>5, StaysOK
<1>7. cl.op = "gc" => Swept(setup, object', cl, {})
  BY <1>1, <1>6 DEF CallOK, Gc, Now, Visiting
<1>8. CallOK(setup, object', now', writes', Done(cl))
  BY <1>6, <1>7, EndedOK DEF Done, CallOK
<1> QED
  BY <1>3, <1>5, <1>8, Settles

\* The listing.
LEMMA ListStep ==
    ASSUME Inv, NEW c \in Client, List(c)
    PROVE  Inv'
<1> DEFINE cl == call[c]
           there == {k \in Key : object[k] # Nothing}
           rows == IF StatsRows THEN Nothing ELSE [k \in there |-> Listed(object[k])]
           d == [cl EXCEPT !.todo = there, !.listed = rows]
<1>1. cl.step = "list"
  BY DEF List, At
<1>2. World(setup, object, now, writes) /\ CallOK(setup, object, now, writes, cl) /\ cl \in CallType
  BY DEF Inv
<1>3. /\ Base(setup, object, now, writes, cl) /\ cl.phase = "list" /\ cl.op \in Listings
      /\ cl.present = {}
  BY <1>1, <1>2 DEF CallOK, Now, Ahead
<1>4. /\ setup \in Setup /\ now \in Nat
      /\ \A k \in there : object[k] \in Object /\ object[k].id <= writes
  BY <1>2 DEF World
<1>5. RowStats(setup) <=> StatsRows
  BY DEF RowStats, StatsRows, Driver
<1>6. ASSUME ~ StatsRows, NEW k \in there
      PROVE  /\ Listed(object[k]) = Row1(setup, object[k]) /\ Listed(object[k]) \in Object
             /\ Listed(object[k]).id <= writes
  <2>1. Listed(object[k]) = Row1(setup, object[k])
    BY DEF Listed, Row1, Driver
  <2> QED
    BY <1>4, <1>5, <1>6, <2>1, ListingTells
<1>7. rows \in Rows \cup {Nothing}
  <2>1. CASE StatsRows
    BY <2>1
  <2>2. CASE ~ StatsRows
    <3>1. rows \in [there -> Object] /\ there \in SUBSET Key
      BY <1>6, <2>2
    <3> QED
      BY <3>1 DEF Rows
  <2> QED
    BY <2>1, <2>2
<1>8. ASSUME ~ StatsRows, NEW k \in there
      PROVE  /\ k \in DOMAIN rows /\ rows[k] \in Object /\ rows[k].id <= writes
             /\ rows[k] = Row1(setup, object[k])
  BY <1>6, <1>8
<1>9. there \in SUBSET Key
  OBVIOUS
<1> HIDE DEF rows, there
<1>10. /\ d \in CallType /\ d.op = cl.op /\ d.phase = cl.phase /\ d.todo = there
       /\ d.listed = rows /\ d.found = cl.found /\ d.present = cl.present
       /\ d.out = cl.out /\ d.began = cl.began /\ d.mark = cl.mark
  BY <1>2, <1>7, <1>9 DEF CallType
<1>11. PICK next \in Onward(d) : call' = [call EXCEPT ![c] = next]
  BY DEF List, Continue, rows, there
<1> HIDE DEF d
<1>12. Base(setup, object, now, writes, d)
  BY <1>3, <1>10 DEF Base, Stale
<1>13. Ahead(setup, object, now, writes, d)
  BY <1>3, <1>5, <1>8, <1>10 DEF Ahead, Told
<1>14. CallOK(setup, object, now, writes, next)
  BY <1>2, <1>3, <1>10, <1>11, <1>12, <1>13, OnwardOK
<1> QED
  BY <1>11, <1>14, SettlesHere DEF List, Continue

\* A row of a scan or of the expired keys.
LEMMA RowStep ==
    ASSUME Inv, NEW c \in Client, Row(c)
    PROVE  Inv'
<1> DEFINE cl == call[c]
           stat == IF StatsRows THEN object[cl.key] ELSE cl.listed[cl.key]
           f == [key |-> cl.key, id |-> stat.id]
           d == [cl EXCEPT !.found = @ \cup {f}]
<1>1. cl.step = "row"
  BY DEF Row, At
<1>2. /\ Under(cl) /\ Now(setup, object, now, writes, cl) /\ cl \in CallType
      /\ object[cl.key] # Nothing => object[cl.key] \in Object /\ object[cl.key].id <= writes
  BY <1>1, UnderWay DEF Keyed
<1>3. /\ cl.phase = "list" /\ cl.saw = Nothing /\ cl.key \in Key /\ cl.op \in Listings
      /\ ~ StatsRows => Told(setup, object, writes, cl, cl.key)
  BY <1>1, <1>2 DEF Now, Under, Ahead, RowStats, StatsRows, Driver
<1>4. setup \in Setup /\ now \in Nat
  BY <1>2 DEF Under, World
<1>5. stat # Nothing => stat \in Object /\ stat.id <= writes
  BY <1>2, <1>3 DEF Told
<1>6. ASSUME stat # Nothing, Expired(stat)
      PROVE  /\ Stale(setup, object, now, cl, cl.key)
             /\ Gone(object, f) \/ Dead(setup, object[cl.key], now)
  <2>1. CASE StatsRows
    BY <1>6, <2>1 DEF Stale, Gone, Expired, Dead
  <2>2. CASE ~ StatsRows
    <3>1. stat = cl.listed[cl.key] /\ f.key = cl.key /\ f.id = stat.id
      BY <2>2
    <3>2. CASE object[cl.key] = Nothing
      BY <3>1, <3>2 DEF Stale, Gone
    <3>3. CASE object[cl.key] # Nothing /\ object[cl.key].id > cl.mark /\ object[cl.key].id > stat.id
      <4>1. object[cl.key].id \in Nat /\ stat.id \in Nat
        BY <1>2, <1>5, <1>6, <3>3 DEF Object
      <4> QED
        BY <3>1, <3>3, <4>1 DEF Stale, Gone
    <3>4. CASE object[cl.key] # Nothing /\ stat = Row1(setup, object[cl.key])
      <4>1. ~ RowStats(setup)
        BY <2>2 DEF RowStats, StatsRows, Driver
      <4>2. Dead(setup, stat, now)
        BY <1>6 DEF Expired, Dead
      <4>3. Dead(setup, object[cl.key], now)
        BY <1>2, <1>4, <3>4, <4>1, <4>2, ListingTells
      <4> QED
        BY <4>3 DEF Stale
    <3> QED
      BY <1>3, <2>2, <3>1, <3>2, <3>3, <3>4 DEF Told
  <2> QED
    BY <2>1, <2>2
<1>7. PICK next \in (CASE stat = Nothing -> Onward(cl)
                       [] stat # Nothing /\ Expired(stat) ->
                            IF cl.op = "gc" THEN Onward(d) ELSE Hidden(cl, stat)
                       [] OTHER -> IF cl.op = "scan" THEN {[cl EXCEPT !.step = "read"]}
                                   ELSE Onward(cl)) : call' = [call EXCEPT ![c] = next]
  BY DEF Row, Continue
<1>8. Kept /\ UNCHANGED <<setup, now>>
  BY DEF Row, Continue
<1> HIDE DEF stat
<1>9. next \in Onward(cl) => CallOK(setup, object, now, writes, next)
  BY <1>2, <1>3, OnwardOK DEF Under
<1>10. ASSUME stat # Nothing, Expired(stat), cl.op = "gc", next \in Onward(d)
       PROVE  CallOK(setup, object, now, writes, next)
  <2>1. f \in [key : Key, id : Nat] /\ f.key = cl.key /\ f.id <= writes
    BY <1>3, <1>5, <1>10 DEF Object
  <2> HIDE DEF f
  <2>2. /\ d \in CallType /\ d.op = cl.op /\ d.phase = cl.phase /\ d.todo = cl.todo
        /\ d.listed = cl.listed /\ d.found = cl.found \cup {f} /\ d.present = cl.present
        /\ d.out = cl.out /\ d.began = cl.began /\ d.mark = cl.mark
    BY <1>2, <2>1 DEF CallType
  <2> HIDE DEF d
  <2>3. Stale(setup, object, now, cl, f.key) /\ (Gone(object, f) \/ Dead(setup, object[f.key], now))
    BY <1>6, <1>10, <2>1
  <2>4. Base(setup, object, now, writes, d)
    BY <1>2, <1>10, <2>1, <2>2, <2>3 DEF Base, Under, Stale
  <2>5. Ahead(setup, object, now, writes, d)
    BY <1>2, <2>2 DEF Under, Ahead, Stale, Told
  <2> QED
    BY <1>2, <1>3, <1>10, <2>2, <2>4, <2>5, OnwardOK DEF Under
<1>11. ASSUME stat # Nothing, Expired(stat), cl.op # "gc", next \in Hidden(cl, stat)
       PROVE  CallOK(setup, object, now, writes, next)
  <2>1. cl.op \in Collectors
    BY <1>3 DEF Listings, Collectors
  <2> QED
    BY <1>2, <1>5, <1>6, <1>11, <2>1, HiddenOK
<1>12. ASSUME cl.op = "scan", next = [cl EXCEPT !.step = "read"]
       PROVE  CallOK(setup, object, now, writes, next)
  <2>1. Same(cl, next) /\ next.step = "read" /\ next.saw = Nothing
    BY <1>2, <1>3, <1>12 DEF Same, CallType, AllSteps, Keyed
  <2>2. next.op = "scan" /\ next.key \in Key
    BY <1>3, <1>12, <2>1 DEF Same
  <2>3. Base(setup, object, now, writes, next) /\ Ahead(setup, object, now, writes, next)
    BY <1>2, <2>1, SameKeeps DEF Under
  <2>4. Now(setup, object, now, writes, next)
    BY <2>1, <2>2 DEF Now
  <2>5. Gc(setup, object, now, next)
    BY <2>2 DEF Gc
  <2> QED
    BY <2>3, <2>4, <2>5 DEF CallOK
<1> HIDE DEF d
<1>13. CallOK(setup, object, now, writes, next)
  BY <1>7, <1>9, <1>10, <1>11, <1>12
<1> QED
  BY <1>7, <1>8, <1>13, SettlesHere

\* The conditional write of an insert or an update.
LEMMA WriteIfStep ==
    ASSUME Inv, NEW c \in Client, NEW b \in Contents, NEW w \in WriteArg,
           WriteIf(c, b, w.ttl, w.created)
    PROVE  Inv'
<1> DEFINE cl == call[c]
<1>1. cl.step = "write"
  BY DEF WriteIf, At
<1>2. Under(cl) /\ Now(setup, object, now, writes, cl) /\ cl.key \in Key
  BY <1>1, UnderWay DEF Keyed, Under
<1>3. UNCHANGED <<setup, now>> /\ call' = [call EXCEPT ![c] = Done(cl)]
  BY DEF WriteIf, Continue
<1>4. /\ World(setup, object', now', writes')
      /\ Evolves(object, now, writes, object', now', writes')
  BY <1>2, <1>3, WritesOne DEF WriteIf, Under
<1>5. Base(setup, object', now', writes', cl)
  BY <1>4, StaysOK DEF Inv, CallOK
<1>6. cl.op # "gc"
  BY <1>1, <1>2 DEF Now
<1>7. CallOK(setup, object', now', writes', Done(cl))
  BY <1>5, <1>6, EndedOK DEF Done
<1> QED
  BY <1>3, <1>4, <1>7, Settles

\* The conditional deletion of an update.
LEMMA DeleteIfStep ==
    ASSUME Inv, NEW c \in Client, DeleteIf(c)
    PROVE  Inv'
<1> DEFINE cl == call[c]
<1>1. cl.step = "write" /\ cl.op = "update"
  BY DEF DeleteIf, At
<1>2. Under(cl) /\ cl.key \in Key
  BY <1>1, UnderWay DEF Keyed, Under
<1>3. UNCHANGED <<setup, now, writes>> /\ call' = [call EXCEPT ![c] = Done(cl)]
  BY DEF DeleteIf, Continue
<1>4. object' = [k \in Key |-> IF k \in {cl.key} THEN Nothing ELSE object[k]] /\ {cl.key} \in SUBSET Key
  BY <1>2 DEF DeleteIf, Under, World
<1>5. /\ World(setup, object', now', writes')
      /\ Evolves(object, now, writes, object', now', writes')
  BY <1>2, <1>3, <1>4, RemovesSome DEF Under
<1>6. Base(setup, object', now', writes', cl)
  BY <1>5, StaysOK DEF Inv, CallOK
<1>7. CallOK(setup, object', now', writes', Done(cl))
  BY <1>1, <1>6, EndedOK DEF Done
<1> QED
  BY <1>3, <1>5, <1>7, Settles

\* An update that writes nothing, and a call that returns.
LEMMA EndSteps ==
    ASSUME Inv, NEW c \in Client, WriteNothing(c) \/ Return(c)
    PROVE  Inv'
<1>1. World(setup, object, now, writes) /\ Base(setup, object, now, writes, call[c])
  BY DEF Inv, CallOK
<1>2. CASE WriteNothing(c)
  <2>1. call[c].step = "write" /\ Now(setup, object, now, writes, call[c])
    BY <1>2 DEF WriteNothing, At, Inv, CallOK
  <2>2. call[c].op # "gc"
    BY <2>1 DEF Now
  <2>3. CallOK(setup, object, now, writes, Done(call[c]))
    BY <1>1, <2>2, EndedOK DEF Done
  <2>4. /\ call' = [call EXCEPT ![c] = Done(call[c])] /\ Kept /\ UNCHANGED <<setup, now>>
    BY <1>2 DEF WriteNothing, Continue
  <2> QED
    BY <2>3, <2>4, SettlesHere
<1>3. CASE Return(c)
  <2>1. CallOK(setup, object, now, writes, NoCall)
    BY <1>1, IdleOK
  <2>2. call' = [call EXCEPT ![c] = NoCall] /\ Kept /\ UNCHANGED <<setup, now>>
    BY <1>3 DEF Return, Continue
  <2> QED
    BY <2>1, <2>2, SettlesHere
<1> QED
  BY <1>2, <1>3

-----------------------------------------------------------------------------
(***************************************************************************)
(* The invariant of the specification, and what follows from it.           *)
(***************************************************************************)

\* It holds of an empty collection.
LEMMA InitInv == Init => Inv
<1> SUFFICES ASSUME Init PROVE Inv
  OBVIOUS
<1>1. World(setup, object, now, writes)
  BY DEF Init, World
<1>2. NoCall \in CallType /\ CallOK(setup, object, now, writes, NoCall)
  BY <1>1, IdleOK
<1> QED
  BY <1>1, <1>2 DEF Init, Inv

\* Every step keeps it.
LEMMA NextInv == Inv /\ [Next]_vars => Inv'
<1> SUFFICES ASSUME Inv, [Next]_vars PROVE Inv'
  OBVIOUS
<1>1. CASE Tick
  BY <1>1, WorldSteps
<1>2. CASE \E k \in Key, b \in Contents, w \in WriteArg : Set(k, b, w.ttl, w.created)
  BY <1>2, WorldSteps
<1>3. CASE \E k \in Key : Vanish(k)
  BY <1>3, WorldSteps
<1>4. CASE \E c \in Client, op \in Op : Begin(c, op)
  BY <1>4, BeginOK
<1>5. ASSUME NEW c \in Client, Step(c) PROVE Inv'
  <2>1. \/ Head(c) \/ Read(c) \/ ReadBody(c) \/ ReadChunks(c) \/ Probe(c) \/ Remove(c)
        \/ BulkDelete(c) \/ List(c) \/ Row(c) \/ DeleteIf(c) \/ WriteNothing(c) \/ Return(c)
        \/ \E b \in Contents, w \in WriteArg : WriteIf(c, b, w.ttl, w.created)
    BY <1>5 DEF Step
  <2> QED
    BY <2>1, HeadStep, ReadStep, ReadBodyStep, ReadChunksStep, ProbeStep, RemoveStep,
       BulkDeleteStep, ListStep, RowStep, DeleteIfStep, EndSteps, WriteIfStep
<1>6. CASE UNCHANGED vars
  BY <1>6 DEF vars, Inv
<1> QED
  BY <1>1, <1>2, <1>3, <1>4, <1>5, <1>6 DEF Next

\* A call moves by its own steps only.
LEMMA OwnSteps ==
    ASSUME Inv, [Next]_vars, NEW c \in Client, call'[c] # call[c]
    PROVE  (\E op \in Op : Begin(c, op)) \/ Step(c)
<1>1. call \in [Client -> CallType]
  BY DEF Inv
<1>2. ~ UNCHANGED call
  OBVIOUS
<1>3. \/ \E d \in Client, op \in Op : Begin(d, op)
      \/ \E d \in Client : Step(d)
  BY <1>2 DEF Next, vars, Tick, Set, Vanish
<1>4. ASSUME NEW d \in Client, NEW op \in Op, Begin(d, op) PROVE d = c
  BY <1>1, <1>4 DEF Begin
<1>5. ASSUME NEW d \in Client, Step(d) PROVE d = c
  <2>1. \E next : call' = [call EXCEPT ![d] = next]
    BY <1>5 DEF Step, Continue, Head, Read, ReadBody, ReadChunks, Probe, Remove, BulkDelete, List,
                Row, DeleteIf, WriteNothing, Return, WriteIf
  <2> QED
    BY <1>1, <2>1
<1> QED
  BY <1>3, <1>4, <1>5

\* The invariant holds throughout.
THEOREM Holds == Spec => []Inv
BY InitInv, NextInv, PTL DEF Spec

\* What is stored expires exactly when its writer asked, and stat() reports that
\* moment, on every medium and for every TTL and clock a source carries.
THEOREM AlwaysKeptAsAsked == Spec => []KeptAsAsked
<1>1. Inv => KeptAsAsked
  <2> SUFFICES ASSUME Inv PROVE KeptAsAsked
    OBVIOUS
  <2>1. /\ setup \in Setup /\ now \in Nat /\ writes \in Nat /\ object \in [Key -> Object \cup {Nothing}]
        /\ \A k \in Key : object[k] # Nothing => object[k] \in Object /\ Faithful(setup, object[k])
    BY DEF Inv, World
  <2>2. TypeOK
    <3>1. \A c \in Client : call[c].key \in Key \cup {Nothing} /\ call[c].todo \subseteq Key
      BY DEF Inv, CallType
    <3> QED
      BY <2>1, <3>1 DEF TypeOK
  <2>3. ExpiresAsAsked
    BY <2>1 DEF ExpiresAsAsked, Faithful, Dead, Expired
  <2>4. StatTellsTheExpiry
    <3> SUFFICES ASSUME NEW k \in Key, object[k] # Nothing, NEW t \in 0..MaxTime
                 PROVE  IsExpired(setup.source, object[k], setup.ttl, t) <=>
                          /\ ReportedExpiry(setup.source, object[k], setup.ttl) # Never
                          /\ t >= ReportedExpiry(setup.source, object[k], setup.ttl)
      BY DEF StatTellsTheExpiry
    <3>1. t \in Nat /\ object[k] \in Object
      BY <2>1, ObjectAssumption
    <3> QED
      BY <2>1, <3>1, TellsExpiry DEF Dead
  <2> QED
    BY <2>2, <2>3, <2>4 DEF KeptAsAsked
<1> QED
  BY <1>1, Holds, PTL

\* No read answers with an object that had expired when the call began.
THEOREM NeverAnswersTheExpired == Spec => []NoExpiredAnswer
<1>1. Inv => NoExpiredAnswer
  BY DEF Inv, CallOK, Base, NoExpiredAnswer, Dead
<1> QED
  BY <1>1, Holds, PTL

\* With lazy deletion a gc that succeeds has removed every object it reports.
THEOREM GcAlwaysRemovesWhatItReports == Spec => []GcRemovesWhatItReports
<1>1. Inv => GcRemovesWhatItReports
  <2> SUFFICES ASSUME Inv, NEW c \in Client, Lazy, call[c].op = "gc", At(c, "done"),
                      NEW f \in call[c].found
               PROVE  object[f.key] = Nothing \/ object[f.key].id # f.id
    BY DEF GcRemovesWhatItReports
  <2>1. Swept(setup, object, call[c], {})
    BY DEF Inv, CallOK, Gc, At
  <2> QED
    BY <2>1 DEF Swept, Gone, Lazy
<1> QED
  BY <1>1, Holds, PTL

\* Lazy deletion and gc remove only what has expired or was written since the
\* call began.
THEOREM AlwaysCollectsOnlyTheExpired == Spec => CollectsOnlyTheExpired
<1> DEFINE A == \A c \in Client, k \in Key :
                  /\ call[c].op \notin {"none", "delete", "batch_delete", "update", "insert"}
                  /\ call'[c] # call[c]
                  /\ object[k] # Nothing /\ object'[k] = Nothing
                  => Expired(object[k]) \/ object[k].id > call[c].mark
<1>1. Inv /\ [Next]_vars => A
  <2> SUFFICES ASSUME Inv, [Next]_vars, NEW c \in Client, NEW k \in Key,
                      call[c].op \notin {"none", "delete", "batch_delete", "update", "insert"},
                      call'[c] # call[c], object[k] # Nothing, object'[k] = Nothing
               PROVE  Stale(setup, object, now, call[c], k)
    BY DEF Stale, Expired, Dead
  <2>1. /\ CallOK(setup, object, now, writes, call[c]) /\ object \in [Key -> Object \cup {Nothing}]
    BY DEF Inv, World
  <2>2. object' # object
    OBVIOUS
  <2>3. Step(c) /\ ~ Kept
    BY <2>2, OwnSteps DEF Begin, Kept
  <2>4. Remove(c) \/ BulkDelete(c) \/ DeleteIf(c) \/ (call[c].step = "write" /\ ~ Kept)
    BY <2>3 DEF Step, Head, Read, ReadBody, ReadChunks, Probe, List, Row, WriteNothing, Return,
                WriteIf, At
  <2>5. call[c].step # "write"
    BY <2>1 DEF CallOK, Now
  <2>6. CASE Remove(c)
    <3>1. call[c].step = "remove" /\ k = call[c].key
      BY <2>1, <2>6 DEF Remove, At
    <3>2. call[c].op \in Collectors
      BY <2>1, <3>1 DEF CallOK, Now
    <3> QED
      BY <2>1, <3>1, <3>2 DEF CallOK, Now
  <2>7. CASE BulkDelete(c)
    <3>1. call[c].step = "bulk" /\ k \in call[c].present
      BY <2>7 DEF BulkDelete, At
    <3>2. call[c].phase = "sweep" /\ Ahead(setup, object, now, writes, call[c])
      BY <2>1, <3>1 DEF CallOK, Now
    <3> QED
      BY <3>1, <3>2 DEF Ahead
  <2> QED
    BY <2>4, <2>5, <2>6, <2>7 DEF DeleteIf, At
<1> QED
  BY <1>1, Holds, PTL DEF Spec, CollectsOnlyTheExpired

\* An update replaces or removes the object whose body it was shown; on S3, one
\* of the same contents.
THEOREM UpdateAlwaysReplacesWhatItSaw == Spec => UpdateReplacesWhatItSaw
<1> DEFINE A == \A c \in Client :
                  /\ call[c].op = "update" /\ At(c, "write")
                  /\ call'[c] # call[c]
                  /\ object[call[c].key] # Nothing /\ object' # object
                  => LET o == object[call[c].key]
                     IN IF Driver.digest THEN o.body = call[c].saw.body
                        ELSE /\ o.id = call[c].saw.id
                             /\ call[c].shown # Nothing => call[c].shown.id = o.id
<1>1. Inv /\ [Next]_vars => A
  <2> SUFFICES ASSUME Inv, [Next]_vars, NEW c \in Client, call[c].op = "update", At(c, "write"),
                      call'[c] # call[c], object[call[c].key] # Nothing, object' # object
               PROVE  IF Driver.digest THEN object[call[c].key].body = call[c].saw.body
                      ELSE /\ object[call[c].key].id = call[c].saw.id
                           /\ call[c].shown # Nothing => call[c].shown.id = object[call[c].key].id
    OBVIOUS
  <2>1. Now(setup, object, now, writes, call[c]) /\ call[c].step = "write"
    BY DEF Inv, CallOK, At
  <2>2. Step(c) /\ ~ Kept
    BY OwnSteps DEF Begin, Kept
  <2>3. Matches(c)
    BY <2>1, <2>2 DEF Step, Head, Read, ReadBody, ReadChunks, Probe, Remove, BulkDelete, List, Row,
                      WriteNothing, Return, WriteIf, DeleteIf, At
  <2>4. call[c].saw # Nothing /\ Version(object[call[c].key]) = Version(call[c].saw)
    BY <2>3 DEF Matches
  <2> QED
    BY <2>1, <2>4 DEF Version, Now, Driver
<1> QED
  BY <1>1, Holds, PTL DEF Spec, UpdateReplacesWhatItSaw
=============================================================================
