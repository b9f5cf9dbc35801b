----------------------------- MODULE FileDriver -----------------------------
(***************************************************************************)
(* The file system driver (backends/object/fs_driver.py) with the reads of *)
(* backends/object/store.py above it, one action per file operation.       *)
(*                                                                         *)
(* A name leads to an inode, and a writer that has opened a file writes to *)
(* the inode whatever becomes of the name.  A value is the number of the   *)
(* write that stored it, and has two halves.  A write with a TTL and a     *)
(* clock of its own sets the file's time and stores its number in the      *)
(* sidecar; its TTL runs out by the action Lapse.                          *)
(***************************************************************************)
EXTENDS Naturals, Sequences, FiniteSets

CONSTANTS
    Key,            \* a key is its file name: a sequence of words
    Client,
    ProcessOf,      \* the process each client is a thread of
    Op,             \* calls the clients make
    MaxWrites,      \* bound: writes started
    MaxCrashes      \* bound: processes killed

ASSUME FileAssumption ==
    /\ ProcessOf \in [Client -> Nat \ {0}] /\ <<>> \notin Key
    /\ Op \subseteq {"write", "write_stream", "insert", "delete", "get"}
    /\ MaxWrites \in Nat /\ MaxCrashes \in Nat

VARIABLES
    dir,        \* name -> inode, 0 for a name not taken
    inode,      \* the files' contents
    call,       \* the call of each client
    writes,     \* writes started; each is known by its number
    timed,      \* writes with a TTL and a clock of their own
    inserts,    \* writes that are inserts
    lapsed,     \* those whose TTL has run out
    shared,     \* keys of which a temporary file was opened while in use
    contended,  \* keys two calls changed at once, and none alone since
    torn,       \* keys a call died in as it changed them, and none changed since
    crashes

vars == <<dir, inode, call, writes, timed, inserts, lapsed, shared, contended, torn, crashes>>

\* A file's two halves, by the writes they come from, and its time, by the write
\* that set it.
Empty == [lo |-> 0, hi |-> 0, clock |-> 0]
Whole(w) == [lo |-> w, hi |-> w, clock |-> 0]
IsWhole(f) == f.lo = f.hi /\ f.lo # 0

\* The names beside a key's data file.
Sidecar(k) == k \o <<"expires">>
SharedTmp(k) == k \o <<"tmp">>
ProcessTmp(k, p) == k \o <<p, "tmp">>
Tmps(k) == {SharedTmp(k)} \cup {ProcessTmp(k, ProcessOf[c]) : c \in Client}
Names(k) == {k, Sidecar(k)} \cup Tmps(k)
Name == UNION {Names(k) : k \in Key}

\* No key has the name of another's sidecar or temporary file: the driver takes the
\* names that end like those for its own, and does not list them.
ASSUME NamesAssumption ==
    /\ \A k \in Key : k \notin Tmps(k) \cup {Sidecar(k)} /\ Sidecar(k) \notin Tmps(k)
    /\ \A j, k \in Key : j # k => Names(j) \cap Names(k) = {}

Writers == {"write", "write_stream", "insert"}
\* The mutant of Tmp: the value is written straight into its place.
InPlace(c) == call[c].key

Tmp(c) == IF call[c].op = "write" THEN SharedTmp(call[c].key)
          ELSE ProcessTmp(call[c].key, ProcessOf[c])

Idle == [op |-> "none", step |-> "idle", key |-> <<>>, id |-> 0, file |-> 0,
         token |-> 0, raced |-> FALSE, out |-> Empty]

Init ==
    /\ dir = [n \in Name |-> 0]
    /\ inode = <<>>
    /\ call = [c \in Client |-> Idle]
    /\ writes = 0 /\ timed = {} /\ inserts = {} /\ lapsed = {}
    /\ shared = {} /\ contended = {} /\ torn = {} /\ crashes = 0

At(c, step) == call[c].step = step
Ghosts == <<shared, contended, torn, crashes>>
Writes == <<writes, timed, inserts, lapsed>>

\* Steps that change a key's files, up to the last of a call.
Mutating(c) == call[c].step \in
    {"fill", "rest", "replace", "link", "utime", "unlink", "unmark", "mark", "token"}

\* The call of client c becomes cl; where the step changes a key's files, the
\* other calls on that key are raced.
Steps(c, cl) ==
    call' = [d \in Client |->
               IF d = c THEN cl
               ELSE IF call[d].key = call[c].key /\ (Mutating(c) \/ At(c, "open"))
               THEN [call[d] EXCEPT !.raced = call[d].op = "get"]
               ELSE call[d]]

Goes(c, step) == Steps(c, [call[c] EXCEPT !.step = step])
Ends(c) == Steps(c, Idle)

\* Some call is changing the key's files, or calls have left them at odds.
Disturbed(k) == k \in contended \cup torn \/ \E d \in Client : call[d].key = k /\ Mutating(d)

\* The first change a call makes to its key's files, while another makes some.
Contends(c) ==
    contended' = IF \E d \in Client \ {c} : call[d].key = call[c].key /\ Mutating(d)
                 THEN contended \cup {call[c].key} ELSE contended

\* The step that puts a value in its place, or takes it away: if the call is alone
\* at it, what others left no longer matters from here.
Mends(c) ==
    LET k == call[c].key
        alone == k \notin shared /\ \A d \in Client \ {c} : call[d].key = k => ~ Mutating(d)
    IN /\ contended' = IF alone THEN contended \ {k} ELSE contended
       /\ torn' = IF alone THEN torn \ {k} ELSE torn

-----------------------------------------------------------------------------
Lapse(w) ==
    /\ w \in timed \ lapsed
    /\ lapsed' = lapsed \cup {w}
    /\ UNCHANGED <<dir, inode, call, writes, timed, inserts, Ghosts>>

Begin(c, op, k, ttl) ==
    /\ At(c, "idle")
    /\ op \in Writers => writes < MaxWrites
    /\ ttl => op \in Writers
    /\ writes' = IF op \in Writers THEN writes + 1 ELSE writes
    /\ timed' = IF ttl THEN timed \cup {writes + 1} ELSE timed
    /\ inserts' = IF op = "insert" THEN inserts \cup {writes + 1} ELSE inserts
    /\ call' = [call EXCEPT ![c] =
                  [Idle EXCEPT !.op = op, !.key = k,
                               !.id = IF op \in Writers THEN writes + 1 ELSE 0,
                               !.step = CASE op = "get" -> "stat"
                                          [] op = "delete" -> "probe"
                                          [] op \in Writers -> "open"]]
    /\ UNCHANGED <<dir, inode, lapsed, Ghosts>>

\* Opening for writing creates the file or empties the one that is there.
Opened(n) ==
    IF dir[n] = 0
    THEN /\ inode' = Append(inode, Empty)
         /\ dir' = [dir EXCEPT ![n] = Len(inode) + 1]
    ELSE /\ inode' = [inode EXCEPT ![dir[n]] = Empty]
         /\ UNCHANGED dir

Handle(n) == IF dir[n] = 0 THEN Len(inode) + 1 ELSE dir[n]

\* _write_atomic, write_stream: the temporary file beside the target.
OpenTmp(c) ==
    /\ At(c, "open") /\ call[c].op # "insert"
    /\ Opened(Tmp(c))
    /\ shared' = IF \E d \in Client \ {c} :
                      /\ call[d].op \in {"write", "write_stream"}
                      /\ call[d].step \in {"fill", "rest", "replace"} /\ Tmp(d) = Tmp(c)
                 THEN shared \cup {call[c].key} ELSE shared
    /\ Contends(c)
    /\ Steps(c, [call[c] EXCEPT !.step = "fill", !.file = Handle(Tmp(c))])
    /\ UNCHANGED <<Writes, torn, crashes>>

\* The mutant of OpenOwn: the body is linked in under the time of its writing.
DatesNothing(c) ==
    /\ At(c, "open") /\ call[c].op = "insert"
    /\ inode' = Append(inode, Whole(call[c].id))
    /\ Contends(c)
    /\ Steps(c, [call[c] EXCEPT !.step = "link", !.file = Len(inode) + 1])
    /\ UNCHANGED <<dir, Writes, shared, torn, crashes>>

\* write_if_version: a body with its time under a name no other writer can have.
OpenOwn(c) ==
    /\ At(c, "open") /\ call[c].op = "insert"
    /\ LET w == call[c].id
       IN inode' = Append(inode, [Whole(w) EXCEPT !.clock = IF w \in timed THEN w ELSE 0])
    /\ Contends(c)
    /\ Steps(c, [call[c] EXCEPT !.step = "link", !.file = Len(inode) + 1])
    /\ UNCHANGED <<dir, Writes, shared, torn, crashes>>

\* write_bytes at once, copyfileobj in pieces.
Fill(c) ==
    /\ At(c, "fill")
    /\ inode' = [inode EXCEPT ![call[c].file] =
                    IF call[c].op = "write" THEN Whole(call[c].id)
                    ELSE [@ EXCEPT !.lo = call[c].id]]
    /\ Goes(c, IF call[c].op = "write" THEN "replace" ELSE "rest")
    /\ UNCHANGED <<dir, Writes, Ghosts>>

FillRest(c) ==
    /\ At(c, "rest")
    /\ inode' = [inode EXCEPT ![call[c].file].hi = call[c].id]
    /\ Goes(c, "replace")
    /\ UNCHANGED <<dir, Writes, Ghosts>>

\* The source of a stream breaks off: the temporary file is unlinked.
StreamFails(c) ==
    /\ At(c, "rest")
    /\ dir' = [dir EXCEPT ![Tmp(c)] = 0]
    /\ Ends(c)
    /\ UNCHANGED <<inode, Writes, Ghosts>>

\* After the value is in place: its clock, its sidecar.
Headers(c) == IF call[c].id \in timed THEN "utime" ELSE "unmark"

\* os.replace; it raises if another writer has renamed the file away.
Replace(c) ==
    /\ At(c, "replace")
    /\ IF dir[Tmp(c)] = 0
       THEN UNCHANGED <<dir, contended, torn>> /\ Ends(c)
       ELSE /\ dir' = [dir EXCEPT ![call[c].key] = dir[Tmp(c)], ![Tmp(c)] = 0]
            /\ Mends(c)
            /\ Goes(c, Headers(c))
    /\ UNCHANGED <<inode, Writes, shared, crashes>>

\* os.link fails if the name is taken: this call did not insert.
Link(c) ==
    /\ At(c, "link")
    /\ IF dir[call[c].key] # 0
       THEN UNCHANGED <<dir, contended, torn>> /\ Ends(c)
       ELSE /\ dir' = [dir EXCEPT ![call[c].key] = call[c].file]
            /\ Mends(c)
            /\ Goes(c, IF call[c].id \in timed THEN "mark" ELSE "unmark")
    /\ UNCHANGED <<inode, Writes, shared, crashes>>

\* os.utime of whatever the name now leads to; it raises if there is no file.
Utime(c) ==
    /\ At(c, "utime")
    /\ IF dir[call[c].key] = 0
       THEN UNCHANGED inode /\ Ends(c)
       ELSE /\ inode' = [inode EXCEPT ![dir[call[c].key]].clock = call[c].id]
            /\ Goes(c, "mark")
    /\ UNCHANGED <<dir, Writes, Ghosts>>

\* _apply_sidecar writes the token: the file is opened, then written.
OpenSidecar(c) ==
    /\ At(c, "mark")
    /\ Opened(Sidecar(call[c].key))
    /\ Steps(c, [call[c] EXCEPT !.step = "token", !.file = Handle(Sidecar(call[c].key))])
    /\ UNCHANGED <<Writes, Ghosts>>

WriteToken(c) ==
    /\ At(c, "token")
    /\ inode' = [inode EXCEPT ![call[c].file] = Whole(call[c].id)]
    /\ Ends(c)
    /\ UNCHANGED <<dir, Writes, Ghosts>>

-----------------------------------------------------------------------------
\* delete: is_file, then unlink the data file, then its sidecar.
Probe(c) ==
    /\ At(c, "probe")
    /\ Goes(c, "unlink")
    /\ Contends(c)
    /\ UNCHANGED <<dir, inode, Writes, shared, torn, crashes>>

Unlink(c) ==
    /\ At(c, "unlink")
    /\ dir' = [dir EXCEPT ![call[c].key] = 0]
    /\ Mends(c)
    /\ Goes(c, "unmark")
    /\ UNCHANGED <<inode, Writes, shared, crashes>>

\* The mutant of UnlinkSidecar: the sidecar stays.
LeavesSidecar(c) ==
    /\ At(c, "unmark")
    /\ Ends(c)
    /\ UNCHANGED <<dir, inode, Writes, Ghosts>>

\* The last step of a delete, and of a write without a TTL of its own.
UnlinkSidecar(c) ==
    /\ At(c, "unmark")
    /\ dir' = [dir EXCEPT ![Sidecar(call[c].key)] = 0]
    /\ Ends(c)
    /\ UNCHANGED <<inode, Writes, Ghosts>>

(***************************************************************************)
(* get: _stat_for_path finds the file and then its sidecar, the body is    *)
(* read after that, and expiry is judged on the sidecar's token.  A token  *)
(* that does not parse counts as expired long ago.                         *)
(***************************************************************************)
Stat(c) ==
    /\ At(c, "stat")
    /\ IF dir[call[c].key] = 0 THEN Ends(c)
       ELSE Steps(c, [call[c] EXCEPT !.step = "sidecar", !.raced = Disturbed(call[c].key)])
    /\ UNCHANGED <<dir, inode, Writes, Ghosts>>

ReadSidecar(c) ==
    /\ At(c, "sidecar")
    /\ LET n == dir[Sidecar(call[c].key)]
       IN Steps(c, [call[c] EXCEPT !.step = "body", !.file = n,
                                   !.token = IF n = 0 THEN 0 ELSE inode[n].lo])
    /\ UNCHANGED <<dir, inode, Writes, Ghosts>>

\* The mutant of TokenExpired: a sidecar alone counts as expired.
AnyToken(c) == call[c].file # 0

TokenExpired(c) == call[c].file # 0 /\ (call[c].token = 0 \/ call[c].token \in lapsed)

ReadBody(c) ==
    /\ At(c, "body")
    /\ LET n == dir[call[c].key]
       IN IF n = 0 THEN Ends(c)
          ELSE IF TokenExpired(c) THEN Goes(c, "probe")
          ELSE Steps(c, [call[c] EXCEPT !.step = "answered", !.out = inode[n]])
    /\ UNCHANGED <<dir, inode, Writes, Ghosts>>

Return(c) ==
    /\ At(c, "answered")
    /\ Ends(c)
    /\ UNCHANGED <<dir, inode, Writes, Ghosts>>

\* A process dies with the calls of all its threads; its files stay.
Crash(p) ==
    /\ crashes < MaxCrashes
    /\ crashes' = crashes + 1
    /\ torn' = torn \cup
         {call[c].key : c \in {d \in Client : ProcessOf[d] = p /\ Mutating(d)}}
    /\ call' = [c \in Client |-> IF ProcessOf[c] = p THEN Idle ELSE call[c]]
    /\ UNCHANGED <<dir, inode, Writes, shared, contended>>

Step(c) ==
    \/ OpenTmp(c) \/ OpenOwn(c) \/ Fill(c) \/ FillRest(c) \/ StreamFails(c) \/ Replace(c)
    \/ Link(c) \/ Utime(c) \/ OpenSidecar(c) \/ WriteToken(c) \/ Probe(c) \/ Unlink(c)
    \/ UnlinkSidecar(c) \/ Stat(c) \/ ReadSidecar(c) \/ ReadBody(c) \/ Return(c)

Next ==
    \/ \E w \in timed : Lapse(w)
    \/ \E c \in Client, op \in Op, k \in Key, ttl \in BOOLEAN : Begin(c, op, k, ttl)
    \/ \E c \in Client : Step(c)
    \/ \E p \in {ProcessOf[c] : c \in Client} : Crash(p)

Spec == Init /\ [][Next]_vars

-----------------------------------------------------------------------------
Number == 0..MaxWrites

\* The types of the state: names point to files that exist, and a TTL that has lapsed
\* is one some write asked for.
TypeOK ==
    /\ dir \in [Name -> 0..Len(inode)]
    /\ \A i \in 1..Len(inode) : inode[i] \in [lo : Number, hi : Number, clock : Number]
    /\ \A c \in Client : call[c].file \in 0..Len(inode)
    /\ timed \cup inserts \subseteq 1..writes /\ lapsed \subseteq timed

\* README, "a partial value is never visible": while no two writers share a
\* temporary file (two writes of one key, or two streams in one process), the data
\* file and what a read returns are whole, whoever breaks off or dies.
OnlyWholeValues ==
    \A k \in Key : k \notin shared =>
        /\ dir[k] # 0 => IsWhole(inode[dir[k]])
        /\ \A c \in Client : At(c, "answered") /\ call[c].key = k => IsWhole(call[c].out)

\* Data file, clock and sidecar are written in separate steps; once the calls on a
\* key are over they belong together.  What two calls at once or a process that died
\* leave at odds, the next call that replaces or deletes the file alone puts in order.
FilesBelongTogether ==
    \A k \in Key :
        k \notin contended \cup torn /\ (\A c \in Client : call[c].key # k) =>
            LET w == IF dir[k] = 0 THEN 0 ELSE inode[dir[k]].lo
                s == dir[Sidecar(k)]
            IN IF w \in timed THEN s # 0 /\ inode[s] = Whole(w) /\ inode[dir[k]].clock = w
               ELSE s = 0

\* The directory is in order: names lead to files, and the files of a key that no call
\* is at belong together (fs_driver.py, two files and a clock per value).
FilesAreInOrder == TypeOK /\ FilesBelongTogether

\* A read deletes a file of its own accord only if the file's TTL has run out, or
\* another call was changing the key's files while it read or broke off before.
ReadersDeleteTheExpired ==
    [][\A c \in Client :
         /\ call[c].op = "get" /\ At(c, "unlink") /\ dir' # dir
         /\ call'[c].step = "unmark"
         => call[c].raced \/ inode[dir[call[c].key]].lo \in lapsed]_vars

\* "The modification time is set on the body before the link, since it is the TTL
\* clock" (write_if_version): an inserted value carries its clock at every moment it
\* can be read, also after its writer died; only calls that changed the key at once
\* may give it another's.
InsertsAreDated ==
    \A k \in Key :
        k \notin contended /\ dir[k] # 0 /\ inode[dir[k]].lo \in inserts =>
            inode[dir[k]].clock = IF inode[dir[k]].lo \in timed THEN inode[dir[k]].lo ELSE 0
=============================================================================
