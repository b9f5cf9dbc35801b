------------------------- MODULE FileDriver_proofs -------------------------
(***************************************************************************)
(* Theorems about FileDriver: any keys, threads and processes, and any     *)
(* number of writes and deaths.                                            *)
(***************************************************************************)
EXTENDS FileDriver, SequenceTheorems, TLAPS

-----------------------------------------------------------------------------
(***************************************************************************)
(* The types, and where a call of each kind may stand.                     *)
(***************************************************************************)
AllOps == Writers \cup {"delete", "get", "none"}
Replacers == {"write", "write_stream"}
Filling == {"fill", "rest", "replace"}
Dating == {"utime", "mark", "token"}
Reading == {"stat", "sidecar", "body", "answered"}
Changing == Filling \cup Dating \cup {"link", "unlink", "unmark"}
AllSteps == Changing \cup Reading \cup {"idle", "open", "probe"}
File == [lo : Nat, hi : Nat, clock : Nat]
CallType ==
    [op : AllOps, step : AllSteps, key : Key \cup {<<>>}, id : Nat, file : Nat, token : Nat,
     raced : BOOLEAN, out : File]

\* A call's step, of the operation that takes it; a writer has a number.
Placed(cl) ==
    /\ cl.step # "idle" => cl.key \in Key
    /\ cl.step = "idle" => cl.op = "none" /\ cl.key = <<>>
    /\ cl.step = "open" => cl.op \in Writers
    /\ cl.step \in Filling => cl.op \in Replacers
    /\ cl.step = "rest" => cl.op = "write_stream"
    /\ cl.step = "link" => cl.op = "insert"
    /\ cl.step \in Dating => cl.op \in Writers /\ cl.id \in timed
    /\ cl.step \in {"unlink", "probe"} => cl.op \in {"delete", "get"}
    /\ cl.step \in Reading => cl.op = "get"
    /\ cl.step = "utime" => cl.op \in Replacers
    /\ cl.op \in Writers => cl.id # 0
    /\ cl.op \in Replacers => cl.id \notin inserts
    /\ cl.raced => cl.op = "get"
    /\ cl.id <= writes /\ cl.file <= Len(inode)

Typed ==
    /\ dir \in [Name -> 0..Len(inode)]
    /\ inode \in Seq(File)
    /\ \A i \in 1..Len(inode) : inode[i].lo <= writes /\ inode[i].hi <= writes /\ inode[i].clock <= writes
    /\ call \in [Client -> CallType] /\ \A c \in Client : Placed(call[c])
    /\ writes \in Nat /\ writes <= MaxWrites
    /\ timed \subseteq 1..writes /\ inserts \subseteq 1..writes /\ lapsed \subseteq timed

-----------------------------------------------------------------------------
(***************************************************************************)
(* The inductive invariant.  Every file was opened for one key, as data or *)
(* as a sidecar, and stays that; what is true of a key then rests on the   *)
(* key's own files and calls.                                              *)
(***************************************************************************)
Holding == Filling \cup {"link"}

\* own says what each file was opened for.
Belongs(own) ==
    /\ own \in [1..Len(inode) -> Key \X {"data", "side"}]
    /\ \A k \in Key : \A n \in Tmps(k) \cup {k} : dir[n] # 0 => own[dir[n]] = <<k, "data">>
    /\ \A k \in Key : dir[Sidecar(k)] # 0 => own[dir[Sidecar(k)]] = <<k, "side">>
    /\ \A c \in Client :
         /\ call[c].step \in Holding => call[c].file # 0 /\ own[call[c].file] = <<call[c].key, "data">>
         /\ call[c].step = "token" => call[c].file # 0 /\ own[call[c].file] = <<call[c].key, "side">>

\* The calls on a key, and those that write its temporary files.
On(k) == {c \in Client : call[c].key = k}
Fillers(k) == {c \in On(k) : call[c].step \in Filling}
Changers(k) == {c \in On(k) : call[c].step \in Changing}

\* No file has two names that may hold data.
OneName(k) == \A m, n \in Tmps(k) \cup {k} : dir[m] = dir[n] /\ dir[n] # 0 => m = n

\* A temporary file in use by two is noted; otherwise its user finds it there as it
\* left it.
Unshared(k) == \A c, d \in Fillers(k) : c # d /\ Tmp(c) = Tmp(d) => k \in shared
Filled(k) ==
    k \notin shared => \A c \in Fillers(k) :
        LET f == inode[call[c].file]
        IN /\ dir[Tmp(c)] = call[c].file /\ f.clock = 0
           /\ call[c].step = "rest" => f.lo = call[c].id
           /\ call[c].step = "replace" => f.lo = call[c].id /\ f.hi = call[c].id

\* The file of an insert is whole, and nobody else's.
Linked(k) ==
    \A c \in On(k) : call[c].step = "link" =>
        /\ inode[call[c].file] =
             [Whole(call[c].id) EXCEPT !.clock = IF call[c].id \in timed THEN call[c].id ELSE 0]
        /\ \A n \in Tmps(k) \cup {k} : dir[n] # call[c].file
        /\ \A d \in On(k) : d # c /\ call[d].step \in Holding => call[d].file # call[c].file

IsWholeAt(k) ==
    k \notin shared =>
        /\ dir[k] # 0 => IsWhole(inode[dir[k]])
        /\ \A c \in On(k) : At(c, "answered") => IsWhole(call[c].out)

\* Data file, clock and sidecar belong together.
Value(k) == IF dir[k] = 0 THEN 0 ELSE inode[dir[k]].lo
Clean(k) ==
    LET s == dir[Sidecar(k)]
    IN IF Value(k) \in timed
       THEN s # 0 /\ inode[s] = Whole(Value(k)) /\ inode[dir[k]].clock = Value(k)
       ELSE s = 0

\* Two calls that change a key at once are noted, and so is one that dies as it does;
\* otherwise the one that does has come so far.
Uncontended(k) == \A c, d \in Changers(k) : c # d => k \in contended
Halfway(c, k) ==
    /\ call[c].step \in Holding \cup {"unlink"} /\ k \notin torn => Clean(k)
    /\ call[c].step \in Dating => dir[k] # 0 /\ Value(k) = call[c].id
    /\ call[c].step \in {"mark", "token"} => inode[dir[k]].clock = call[c].id
    /\ call[c].step = "token" => dir[Sidecar(k)] = call[c].file
    /\ call[c].step = "unmark" => Value(k) \notin timed
Orderly(k) ==
    /\ k \in shared => k \in contended
    /\ k \notin contended => /\ Changers(k) = {} /\ k \notin torn => Clean(k)
                             /\ \A c \in Changers(k) : Halfway(c, k)

\* An insert's value has the clock it was written with.
Dated(k) ==
    k \notin contended /\ dir[k] # 0 /\ Value(k) \in inserts =>
        inode[dir[k]].clock = IF Value(k) \in timed THEN Value(k) ELSE 0

\* What a read that nobody raced has found still is so.
Found(k) ==
    \A c \in On(k) : call[c].op = "get" /\ ~call[c].raced =>
        /\ call[c].step \in {"sidecar", "body"} => dir[k] # 0 /\ Clean(k)
        /\ call[c].step = "body" =>
             /\ call[c].file = dir[Sidecar(k)]
             /\ call[c].file # 0 => call[c].token = inode[call[c].file].lo
        /\ call[c].step \in {"probe", "unlink"} => Value(k) \in lapsed

KeyInv(k) ==
    /\ OneName(k) /\ Unshared(k) /\ Filled(k) /\ Linked(k) /\ IsWholeAt(k)
    /\ Uncontended(k) /\ Orderly(k) /\ Dated(k) /\ Found(k)

Inv ==
    /\ Typed /\ shared \cup contended \cup torn \subseteq Key
    /\ \E own \in [1..Len(inode) -> Key \X {"data", "side"}] : Belongs(own)
    /\ \A k \in Key : KeyInv(k)

-----------------------------------------------------------------------------
(***************************************************************************)
(* Names, and files written and appended.                                  *)
(***************************************************************************)

\* The names of a key are its own.
LEMMA NameFacts ==
    ASSUME NEW k \in Key
    PROVE  /\ Names(k) \subseteq Name /\ k \in Names(k) /\ Sidecar(k) \in Names(k) /\ Tmps(k) \subseteq Names(k)
           /\ Sidecar(k) \notin Tmps(k) \cup {k} /\ k \notin Tmps(k)
           /\ \A j \in Key : j # k => Names(j) \cap Names(k) = {}
BY NamesAssumption DEF Name, Names

\* Every name is of some key.
LEMMA NameOf ==
    ASSUME NEW n \in Name
    PROVE  \E k \in Key : n \in Names(k)
BY DEF Name

\* A writer's temporary file is among those of its key.
LEMMA TmpFacts ==
    ASSUME NEW c \in Client
    PROVE  Tmp(c) \in Tmps(call[c].key)
BY DEF Tmp, Tmps

\* Writing one file leaves the others.
LEMMA Rewritten ==
    ASSUME NEW s \in Seq(File), NEW i \in 1..Len(s), NEW f \in File
    PROVE  /\ [s EXCEPT ![i] = f] \in Seq(File) /\ Len([s EXCEPT ![i] = f]) = Len(s)
           /\ \A j \in 1..Len(s) : [s EXCEPT ![i] = f][j] = IF j = i THEN f ELSE s[j]
BY ExceptSeq

\* A new file comes after the others.
LEMMA Created ==
    ASSUME NEW s \in Seq(File), NEW f \in File
    PROVE  /\ Append(s, f) \in Seq(File) /\ Len(Append(s, f)) = Len(s) + 1
           /\ \A j \in 1..Len(s) : Append(s, f)[j] = s[j]
           /\ Append(s, f)[Len(s) + 1] = f
BY AppendProperties

\* The lengths are naturals, and the files are files.
LEMMA FileFacts ==
    ASSUME Typed
    PROVE  /\ Len(inode) \in Nat /\ \A i \in 1..Len(inode) : inode[i] \in File
           /\ \A n \in Name : dir[n] \in 0..Len(inode)
           /\ \A n \in Name : dir[n] # 0 => dir[n] \in 1..Len(inode) /\ inode[dir[n]] \in File
BY LenProperties, ElementOfSeq DEF Typed

\* What a step of one call leaves of the others: they may have been raced.
LEMMA Others ==
    ASSUME Typed, NEW c \in Client, NEW cl \in CallType, Steps(c, cl)
    PROVE  /\ call' \in [Client -> CallType] /\ call'[c] = cl
           /\ \A d \in Client : d # c =>
                /\ call'[d].op = call[d].op /\ call'[d].step = call[d].step
                /\ call'[d].key = call[d].key /\ call'[d].id = call[d].id
                /\ call'[d].file = call[d].file /\ call'[d].token = call[d].token
                /\ call'[d].out = call[d].out
                /\ call'[d].raced => call[d].op = "get" \/ call[d].raced
                /\ call[d].key # call[c].key => call'[d] = call[d]
                /\ ~(Mutating(c) \/ At(c, "open")) => call'[d] = call[d]
                /\ call[d].key = call[c].key /\ (Mutating(c) \/ At(c, "open")) =>
                     (call'[d].raced <=> call[d].op = "get")
<1>1. call \in [Client -> CallType]
  BY DEF Typed
<1>2. \A d \in Client : call'[d] = IF d = c THEN cl
               ELSE IF call[d].key = call[c].key /\ (Mutating(c) \/ At(c, "open"))
               THEN [call[d] EXCEPT !.raced = call[d].op = "get"]
               ELSE call[d]
  BY DEF Steps
<1>3. \A d \in Client : [call[d] EXCEPT !.raced = call[d].op = "get"] \in CallType
  BY <1>1 DEF CallType
<1>4. call' \in [Client -> CallType] /\ call'[c] = cl
  BY <1>1, <1>2, <1>3 DEF Steps
<1>5. ASSUME NEW d \in Client, d # c
      PROVE  /\ call'[d].op = call[d].op /\ call'[d].step = call[d].step
             /\ call'[d].key = call[d].key /\ call'[d].id = call[d].id
             /\ call'[d].file = call[d].file /\ call'[d].token = call[d].token
             /\ call'[d].out = call[d].out
             /\ call'[d].raced => call[d].op = "get" \/ call[d].raced
             /\ call[d].key # call[c].key => call'[d] = call[d]
             /\ ~(Mutating(c) \/ At(c, "open")) => call'[d] = call[d]
             /\ call[d].key = call[c].key /\ (Mutating(c) \/ At(c, "open")) =>
                  (call'[d].raced <=> call[d].op = "get")
  <2>1. call[d] \in CallType
    BY <1>1
  <2> QED
    BY <1>2, <1>5, <2>1 DEF CallType
<1> QED
  BY <1>4, <1>5

-----------------------------------------------------------------------------
(***************************************************************************)
(* A step of one call: the types, what files are for, and the other keys.  *)
(***************************************************************************)

\* The types after a step of one call.
LEMMA StepTyped ==
    ASSUME Typed, NEW c \in Client, NEW cl \in CallType, Steps(c, cl), UNCHANGED Writes, Placed(cl)',
           Len(inode) <= Len(inode'), inode' \in Seq(File), dir' \in [Name -> 0..Len(inode')],
           \A i \in 1..Len(inode') : /\ inode'[i].lo <= writes /\ inode'[i].hi <= writes
                                     /\ inode'[i].clock <= writes
    PROVE  Typed'
<1>1. call' \in [Client -> CallType]
  BY Others
<1>2. UNCHANGED <<writes, timed, inserts, lapsed>>
  BY DEF Writes
<1>3. ASSUME NEW d \in Client PROVE Placed(call[d])'
  <2>1. CASE d = c
    BY <2>1, Others
  <2>2. CASE d # c
    <3>1. /\ call'[d].op = call[d].op /\ call'[d].step = call[d].step
          /\ call'[d].key = call[d].key /\ call'[d].id = call[d].id /\ call'[d].file = call[d].file
          /\ call'[d].raced => call[d].op = "get" \/ call[d].raced
      BY <2>2, Others
    <3>2. Placed(call[d]) /\ call[d].file \in Nat /\ Len(inode) \in Nat /\ Len(inode') \in Nat
      BY LenProperties DEF Typed, CallType
    <3> HIDE DEF CallType
    <3> QED
      BY <1>2, <3>1, <3>2 DEF Placed
  <2> QED
    BY <2>1, <2>2
<1> QED
  BY <1>1, <1>2, <1>3 DEF Typed

\* A step moves names among the files of key k, which own1 says with any new file; the
\* call becomes cl.
Within(k, cl, own, own1) ==
    /\ own1 \in [1..Len(inode') -> Key \X {"data", "side"}] /\ Len(inode) <= Len(inode')
    /\ \A i \in 1..Len(inode) : own1[i] = own[i]
    /\ \A n \in Name \ Names(k) : dir'[n] = dir[n]
    /\ \A n \in Tmps(k) \cup {k} : dir'[n] # 0 => own1[dir'[n]] = <<k, "data">>
    /\ dir'[Sidecar(k)] # 0 => own1[dir'[Sidecar(k)]] = <<k, "side">>
    /\ cl.step \in Holding => cl.file # 0 /\ own1[cl.file] = <<cl.key, "data">>
    /\ cl.step = "token" => cl.file # 0 /\ own1[cl.file] = <<cl.key, "side">>

\* What files are for, after a step of one call.
LEMMA StepBelongs ==
    ASSUME Typed, NEW c \in Client, NEW cl \in CallType, Steps(c, cl),
           NEW k \in Key, NEW own, Belongs(own), NEW own1, Within(k, cl, own, own1)
    PROVE  Belongs(own1)'
<1> USE DEF Within
<1>0. Len(inode) \in Nat /\ \A n \in Name : dir[n] \in 0..Len(inode)
  BY FileFacts
<1>1. ASSUME NEW j \in Key, NEW n \in Tmps(j) \cup {j}, dir'[n] # 0
      PROVE  own1[dir'[n]] = <<j, "data">>
  <2>1. CASE j = k
    BY <1>1, <2>1
  <2>2. CASE j # k
    <3>1. n \in Name \ Names(k)
      BY <2>2, NameFacts
    <3>2. dir'[n] = dir[n] /\ dir[n] \in 1..Len(inode)
      BY <1>0, <1>1, <3>1
    <3>3. own[dir[n]] = <<j, "data">>
      BY <1>1, <3>2 DEF Belongs
    <3> QED
      BY <3>2, <3>3
  <2> QED
    BY <2>1, <2>2
<1>2. ASSUME NEW j \in Key, dir'[Sidecar(j)] # 0
      PROVE  own1[dir'[Sidecar(j)]] = <<j, "side">>
  <2>1. CASE j = k
    BY <1>2, <2>1
  <2>2. CASE j # k
    <3>1. Sidecar(j) \in Name \ Names(k)
      BY <2>2, NameFacts
    <3>2. dir'[Sidecar(j)] = dir[Sidecar(j)] /\ dir[Sidecar(j)] \in 1..Len(inode)
      BY <1>0, <1>2, <3>1
    <3>3. own[dir[Sidecar(j)]] = <<j, "side">>
      BY <1>2, <3>2 DEF Belongs
    <3> QED
      BY <3>2, <3>3
  <2> QED
    BY <2>1, <2>2
<1>3. ASSUME NEW d \in Client
      PROVE  /\ call'[d].step \in Holding => call'[d].file # 0 /\ own1[call'[d].file] = <<call'[d].key, "data">>
             /\ call'[d].step = "token" => call'[d].file # 0 /\ own1[call'[d].file] = <<call'[d].key, "side">>
  <2>1. CASE d = c
    BY <2>1, Others
  <2>2. CASE d # c
    <3>1. call'[d].step = call[d].step /\ call'[d].key = call[d].key /\ call'[d].file = call[d].file
      BY <2>2, Others
    <3>2. call[d].file \in Nat /\ call[d].file <= Len(inode)
      BY DEF Typed, Placed, CallType
    <3>3. /\ call[d].step \in Holding => call[d].file # 0 /\ own[call[d].file] = <<call[d].key, "data">>
          /\ call[d].step = "token" => call[d].file # 0 /\ own[call[d].file] = <<call[d].key, "side">>
      BY DEF Belongs
    <3>4. call[d].file # 0 => own1[call[d].file] = own[call[d].file]
      BY <1>0, <3>2
    <3> QED
      BY <3>1, <3>3, <3>4
  <2> QED
    BY <2>1, <2>2
<1> QED
  BY <1>1, <1>2, <1>3 DEF Belongs

\* A call that has neither found nor changed anything yet.
Silent(cl) == cl.step \in {"stat", "open"} \/ (cl.step = "probe" /\ cl.op = "delete")

\* What is true of a key stays true where its files and calls stay, up to calls that
\* begin and calls that die; more may lapse.
LEMMA Frame ==
    ASSUME Typed, NEW own, Belongs(own), NEW j \in Key, KeyInv(j),
           \A d \in Client : call'[d].key = j => call'[d] = call[d] \/ Silent(call'[d]),
           j \notin torn' => Changers(j) \subseteq Changers(j)',
           \A n \in Names(j) : dir'[n] = dir[n],
           \A i \in 1..Len(inode) : own[i][1] = j => inode'[i] = inode[i],
           j \in shared' <=> j \in shared, j \in contended' <=> j \in contended, j \in torn => j \in torn',
           \A w \in 0..writes : (w \in timed' <=> w \in timed) /\ (w \in inserts' <=> w \in inserts),
           lapsed \subseteq lapsed'
    PROVE  KeyInv(j)'
<1>0. Len(inode) \in Nat /\ writes \in Nat /\ \A n \in Name : dir[n] \in 0..Len(inode)
  BY FileFacts DEF Typed
<1>1. \A d \in On(j) : call[d].key = j /\ d \in Client
  BY DEF On
<1>2. \A d \in On(j)' : d \in Client /\ (Silent(call'[d]) \/ (d \in On(j) /\ call'[d] = call[d]))
  BY DEF On
<1>3. /\ \A d \in Fillers(j)' : d \in Fillers(j) /\ d \in On(j) /\ call'[d] = call[d]
      /\ \A d \in Changers(j)' : d \in Changers(j) /\ d \in On(j) /\ call'[d] = call[d]
  BY <1>2 DEF Fillers, Changers, Changing, Filling, Dating, Silent
<1>4. \A d \in Fillers(j)' : Tmp(d)' = Tmp(d) /\ Tmp(d) \in Tmps(j)
  BY <1>1, <1>3, TmpFacts DEF Tmp
<1>5. \A n \in Tmps(j) \cup {j, Sidecar(j)} : n \in Name /\ dir'[n] = dir[n]
  BY NameFacts
<1>6. ASSUME NEW n \in Tmps(j) \cup {j, Sidecar(j)}, dir[n] # 0
      PROVE  /\ inode'[dir[n]] = inode[dir[n]] /\ dir[n] \in 1..Len(inode)
             /\ inode[dir[n]].lo \in 0..writes
  <2>1. dir[n] \in 1..Len(inode)
    BY <1>0, <1>5, <1>6
  <2>2. own[dir[n]] = <<j, "data">> \/ own[dir[n]] = <<j, "side">>
    BY <1>6 DEF Belongs
  <2>3. inode[dir[n]] \in File /\ inode[dir[n]].lo <= writes
    BY <2>1, FileFacts DEF Typed
  <2> QED
    BY <1>0, <2>1, <2>2, <2>3 DEF File
<1>7. ASSUME NEW d \in On(j), call[d].step \in Holding
      PROVE  inode'[call[d].file] = inode[call[d].file]
  <2>1. call[d].file \in 1..Len(inode)
    BY <1>0, <1>1, <1>7 DEF Belongs, Typed, Placed, CallType
  <2>2. own[call[d].file] = <<j, "data">>
    BY <1>1, <1>7 DEF Belongs
  <2> QED
    BY <2>1, <2>2
<1>8. OneName(j)'
  BY <1>5 DEF KeyInv, OneName
<1>9. Unshared(j)'
  BY <1>3, <1>4 DEF KeyInv, Unshared
<1>10. Filled(j)'
  <2>1. \A d \in Fillers(j) : call[d].step \in Holding
    BY DEF Fillers, Holding
  <2> QED
    BY <1>3, <1>4, <1>5, <1>7, <2>1 DEF KeyInv, Filled
<1>11. Linked(j)'
  <2>1. \A d \in On(j) : call[d].id \in 0..writes
    BY <1>1 DEF Typed, Placed, CallType
  <2>2. \A d \in On(j) : call[d].step = "link" => call[d].step \in Holding
    BY DEF Holding
  <2>3. \A d \in On(j)' : call'[d].step \in Holding => d \in On(j) /\ call'[d] = call[d]
    BY <1>2 DEF Silent, Holding, Filling
  <2>4. \A d \in On(j)' : call'[d].step = "link" => d \in On(j) /\ call'[d] = call[d]
    BY <1>2 DEF Silent
  <2>5. Linked(j)
    BY DEF KeyInv
  <2> QED
    BY <1>5, <1>7, <2>1, <2>2, <2>3, <2>4, <2>5 DEF Linked
<1>12. IsWholeAt(j)'
  <2>1. \A d \in On(j)' : call'[d].step = "answered" => d \in On(j) /\ call'[d] = call[d]
    BY <1>2 DEF Silent
  <2> QED
    BY <1>5, <1>6, <2>1 DEF KeyInv, IsWholeAt, At
<1>13. Uncontended(j)'
  BY <1>3 DEF KeyInv, Uncontended
<1>14. Value(j)' = Value(j) /\ Value(j) \in 0..writes
  BY <1>0, <1>5, <1>6 DEF Value
<1>15. Clean(j)' <=> Clean(j)
  <2>1. Value(j) \in timed => dir[j] # 0
    BY DEF Value, Typed
  <2> QED
    BY <1>5, <1>6, <1>14, <2>1 DEF Clean
<1>16. \A d \in Changers(j)' : Halfway(d, j) => Halfway(d, j)'
  BY <1>3, <1>5, <1>6, <1>14, <1>15 DEF Halfway, Dating
<1>17. Orderly(j)'
  <2>1. j \notin torn' => Changers(j)' = Changers(j)
    BY <1>3
  <2> QED
    BY <1>3, <1>15, <1>16, <2>1 DEF KeyInv, Orderly
<1>19. Dated(j)'
  BY <1>5, <1>6, <1>14 DEF KeyInv, Dated
<1>18. Found(j)'
  <2>1. \A d \in On(j) : call[d].step = "body" /\ call[d].file = dir[Sidecar(j)] /\ call[d].file # 0 =>
           inode'[call[d].file] = inode[call[d].file]
    BY <1>6
  <2>2. \A d \in On(j)' : call'[d].op = "get" /\ call'[d].step # "stat" /\ call'[d].step # "open" =>
           d \in On(j) /\ call'[d] = call[d]
    BY <1>2 DEF Silent
  <2> QED
    BY <1>5, <1>14, <1>15, <2>1, <2>2 DEF KeyInv, Found
<1> QED
  BY <1>8, <1>9, <1>10, <1>11, <1>12, <1>13, <1>17, <1>18, <1>19 DEF KeyInv

\* What is noted of calls at odds is noted of key k.
OfKey(k) ==
    /\ shared \subseteq shared' /\ shared' \subseteq shared \cup {k}
    /\ contended' \cup torn' \subseteq Key
    /\ \A j \in Key \ {k} : (j \in contended' <=> j \in contended) /\ (j \in torn' <=> j \in torn)

\* A step of one call keeps the invariant if it keeps to the files of its key.
LEMMA StepInv ==
    ASSUME Inv, NEW c \in Client, NEW cl \in CallType, Steps(c, cl), NEW k \in Key, call[c].key = k,
           cl.key \in {k, <<>>}, UNCHANGED Writes, Typed',
           NEW own, Belongs(own), NEW own1, Belongs(own1)',
           \A n \in Name \ Names(k) : dir'[n] = dir[n],
           \A i \in 1..Len(inode) : own[i][1] # k => inode'[i] = inode[i],
           OfKey(k), KeyInv(k)'
    PROVE  Inv'
<1>1. Typed /\ UNCHANGED <<writes, timed, inserts, lapsed>> /\ shared \cup contended \cup torn \subseteq Key
  BY DEF Inv, Writes
<1>2. ASSUME NEW j \in Key, j # k PROVE KeyInv(j)'
  <2>1. \A d \in Client : call[d].key = j \/ call'[d].key = j => call'[d] = call[d]
    BY <1>1, <1>2, Others, FileAssumption
  <2>6. Changers(j) \subseteq Changers(j)'
    BY <2>1 DEF Changers, On
  <2>2. \A n \in Names(j) : dir'[n] = dir[n]
    BY <1>2, NameFacts
  <2>3. \A i \in 1..Len(inode) : own[i][1] = j => inode'[i] = inode[i]
    BY <1>2
  <2>4. /\ j \in shared' <=> j \in shared
        /\ j \in contended' <=> j \in contended
        /\ j \in torn' <=> j \in torn
        /\ \A w \in 0..writes : (w \in timed' <=> w \in timed) /\ (w \in inserts' <=> w \in inserts)
        /\ lapsed \subseteq lapsed'
    BY <1>1, <1>2 DEF OfKey
  <2>5. KeyInv(j)
    BY DEF Inv
  <2> QED
    BY <1>1, <2>1, <2>2, <2>3, <2>4, <2>5, <2>6, Frame
<1>3. \A j \in Key : KeyInv(j)'
  BY <1>2
<1>4. (shared' \cup contended' \cup torn') \subseteq Key
  BY <1>1 DEF OfKey
<1>5. own1 \in [1..Len(inode') -> Key \X {"data", "side"}]
  BY DEF Belongs
<1> QED
  BY <1>3, <1>4, <1>5 DEF Inv

\* A call's own key after a step that only looks, or ends the call where it was.
LEMMA Quiet ==
    ASSUME Typed, NEW c \in Client, NEW cl \in CallType, Steps(c, cl), NEW k \in Key, call[c].key = k,
           KeyInv(k), UNCHANGED <<dir, inode, shared, contended, torn, timed, inserts, lapsed>>,
           cl.key \in {k, <<>>}, cl.step \notin Changing,
           c \in Changers(k) /\ k \notin contended \cup torn => Clean(k),
           cl.step = "answered" /\ k \notin shared => IsWhole(cl.out),
           cl.op = "get" /\ ~ cl.raced =>
             /\ cl.step \in {"sidecar", "body"} => dir[k] # 0 /\ Clean(k)
             /\ cl.step = "body" => /\ cl.file = dir[Sidecar(k)]
                                    /\ cl.file # 0 => cl.token = inode[cl.file].lo
             /\ cl.step = "probe" => Value(k) \in lapsed
    PROVE  KeyInv(k)'
<1>1. /\ call'[c] = cl
      /\ \A d \in Client : d # c =>
           /\ call'[d].op = call[d].op /\ call'[d].step = call[d].step /\ call'[d].key = call[d].key
           /\ call'[d].id = call[d].id /\ call'[d].file = call[d].file
           /\ call'[d].token = call[d].token /\ call'[d].out = call[d].out
           /\ call[d].op = "get" /\ call[d].raced => call'[d].raced
  BY Others
<1>2. /\ \A d \in On(k)' : d # c => d \in On(k)
      /\ On(k)' \subseteq Client /\ c \in On(k)
  BY <1>1 DEF On
<1>3. /\ \A d \in Fillers(k)' : d \in Fillers(k) /\ d # c /\ d \in Client
      /\ \A d \in Changers(k)' : d \in Changers(k) /\ d # c /\ d \in Client
  BY <1>1, <1>2 DEF Fillers, Changers, Changing
<1>4. \A d \in Client : d # c => Tmp(d)' = Tmp(d)
  BY <1>1 DEF Tmp
<1>5. OneName(k)'
  BY DEF KeyInv, OneName
<1>6. Unshared(k)'
  BY <1>3, <1>4 DEF KeyInv, Unshared
<1>7. Filled(k)'
  BY <1>1, <1>3, <1>4 DEF KeyInv, Filled
<1>8. Linked(k)'
  <2>1. cl.step \notin Holding
    BY DEF Changing, Holding
  <2>2. cl.step # "link"
    BY DEF Changing
  <2> QED
    BY <1>1, <1>2, <2>1, <2>2 DEF KeyInv, Linked
<1>9. IsWholeAt(k)'
  <2>1. \A d \in On(k)' : call'[d].step = "answered" /\ k \notin shared => IsWhole(call'[d].out)
    BY <1>1, <1>2 DEF KeyInv, IsWholeAt, At
  <2> QED
    BY <2>1 DEF KeyInv, IsWholeAt, At
<1>10. Uncontended(k)'
  BY <1>3 DEF KeyInv, Uncontended
<1>11. Value(k)' = Value(k) /\ (Clean(k)' <=> Clean(k))
  BY DEF Value, Clean
<1>12. Orderly(k)'
  <2>1. ASSUME k \notin contended \cup torn, Changers(k)' = {} PROVE Clean(k)
    <3>1. CASE Changers(k) = {}
      BY <2>1, <3>1 DEF KeyInv, Orderly
    <3>2. CASE Changers(k) # {}
      <4>1. PICK d : d \in Changers(k)
        BY <3>2
      <4>2. d = c
        BY <1>1, <2>1, <4>1 DEF Changers, On
      <4> QED
        BY <2>1, <4>1, <4>2
    <3> QED
      BY <3>1, <3>2
  <2>2. ASSUME k \notin contended, NEW d \in Changers(k)' PROVE Halfway(d, k)'
    <3>1. Halfway(d, k) /\ d \in Client /\ d # c
      BY <1>3, <2>2 DEF KeyInv, Orderly
    <3> QED
      BY <1>1, <1>11, <3>1 DEF Halfway
  <2> QED
    BY <1>11, <2>1, <2>2 DEF KeyInv, Orderly
<1>13. Found(k)'
  <2> SUFFICES ASSUME NEW d \in On(k)', call'[d].op = "get", ~ call'[d].raced
               PROVE  /\ call'[d].step \in {"sidecar", "body"} => dir[k] # 0 /\ Clean(k)
                      /\ call'[d].step = "body" =>
                           /\ call'[d].file = dir[Sidecar(k)]
                           /\ call'[d].file # 0 => call'[d].token = inode[call'[d].file].lo
                      /\ call'[d].step \in {"probe", "unlink"} => Value(k) \in lapsed
    BY <1>11 DEF Found
  <2>1. CASE d = c
    BY <1>1, <2>1 DEF Changing
  <2>2. CASE d # c
    BY <1>1, <1>2, <2>2 DEF KeyInv, Found
  <2> QED
    BY <2>1, <2>2
<1>14. Dated(k)'
  BY <1>11 DEF KeyInv, Dated
<1> QED
  BY <1>5, <1>6, <1>7, <1>8, <1>9, <1>10, <1>12, <1>13, <1>14 DEF KeyInv

\* Call c is the only one to change key k, or it is noted that it is not.
Alone(c, k) ==
    /\ OfKey(k) /\ UNCHANGED shared
    /\ k \notin contended' => k \notin shared /\ \A d \in Changers(k) : d = c

\* A call's own key after a step that goes on to change its files: what is left to
\* show, where nobody else changes them, is how far the call has come.
LEMMA Continues ==
    ASSUME Typed, NEW c \in Client, NEW cl \in CallType, Steps(c, cl), NEW k \in Key, call[c].key = k,
           KeyInv(k), Alone(c, k), call[c].step \in Changing,
           cl.step \in Changing => cl.key = k /\ cl.op = call[c].op,
           cl.step \in Filling => call[c].step \in Filling,
           cl.step \notin {"sidecar", "body", "probe", "unlink"},
           cl.step \notin Changing => cl.step = "idle",
           k \notin contended' =>
             /\ cl.step \in Changing => Halfway(c, k)'
             /\ cl.step \notin Changing /\ k \notin torn' => Clean(k)'
    PROVE  Unshared(k)' /\ Uncontended(k)' /\ Orderly(k)' /\ Found(k)'
<1>1. /\ call'[c] = cl
      /\ \A d \in Client : d # c =>
           /\ call'[d].op = call[d].op /\ call'[d].step = call[d].step /\ call'[d].key = call[d].key
  BY Others
<1>2. /\ \A d \in On(k)' : d # c => d \in On(k)
      /\ On(k)' \subseteq Client /\ c \in On(k) /\ c \in Changers(k)
  BY <1>1 DEF On, Changers
<1>3. /\ \A d \in Fillers(k)' : d \in Fillers(k) /\ d \in Client
      /\ \A d \in Changers(k)' : d \in Changers(k) /\ d \in Client
  BY <1>1, <1>2 DEF Fillers, Changers, Changing
<1>4. \A d \in Fillers(k)' : Tmp(d)' = Tmp(d)
  <2>1. ASSUME NEW d \in Fillers(k)' PROVE Tmp(d)' = Tmp(d)
    <3>1. d = c => cl.key = k /\ cl.op = call[c].op
      BY <1>1, <2>1 DEF Fillers, On, Changing
    <3>2. call'[d].key = call[d].key /\ call'[d].op = call[d].op
      BY <1>1, <1>3, <3>1
    <3> QED
      BY <3>2 DEF Tmp
  <2> QED
    BY <2>1
<1>5. Unshared(k)'
  BY <1>3, <1>4 DEF KeyInv, Unshared, Alone
<1>6. Uncontended(k)'
  BY <1>3 DEF Alone, Uncontended
<1>7. ASSUME k \notin contended'
      PROVE  /\ Changers(k)' = {} /\ k \notin torn' => Clean(k)'
             /\ \A d \in Changers(k)' : Halfway(d, k)'
  <2>1. \A d \in Changers(k) : d = c
    BY <1>7 DEF Alone
  <2>2. cl.step \in Changing => c \in Changers(k)'
    BY <1>1 DEF Changers, On
  <2>3. c \in Changers(k)' => cl.step \in Changing
    BY <1>1 DEF Changers
  <2> QED
    BY <1>3, <1>7, <2>1, <2>2, <2>3
<1>8. Orderly(k)'
  BY <1>7 DEF Alone, Orderly
<1>9. Found(k)'
  <2>1. Mutating(c)
    BY DEF Mutating, Changing, Filling, Dating
  <2>2. \A d \in Client : d # c /\ call[d].key = k => (call'[d].raced <=> call[d].op = "get")
    BY <2>1, Others
  <2>3. ASSUME NEW d \in On(k)', call'[d].op = "get", ~ call'[d].raced PROVE d = c
    BY <1>1, <2>2, <2>3 DEF On
  <2> QED
    BY <1>1, <2>3 DEF Found
<1> QED
  BY <1>5, <1>6, <1>8, <1>9

\* A step that only looks, or ends the call where it was, keeps the invariant.
LEMMA QuietStep ==
    ASSUME Inv, NEW c \in Client, NEW cl \in CallType, Steps(c, cl), NEW k \in Key, call[c].key = k,
           UNCHANGED <<dir, inode, Writes, Ghosts>>, Placed(cl),
           cl.key \in {k, <<>>}, cl.step \notin Changing,
           c \in Changers(k) /\ k \notin contended \cup torn => Clean(k),
           cl.step = "answered" /\ k \notin shared => IsWhole(cl.out),
           cl.op = "get" /\ ~ cl.raced =>
             /\ cl.step \in {"sidecar", "body"} => dir[k] # 0 /\ Clean(k)
             /\ cl.step = "body" => /\ cl.file = dir[Sidecar(k)]
                                    /\ cl.file # 0 => cl.token = inode[cl.file].lo
             /\ cl.step = "probe" => Value(k) \in lapsed
    PROVE  Inv'
<1>1. Typed /\ KeyInv(k)
  BY DEF Inv
<1>2. UNCHANGED <<dir, inode, writes, timed, inserts, lapsed, shared, contended, torn>> /\ UNCHANGED Writes
  BY DEF Writes, Ghosts
<1>3. PICK own \in [1..Len(inode) -> Key \X {"data", "side"}] : Belongs(own)
  BY DEF Inv
<1>4. Placed(cl)'
  BY <1>2 DEF Placed
<1>5. Typed'
  <2>1. Len(inode) \in Nat
    BY <1>1, FileFacts
  <2>2. /\ Len(inode) <= Len(inode') /\ inode' \in Seq(File) /\ dir' \in [Name -> 0..Len(inode')]
        /\ \A i \in 1..Len(inode') : /\ inode'[i].lo <= writes /\ inode'[i].hi <= writes
                                     /\ inode'[i].clock <= writes
    BY <1>1, <1>2, <2>1 DEF Typed
  <2> QED
    BY <1>1, <1>2, <1>4, <2>2, StepTyped
<1>6. Belongs(own)'
  <2>1. cl.step \notin Holding /\ cl.step # "token"
    BY DEF Changing, Holding, Dating
  <2>2. \A n \in Tmps(k) \cup {k} : dir'[n] # 0 => own[dir'[n]] = <<k, "data">>
    <3>1. \A n \in Tmps(k) \cup {k} : dir[n] # 0 => own[dir[n]] = <<k, "data">>
      BY <1>3 DEF Belongs
    <3> QED
      BY <1>2, <3>1
  <2>3. dir'[Sidecar(k)] # 0 => own[dir'[Sidecar(k)]] = <<k, "side">>
    BY <1>2, <1>3 DEF Belongs
  <2>4. Len(inode) \in Nat /\ Len(inode) <= Len(inode')
    BY <1>1, <1>2, FileFacts
  <2>5. own \in [1..Len(inode') -> Key \X {"data", "side"}]
    BY <1>2
  <2>6. \A n \in Name \ Names(k) : dir'[n] = dir[n]
    BY <1>2
  <2>7. Within(k, cl, own, own)
    BY <2>1, <2>2, <2>3, <2>4, <2>5, <2>6 DEF Within
  <2> QED
    BY <1>1, <1>3, <2>7, StepBelongs
<1>7. KeyInv(k)'
  BY <1>1, <1>2, Quiet
<1>8. OfKey(k)
  BY <1>2 DEF Inv, OfKey
<1> QED
  BY <1>2, <1>3, <1>5, <1>6, <1>7, <1>8, StepInv

\* A call that is under way has a key.
LEMMA Started ==
    ASSUME Inv, NEW c \in Client, call[c].step # "idle"
    PROVE  /\ Typed /\ call[c] \in CallType /\ Placed(call[c]) /\ Idle \in CallType /\ Placed(Idle)
           /\ \E k \in Key : call[c].key = k /\ KeyInv(k)
<1>1. Typed /\ call[c] \in CallType /\ Placed(call[c]) /\ \A k \in Key : KeyInv(k)
  BY DEF Inv, Typed
<1>2. call[c].key \in Key
  BY <1>1 DEF Placed
<1>3. Empty \in File
  BY DEF Empty, File
<1>4. Idle \in CallType
  BY <1>3 DEF Idle, CallType, AllOps, AllSteps
<1>5. Placed(Idle)
  <2>1. writes \in Nat /\ Len(inode) \in Nat
    BY <1>1, FileFacts DEF Typed
  <2> QED
    BY <2>1 DEF Placed, Idle, Filling, Dating, Reading, Writers, Replacers
<1> QED
  BY <1>1, <1>2, <1>4, <1>5

\* Ending a call where it was, with its key's files in order or others at work.
LEMMA EndsQuiet ==
    ASSUME Inv, NEW c \in Client, Ends(c), UNCHANGED <<dir, inode, Writes, Ghosts>>,
           call[c].step # "idle",
           \A k \in Key : call[c].key = k /\ c \in Changers(k) /\ k \notin contended \cup torn => Clean(k)
    PROVE  Inv'
<1>1. /\ Typed /\ call[c] \in CallType /\ Placed(call[c]) /\ Idle \in CallType /\ Placed(Idle)
      /\ \E k \in Key : call[c].key = k /\ KeyInv(k)
  BY Started
<1>2. PICK k \in Key : call[c].key = k
  BY <1>1
<1>3. Steps(c, Idle)
  BY DEF Ends
<1>4. /\ Idle.step \notin Changing /\ Idle.step # "answered" /\ Idle.op # "get" /\ Idle.key = <<>>
  BY DEF Idle, Changing, Filling, Dating
<1> QED
  BY <1>1, <1>2, <1>3, <1>4, QuietStep

-----------------------------------------------------------------------------
(***************************************************************************)
(* The steps of a read.                                                    *)
(***************************************************************************)

\* The steps that change a key's files are those of Mutating.
LEMMA MutatingSteps ==
    \A c \in Client : Mutating(c) <=> call[c].step \in Changing
BY DEF Mutating, Changing, Filling, Dating

\* A read finds the file; what it finds is in order if nobody is changing it.
LEMMA StatKeeps ==
    ASSUME Inv, NEW c \in Client, Stat(c)
    PROVE  Inv'
<1>1. call[c].step = "stat" /\ UNCHANGED <<dir, inode, Writes, Ghosts>>
  BY DEF Stat, At
<1>2. /\ Typed /\ call[c] \in CallType /\ Placed(call[c])
      /\ \E k \in Key : call[c].key = k /\ KeyInv(k)
  BY <1>1, Started
<1>3. PICK k \in Key : call[c].key = k /\ KeyInv(k)
  BY <1>2
<1>4. c \notin Changers(k)
  BY <1>1 DEF Changers, Changing, Filling, Dating
<1>5. CASE dir[k] = 0
  <2>1. Ends(c)
    BY <1>3, <1>5 DEF Stat
  <2> QED
    BY <1>1, <1>3, <1>4, <2>1, EndsQuiet
<1>6. CASE dir[k] # 0
  <2>1. PICK cl : cl = [call[c] EXCEPT !.step = "sidecar", !.raced = Disturbed(k)]
    OBVIOUS
  <2>2. Disturbed(k) \in BOOLEAN
    BY DEF Disturbed
  <2>3. /\ cl \in CallType /\ cl.step = "sidecar" /\ cl.key = k /\ cl.op = call[c].op /\ cl.id = call[c].id
        /\ cl.file = call[c].file /\ (cl.raced <=> Disturbed(k))
    BY <1>2, <1>3, <2>1, <2>2 DEF CallType, AllSteps, Reading
  <2>4. Steps(c, cl)
    BY <1>3, <1>6, <2>1 DEF Stat
  <2>5. call[c].op = "get"
    BY <1>1, <1>2 DEF Placed, Reading
  <2>6. Placed(cl)
    BY <1>2, <1>3, <2>3, <2>5 DEF Placed, Filling, Dating, Reading, Writers
  <2>7. ~ Disturbed(k) => Clean(k)
    <3>1. ASSUME ~ Disturbed(k) PROVE k \notin contended \cup torn /\ Changers(k) = {}
      BY <3>1, MutatingSteps DEF Disturbed, Changers, On
    <3> QED
      BY <1>3, <3>1 DEF KeyInv, Orderly
  <2>8. cl.step \notin Changing
    BY <2>3 DEF Changing, Filling, Dating
  <2> QED
    BY <1>1, <1>3, <1>4, <1>6, <2>3, <2>4, <2>6, <2>7, <2>8, QuietStep
<1> QED
  BY <1>5, <1>6

\* A read notes the sidecar.
LEMMA ReadSidecarKeeps ==
    ASSUME Inv, NEW c \in Client, ReadSidecar(c)
    PROVE  Inv'
<1>1. call[c].step = "sidecar" /\ UNCHANGED <<dir, inode, Writes, Ghosts>>
  BY DEF ReadSidecar, At
<1>2. /\ Typed /\ call[c] \in CallType /\ Placed(call[c])
      /\ \E k \in Key : call[c].key = k /\ KeyInv(k)
  BY <1>1, Started
<1>3. PICK k \in Key : call[c].key = k /\ KeyInv(k)
  BY <1>2
<1>4. c \notin Changers(k) /\ c \in On(k)
  BY <1>1, <1>3 DEF Changers, Changing, Filling, Dating, On
<1>5. PICK n : n = dir[Sidecar(k)]
  OBVIOUS
<1>6. n \in Nat /\ n <= Len(inode) /\ (n # 0 => inode[n] \in File)
  BY <1>2, <1>5, NameFacts, FileFacts
<1>7. PICK t : t = IF n = 0 THEN 0 ELSE inode[n].lo
  OBVIOUS
<1>8. t \in Nat
  BY <1>6, <1>7 DEF File
<1>9. PICK cl : cl = [call[c] EXCEPT !.step = "body", !.file = n, !.token = t]
  OBVIOUS
<1>10. /\ cl \in CallType /\ cl.step = "body" /\ cl.key = k /\ cl.op = call[c].op /\ cl.id = call[c].id
       /\ cl.file = n /\ cl.token = t /\ cl.raced = call[c].raced
  BY <1>2, <1>3, <1>6, <1>8, <1>9 DEF CallType, AllSteps, Reading
<1>11. Steps(c, cl)
  BY <1>3, <1>5, <1>7, <1>9 DEF ReadSidecar
<1>12. call[c].op = "get"
  BY <1>1, <1>2 DEF Placed, Reading
<1>13. Placed(cl)
  BY <1>2, <1>3, <1>6, <1>10, <1>12 DEF Placed, Filling, Dating, Reading, Writers
<1>14. ~ call[c].raced => dir[k] # 0 /\ Clean(k)
  BY <1>1, <1>3, <1>4, <1>12 DEF KeyInv, Found
<1>15. cl.step \notin Changing
  BY <1>10 DEF Changing, Filling, Dating
<1> QED
  BY <1>1, <1>3, <1>4, <1>5, <1>7, <1>10, <1>11, <1>13, <1>14, <1>15, QuietStep

\* A read that goes on to delete has read the token of the value that is there.
LEMMA ReadBodyKeeps ==
    ASSUME Inv, NEW c \in Client, ReadBody(c)
    PROVE  Inv'
<1>1. call[c].step = "body" /\ UNCHANGED <<dir, inode, Writes, Ghosts>>
  BY DEF ReadBody, At
<1>2. /\ Typed /\ call[c] \in CallType /\ Placed(call[c])
      /\ \E k \in Key : call[c].key = k /\ KeyInv(k)
  BY <1>1, Started
<1>3. PICK k \in Key : call[c].key = k /\ KeyInv(k)
  BY <1>2
<1>4. c \notin Changers(k) /\ c \in On(k) /\ call[c].op = "get"
  BY <1>1, <1>2, <1>3 DEF Changers, Changing, Filling, Dating, On, Placed, Reading
<1>5. CASE dir[k] = 0
  <2>1. Ends(c)
    BY <1>3, <1>5 DEF ReadBody
  <2> QED
    BY <1>1, <1>3, <1>4, <2>1, EndsQuiet
<1>6. CASE dir[k] # 0 /\ TokenExpired(c)
  <2>1. PICK cl : cl = [call[c] EXCEPT !.step = "probe"]
    OBVIOUS
  <2>2. /\ cl \in CallType /\ cl.step = "probe" /\ cl.key = k /\ cl.op = call[c].op /\ cl.id = call[c].id
        /\ cl.file = call[c].file /\ cl.raced = call[c].raced
    BY <1>2, <1>3, <2>1 DEF CallType, AllSteps
  <2>3. Steps(c, cl)
    BY <1>3, <1>6, <2>1 DEF ReadBody, Goes
  <2>4. Placed(cl)
    BY <1>2, <1>3, <1>4, <2>2 DEF Placed, Filling, Dating, Reading, Writers
  <2>5. ASSUME ~ call[c].raced PROVE Value(k) \in lapsed
    <3>1. /\ Clean(k) /\ call[c].file = dir[Sidecar(k)] /\ call[c].file # 0
          /\ call[c].token = inode[call[c].file].lo /\ (call[c].token = 0 \/ call[c].token \in lapsed)
      BY <1>1, <1>3, <1>4, <1>6, <2>5 DEF KeyInv, Found, TokenExpired
    <3>2. Value(k) \in timed /\ inode[call[c].file] = Whole(Value(k))
      BY <3>1 DEF Clean
    <3>3. call[c].token = Value(k)
      BY <3>1, <3>2 DEF Whole
    <3> QED
      BY <1>2, <3>1, <3>2, <3>3 DEF Typed
  <2>6. cl.step \notin Changing
    BY <2>2 DEF Changing, Filling, Dating
  <2> QED
    BY <1>1, <1>3, <1>4, <2>2, <2>3, <2>4, <2>5, <2>6, QuietStep
<1>7. CASE dir[k] # 0 /\ ~ TokenExpired(c)
  <2>1. PICK cl : cl = [call[c] EXCEPT !.step = "answered", !.out = inode[dir[k]]]
    OBVIOUS
  <2>2. inode[dir[k]] \in File
    BY <1>2, <1>7, NameFacts, FileFacts
  <2>3. /\ cl \in CallType /\ cl.step = "answered" /\ cl.key = k /\ cl.op = call[c].op /\ cl.id = call[c].id
        /\ cl.file = call[c].file /\ cl.raced = call[c].raced /\ cl.out = inode[dir[k]]
    BY <1>2, <1>3, <2>1, <2>2 DEF CallType, AllSteps, Reading
  <2>4. Steps(c, cl)
    BY <1>3, <1>7, <2>1 DEF ReadBody
  <2>5. Placed(cl)
    BY <1>2, <1>3, <1>4, <2>3 DEF Placed, Filling, Dating, Reading, Writers
  <2>6. k \notin shared => IsWhole(cl.out)
    BY <1>3, <1>7, <2>3 DEF KeyInv, IsWholeAt
  <2>7. cl.step \notin Changing
    BY <2>3 DEF Changing, Filling, Dating
  <2> QED
    BY <1>1, <1>3, <1>4, <2>3, <2>4, <2>5, <2>6, <2>7, QuietStep
<1> QED
  BY <1>5, <1>6, <1>7

\* A read returns.
LEMMA ReturnKeeps ==
    ASSUME Inv, NEW c \in Client, Return(c)
    PROVE  Inv'
<1>1. call[c].step = "answered" /\ Ends(c) /\ UNCHANGED <<dir, inode, Writes, Ghosts>>
  BY DEF Return, At
<1>2. \A k \in Key : c \notin Changers(k)
  BY <1>1 DEF Changers, Changing, Filling, Dating
<1> QED
  BY <1>1, <1>2, EndsQuiet

-----------------------------------------------------------------------------
(***************************************************************************)
(* Steps that change the files of a key.                                   *)
(***************************************************************************)

\* The temporary files of the other calls, and the bodies of the other inserts, after a
\* step that leaves them alone.
LEMMA OthersFiles ==
    ASSUME Typed, NEW c \in Client, NEW cl \in CallType, Steps(c, cl), NEW k \in Key, call[c].key = k,
           KeyInv(k), shared \subseteq shared', UNCHANGED timed,
           k \notin shared' => \A d \in Fillers(k) : d # c =>
             dir'[Tmp(d)] = dir[Tmp(d)] /\ inode'[call[d].file] = inode[call[d].file],
           \A d \in On(k) : d # c /\ call[d].step = "link" =>
             /\ inode'[call[d].file] = inode[call[d].file]
             /\ \A n \in Tmps(k) \cup {k} : dir'[n] # call[d].file
             /\ cl.step \in Holding => cl.file # call[d].file,
           cl.key = k /\ cl.step \in Filling => cl.op = call[c].op,
           k \notin shared' /\ cl.step \in Filling =>
             /\ dir'[Tmp(c)] = cl.file /\ inode'[cl.file].clock = 0
             /\ cl.step = "rest" => inode'[cl.file].lo = cl.id
             /\ cl.step = "replace" => inode'[cl.file].lo = cl.id /\ inode'[cl.file].hi = cl.id,
           cl.step = "link" =>
             /\ inode'[cl.file] = [Whole(cl.id) EXCEPT !.clock = IF cl.id \in timed THEN cl.id ELSE 0]
             /\ \A n \in Tmps(k) \cup {k} : dir'[n] # cl.file
             /\ \A d \in On(k) : d # c /\ call[d].step \in Holding => call[d].file # cl.file
    PROVE  Filled(k)' /\ Linked(k)'
<1>1. /\ call'[c] = cl
      /\ \A d \in Client : d # c =>
           /\ call'[d].op = call[d].op /\ call'[d].step = call[d].step /\ call'[d].key = call[d].key
           /\ call'[d].id = call[d].id /\ call'[d].file = call[d].file
  BY Others
<1>2. /\ \A d \in On(k)' : d \in Client /\ call'[d].key = k /\ (d # c => d \in On(k))
      /\ \A d \in Fillers(k)' : d \in Client /\ call'[d].key = k /\ call'[d].step \in Filling
      /\ \A d \in Fillers(k)' : d # c => d \in Fillers(k)
  BY <1>1 DEF On, Fillers
<1>3. ASSUME NEW d \in Fillers(k)', k \notin shared'
      PROVE  /\ dir'[Tmp(d)'] = call'[d].file /\ inode'[call'[d].file].clock = 0
             /\ call'[d].step = "rest" => inode'[call'[d].file].lo = call'[d].id
             /\ call'[d].step = "replace" =>
                  inode'[call'[d].file].lo = call'[d].id /\ inode'[call'[d].file].hi = call'[d].id
  <2>1. CASE d = c
    <3>1. cl.key = k /\ cl.step \in Filling
      BY <1>1, <1>2, <1>3, <2>1
    <3>2. Tmp(c)' = Tmp(c)
      BY <1>1, <3>1 DEF Tmp
    <3> QED
      BY <1>1, <1>3, <2>1, <3>1, <3>2
  <2>2. CASE d # c
    <3>1. d \in Client /\ d \in Fillers(k) /\ k \notin shared
      BY <1>2, <1>3, <2>2
    <3>2. Tmp(d)' = Tmp(d)
      BY <1>1, <2>2, <3>1 DEF Tmp
    <3>3. /\ dir[Tmp(d)] = call[d].file /\ inode[call[d].file].clock = 0
          /\ call[d].step = "rest" => inode[call[d].file].lo = call[d].id
          /\ call[d].step = "replace" =>
               inode[call[d].file].lo = call[d].id /\ inode[call[d].file].hi = call[d].id
      BY <3>1 DEF KeyInv, Filled
    <3> QED
      BY <1>1, <1>3, <2>2, <3>1, <3>2, <3>3
  <2> QED
    BY <2>1, <2>2
<1>4. Filled(k)'
  BY <1>3 DEF Filled
<1>5. ASSUME NEW d \in On(k)', call'[d].step = "link"
      PROVE  /\ inode'[call'[d].file] =
                  [Whole(call'[d].id) EXCEPT !.clock = IF call'[d].id \in timed THEN call'[d].id ELSE 0]
             /\ \A n \in Tmps(k) \cup {k} : dir'[n] # call'[d].file
             /\ \A e \in On(k)' : e # d /\ call'[e].step \in Holding => call'[e].file # call'[d].file
  <2>1. CASE d = c
    BY <1>1, <1>2, <1>5, <2>1
  <2>2. CASE d # c
    <3>1. d \in On(k) /\ d \in Client /\ call[d].step = "link" /\ call'[d].file = call[d].file
          /\ call'[d].id = call[d].id
      BY <1>1, <1>2, <1>5, <2>2
    <3>2. /\ inode[call[d].file] =
               [Whole(call[d].id) EXCEPT !.clock = IF call[d].id \in timed THEN call[d].id ELSE 0]
          /\ \A e \in On(k) : e # d /\ call[e].step \in Holding => call[e].file # call[d].file
      BY <3>1 DEF KeyInv, Linked
    <3>3. \A e \in On(k)' : e # d /\ call'[e].step \in Holding => call'[e].file # call[d].file
      BY <1>1, <1>2, <2>2, <3>1, <3>2
    <3> QED
      BY <2>2, <3>1, <3>2, <3>3
  <2> QED
    BY <2>1, <2>2
<1>6. Linked(k)'
  BY <1>5 DEF Linked
<1> QED
  BY <1>4, <1>6

\* A step that changes files of its key keeps the invariant if it keeps it for its key.
LEMMA StepKeeps ==
    ASSUME Inv, NEW c \in Client, NEW cl \in CallType, Steps(c, cl), NEW k \in Key, call[c].key = k,
           UNCHANGED Writes, Placed(cl)', cl.key \in {k, <<>>},
           NEW own, Belongs(own), NEW own1, Within(k, cl, own, own1),
           inode' \in Seq(File), dir' \in [Name -> 0..Len(inode')],
           \A i \in 1..Len(inode') : /\ inode'[i].lo <= writes /\ inode'[i].hi <= writes
                                     /\ inode'[i].clock <= writes,
           \A i \in 1..Len(inode) : own[i][1] # k => inode'[i] = inode[i],
           OfKey(k), KeyInv(k)'
    PROVE  Inv'
<1>1. Typed
  BY DEF Inv
<1>2. Typed'
  BY <1>1, StepTyped DEF Within
<1>3. Belongs(own1)'
  BY <1>1, StepBelongs
<1>4. \A n \in Name \ Names(k) : dir'[n] = dir[n]
  BY DEF Within
<1> QED
  BY <1>2, <1>3, <1>4, StepInv

\* Where nothing is noted anew, a call that changes a key's files is alone at it or
\* known not to be.
LEMMA SameNotes ==
    ASSUME Inv, NEW c \in Client, NEW k \in Key, c \in Changers(k), UNCHANGED <<shared, contended, torn>>
    PROVE  Alone(c, k)
<1>1. KeyInv(k) /\ contended \cup torn \subseteq Key
  BY DEF Inv
<1> QED
  BY <1>1 DEF Alone, OfKey, KeyInv, Uncontended, Orderly

\* So it is where a call that is alone puts the key in order.
LEMMA Mended ==
    ASSUME Inv, NEW c \in Client, NEW k \in Key, call[c].key = k, c \in Changers(k), Mends(c), UNCHANGED shared
    PROVE  Alone(c, k)
<1>1. CASE k \notin shared /\ \A d \in Client \ {c} : call[d].key = k => ~ Mutating(d)
  <2>1. contended' = contended \ {k} /\ torn' = torn \ {k}
    BY <1>1 DEF Mends
  <2>2. \A d \in Changers(k) : d = c
    BY <1>1, MutatingSteps DEF Changers, On
  <2> QED
    BY <1>1, <2>1, <2>2 DEF Alone, OfKey, Inv
<1>2. CASE ~ (k \notin shared /\ \A d \in Client \ {c} : call[d].key = k => ~ Mutating(d))
  <2>1. UNCHANGED <<contended, torn>>
    BY <1>2 DEF Mends
  <2> QED
    BY <2>1, SameNotes
<1> QED
  BY <1>1, <1>2

\* A call that changes files of key k goes on to change more, or ends.
Onward(c, cl, k) ==
    /\ call[c].step \in Changing /\ Placed(cl)
    /\ \/ cl = Idle
       \/ /\ cl.step \in Changing \ {"unlink", "link"}
          /\ cl.key = k /\ cl.op = call[c].op /\ cl.id = call[c].id
    /\ cl.step \in Holding => call[c].step \in Filling /\ cl.file = call[c].file

\* How far it has come, where nobody else changes them.
SoFar(c, cl, k) ==
    k \notin contended' =>
      /\ cl.step \in Changing => Halfway(c, k)'
      /\ cl.step \notin Changing /\ k \notin torn' => Clean(k)'
      /\ Dated(k)'

\* What is said of a call that goes on.
LEMMA OnwardFacts ==
    ASSUME NEW c \in Client, NEW cl \in CallType, NEW k \in Key, Onward(c, cl, k)
    PROVE  /\ cl.step \in Holding => cl.step \in Filling /\ call[c].step \in Filling /\ cl.file = call[c].file
           /\ cl.step \in Filling => call[c].step \in Filling /\ cl.file = call[c].file /\ cl.key = k
           /\ cl.step \in Changing => cl.key = k /\ cl.op = call[c].op /\ cl.id = call[c].id
           /\ cl.step \notin {"sidecar", "body", "probe", "unlink", "link", "answered"}
           /\ cl.step \notin Changing => cl.step = "idle"
           /\ cl.key \in {k, <<>>} /\ call[c].step \in Changing /\ Placed(cl)
<1>1. Idle.step = "idle" /\ Idle.key = <<>>
  BY DEF Idle
<1> QED
  BY <1>1 DEF Onward, Holding, Changing, Filling, Dating

\* A step that goes on keeps, of its key, what is said of calls.
LEMMA OnwardKeeps ==
    ASSUME Typed, NEW c \in Client, NEW cl \in CallType, Steps(c, cl), NEW k \in Key, call[c].key = k,
           KeyInv(k), Alone(c, k), Onward(c, cl, k), SoFar(c, cl, k)
    PROVE  Unshared(k)' /\ Uncontended(k)' /\ Orderly(k)' /\ Dated(k)' /\ Found(k)'
<1>1. /\ cl.step \in Filling => call[c].step \in Filling
      /\ cl.step \in Changing => cl.key = k /\ cl.op = call[c].op
      /\ cl.step \notin {"sidecar", "body", "probe", "unlink"}
      /\ cl.step \notin Changing => cl.step = "idle"
      /\ call[c].step \in Changing
  BY OnwardFacts
<1>2. Dated(k)'
  BY DEF SoFar, Dated
<1> QED
  BY <1>1, <1>2, Continues DEF SoFar

\* Writing g into file i of key k does no harm to the files of the other calls, nor to
\* the data file.
Harmless(c, cl, k, own, i, g) ==
    /\ i \in 1..Len(inode) /\ own[i][1] = k /\ inode' = [inode EXCEPT ![i] = g]
    /\ g \in File /\ g.lo <= writes /\ g.hi <= writes /\ g.clock <= writes
    /\ cl.step = "token" => cl.file # 0 /\ own[cl.file] = <<k, "side">>
    /\ \A d \in On(k) : d # c /\ call[d].step = "link" => call[d].file # i
    /\ k \notin shared => \A d \in Fillers(k) : d # c => call[d].file # i
    /\ k \notin shared /\ cl.step \in Filling =>
         /\ i = call[c].file /\ g.clock = 0
         /\ cl.step = "rest" => g.lo = cl.id
         /\ cl.step = "replace" => g.lo = cl.id /\ g.hi = cl.id
    /\ k \notin shared => dir[k] # i \/ IsWhole(g)

\* A step that goes on and writes one file of its key.
LEMMA Rewrites ==
    ASSUME Inv, NEW c \in Client, NEW cl \in CallType, Steps(c, cl), NEW k \in Key, call[c].key = k,
           UNCHANGED <<dir, Writes, Ghosts>>, Onward(c, cl, k), SoFar(c, cl, k), c \in Changers(k),
           NEW own, Belongs(own), NEW i, NEW g, Harmless(c, cl, k, own, i, g)
    PROVE  Inv'
<1> USE DEF Harmless
<1>1. Typed /\ KeyInv(k) /\ UNCHANGED <<dir, writes, timed, inserts, lapsed, shared, contended, torn>> /\ UNCHANGED Writes
  BY DEF Inv, Writes, Ghosts
<1>2. /\ Len(inode) \in Nat /\ inode' \in Seq(File) /\ Len(inode') = Len(inode)
      /\ \A j \in 1..Len(inode) : inode'[j] = IF j = i THEN g ELSE inode[j]
  BY <1>1, Rewritten, FileFacts DEF Typed
<1>3. /\ cl.step \in Holding => cl.step \in Filling /\ call[c].step \in Filling /\ cl.file = call[c].file
      /\ cl.step \in Filling => call[c].step \in Filling /\ cl.file = call[c].file /\ cl.key = k
      /\ cl.step \in Changing => cl.key = k /\ cl.op = call[c].op /\ cl.id = call[c].id
      /\ cl.step # "link" /\ cl.step # "answered"
      /\ cl.key \in {k, <<>>} /\ call[c].step \in Changing /\ Placed(cl)
  BY OnwardFacts
<1>4. Placed(cl)'
  BY <1>1, <1>2, <1>3 DEF Placed
<1>5. Within(k, cl, own, own)
  <2>1. cl.step \in Holding => cl.file # 0 /\ own[cl.file] = <<cl.key, "data">>
    <3>1. call[c].step \in Holding => call[c].file # 0 /\ own[call[c].file] = <<k, "data">>
      BY DEF Belongs
    <3> QED
      BY <1>3, <3>1 DEF Holding
  <2>2. cl.step = "token" => cl.file # 0 /\ own[cl.file] = <<cl.key, "side">>
    BY <1>3 DEF Changing, Dating
  <2>3. /\ \A n \in Tmps(k) \cup {k} : dir[n] # 0 => own[dir[n]] = <<k, "data">>
        /\ dir[Sidecar(k)] # 0 => own[dir[Sidecar(k)]] = <<k, "side">>
        /\ own \in [1..Len(inode) -> Key \X {"data", "side"}]
    BY DEF Belongs
  <2> QED
    BY <1>1, <1>2, <2>1, <2>2, <2>3 DEF Within
<1>6. \A n \in Tmps(k) \cup {k} : n \in Name /\ dir[n] \in 0..Len(inode)
  BY <1>1, NameFacts, FileFacts
<1>7. OneName(k)'
  BY <1>1 DEF KeyInv, OneName
<1>8. Filled(k)' /\ Linked(k)'
  <2>1. ASSUME NEW d \in On(k), call[d].step \in Holding PROVE call[d].file \in 1..Len(inode)
    BY <1>1, <1>2, <2>1 DEF Belongs, On, Typed, Placed, CallType
  <2>2. k \notin shared' => \A d \in Fillers(k) : d # c =>
           dir'[Tmp(d)] = dir[Tmp(d)] /\ inode'[call[d].file] = inode[call[d].file]
    BY <1>1, <1>2, <2>1 DEF Fillers, Holding
  <2>3. \A d \in On(k) : d # c /\ call[d].step = "link" =>
          /\ inode'[call[d].file] = inode[call[d].file]
          /\ \A n \in Tmps(k) \cup {k} : dir'[n] # call[d].file
          /\ cl.step \in Holding => cl.file # call[d].file
    <3>1. ASSUME NEW d \in On(k), d # c, call[d].step = "link"
          PROVE  /\ \A n \in Tmps(k) \cup {k} : dir[n] # call[d].file
                 /\ call[c].step \in Holding => call[c].file # call[d].file
                 /\ call[d].file \in 1..Len(inode)
      <4>1. c \in On(k)
        BY DEF On
      <4> QED
        BY <1>1, <2>1, <3>1, <4>1 DEF KeyInv, Linked, Holding
    <3> QED
      BY <1>1, <1>2, <1>3, <3>1 DEF Holding
  <2>4. k \notin shared' /\ cl.step \in Filling =>
             /\ dir'[Tmp(c)] = cl.file /\ inode'[cl.file].clock = 0
             /\ cl.step = "rest" => inode'[cl.file].lo = cl.id
             /\ cl.step = "replace" => inode'[cl.file].lo = cl.id /\ inode'[cl.file].hi = cl.id
    <3>1. ASSUME k \notin shared, cl.step \in Filling PROVE dir[Tmp(c)] = call[c].file
      <4>1. c \in Fillers(k)
        BY <1>3, <3>1 DEF Fillers, On
      <4> QED
        BY <1>1, <3>1, <4>1 DEF KeyInv, Filled
    <3> QED
      BY <1>1, <1>2, <1>3, <3>1
  <2>5. cl.key = k /\ cl.step \in Filling => cl.op = call[c].op
    BY <1>3 DEF Changing
  <2> QED
    BY <1>1, <1>3, <2>2, <2>3, <2>4, <2>5, OthersFiles
<1>9. IsWholeAt(k)'
  <2>1. k \notin shared /\ dir[k] # 0 => IsWhole(inode'[dir[k]])
    BY <1>1, <1>2, <1>6 DEF KeyInv, IsWholeAt
  <2>2. \A d \in On(k)' : call'[d].step = "answered" => d \in On(k) /\ call[d].step = "answered" /\ call'[d].out = call[d].out
    BY <1>1, <1>3, Others DEF On
  <2> QED
    BY <1>1, <2>1, <2>2 DEF KeyInv, IsWholeAt, At
<1>13. Alone(c, k) /\ OfKey(k)
  BY <1>1, SameNotes DEF Alone
<1>10. Unshared(k)' /\ Uncontended(k)' /\ Orderly(k)' /\ Dated(k)' /\ Found(k)'
  BY <1>1, <1>13, OnwardKeeps
<1>11. KeyInv(k)'
  BY <1>7, <1>8, <1>9, <1>10 DEF KeyInv
<1>12. /\ dir' \in [Name -> 0..Len(inode')]
       /\ \A j \in 1..Len(inode') : /\ inode'[j].lo <= writes /\ inode'[j].hi <= writes
                                    /\ inode'[j].clock <= writes
       /\ \A j \in 1..Len(inode) : own[j][1] # k => inode'[j] = inode[j]
  BY <1>1, <1>2 DEF Typed
<1> QED
  BY <1>1, <1>2, <1>3, <1>4, <1>5, <1>11, <1>12, <1>13, StepKeeps

\* The names of key k are moved so that no file gets a second one and the other calls
\* find theirs.
Relinked(c, k, own) ==
    /\ dir' \in [Name -> 0..Len(inode)] /\ \A n \in Name \ Names(k) : dir'[n] = dir[n]
    /\ \A n \in Tmps(k) \cup {k} : dir'[n] # 0 => own[dir'[n]] = <<k, "data">>
    /\ dir'[Sidecar(k)] \in {0, dir[Sidecar(k)]}
    /\ \A m, n \in Tmps(k) \cup {k} : dir'[m] = dir'[n] /\ dir'[n] # 0 => m = n
    /\ \A d \in On(k) : d # c /\ call[d].step = "link" =>
         \A n \in Tmps(k) \cup {k} : dir'[n] # call[d].file
    /\ k \notin shared => \A d \in Fillers(k) : d # c => dir'[Tmp(d)] = dir[Tmp(d)]
    /\ k \notin shared /\ dir'[k] # 0 => IsWhole(inode[dir'[k]])

\* A step that goes on and renames or unlinks files of its key.
LEMMA Renames ==
    ASSUME Inv, NEW c \in Client, NEW cl \in CallType, Steps(c, cl), NEW k \in Key, call[c].key = k,
           UNCHANGED <<inode, Writes>>, Alone(c, k), Onward(c, cl, k), SoFar(c, cl, k),
           cl.step \notin Holding, cl.step # "token", NEW own, Belongs(own), Relinked(c, k, own)
    PROVE  Inv'
<1> USE DEF Relinked
<1>0. OneName(k)'
  BY DEF OneName
<1>1. /\ Typed /\ KeyInv(k) /\ UNCHANGED <<inode, writes, timed, inserts, lapsed, shared>> /\ UNCHANGED Writes
      /\ OfKey(k)
  BY DEF Inv, Writes, Alone
<1>2. Len(inode) \in Nat /\ inode' \in Seq(File)
  BY <1>1, FileFacts DEF Typed
<1>3. /\ cl.step \in Filling => cl.step \in Holding
      /\ cl.step # "link" /\ cl.step # "answered"
      /\ cl.key \in {k, <<>>} /\ call[c].step \in Changing /\ Placed(cl)
  BY OnwardFacts DEF Holding
<1>4. Placed(cl)'
  BY <1>1, <1>3 DEF Placed
<1>5. Within(k, cl, own, own)
  <2>1. /\ dir[Sidecar(k)] # 0 => own[dir[Sidecar(k)]] = <<k, "side">>
        /\ own \in [1..Len(inode) -> Key \X {"data", "side"}]
    BY DEF Belongs
  <2> QED
    BY <1>1, <1>2, <2>1 DEF Within
<1>6. Filled(k)' /\ Linked(k)'
  BY <1>1, <1>3, OthersFiles
<1>7. IsWholeAt(k)'
  <2>1. \A d \in On(k)' : call'[d].step = "answered" => d \in On(k) /\ call[d].step = "answered" /\ call'[d].out = call[d].out
    BY <1>1, <1>3, Others DEF On
  <2> QED
    BY <1>1, <2>1 DEF KeyInv, IsWholeAt, At
<1>8. Unshared(k)' /\ Uncontended(k)' /\ Orderly(k)' /\ Dated(k)' /\ Found(k)'
  BY <1>1, OnwardKeeps
<1>9. KeyInv(k)'
  BY <1>0, <1>6, <1>7, <1>8 DEF KeyInv
<1>10. /\ dir' \in [Name -> 0..Len(inode')]
       /\ \A j \in 1..Len(inode') : /\ inode'[j].lo <= writes /\ inode'[j].hi <= writes
                                    /\ inode'[j].clock <= writes
       /\ \A j \in 1..Len(inode) : own[j][1] # k => inode'[j] = inode[j]
  BY <1>1 DEF Typed
<1> QED
  BY <1>1, <1>2, <1>3, <1>4, <1>5, <1>9, <1>10, StepKeeps

-----------------------------------------------------------------------------
(***************************************************************************)
(* One lemma per step that goes on.                                        *)
(***************************************************************************)

\* A change under way: the call, its key, and what the files are for.
LEMMA UnderWay ==
    ASSUME Inv, NEW c \in Client, call[c].step \in Changing
    PROVE  /\ Typed /\ call[c] \in CallType /\ Placed(call[c]) /\ Idle \in CallType /\ Placed(Idle)
           /\ Len(inode) \in Nat /\ writes \in Nat
           /\ \E k \in Key : /\ call[c].key = k /\ KeyInv(k) /\ c \in Changers(k) /\ c \in On(k)
                             /\ call[c].step \in Filling => c \in Fillers(k)
           /\ \E own : Belongs(own)
<1>1. call[c].step # "idle"
  BY DEF Changing, Filling, Dating
<1>2. /\ Typed /\ call[c] \in CallType /\ Placed(call[c]) /\ Idle \in CallType /\ Placed(Idle)
      /\ \E k \in Key : call[c].key = k /\ KeyInv(k)
  BY <1>1, Started
<1>3. Len(inode) \in Nat /\ writes \in Nat
  BY <1>2, FileFacts DEF Typed
<1> QED
  BY <1>2, <1>3 DEF Inv, Changers, On, Fillers

\* A temporary file in use by one has no other name, and is no other call's.
LEMMA OwnTmp ==
    ASSUME Inv, NEW c \in Client, NEW k \in Key, KeyInv(k), c \in Fillers(k), k \notin shared
    PROVE  /\ dir[Tmp(c)] = call[c].file /\ Tmp(c) \in Tmps(k) /\ call[c].file # 0 /\ dir[k] # call[c].file
           /\ \A d \in Fillers(k) : d # c =>
                dir[Tmp(d)] = call[d].file /\ Tmp(d) # Tmp(c) /\ call[d].file # call[c].file /\ Tmp(d) \in Tmps(k)
<1>1. \A d \in Fillers(k) : d \in Client /\ call[d].key = k /\ call[d].step \in Holding
  BY DEF Fillers, On, Holding
<1>2. \A d \in Fillers(k) : dir[Tmp(d)] = call[d].file /\ Tmp(d) \in Tmps(k)
  BY <1>1, TmpFacts DEF KeyInv, Filled
<1>3. \A d \in Fillers(k) : call[d].file # 0
  BY <1>1 DEF Inv, Belongs
<1>4. k \notin Tmps(k)
  BY NameFacts
<1>5. \A d \in Fillers(k) : d # c => Tmp(d) # Tmp(c)
  BY DEF KeyInv, Unshared
<1> QED
  BY <1>2, <1>3, <1>4, <1>5 DEF KeyInv, OneName

\* Data and sidecar are files of their own.
LEMMA Apart ==
    ASSUME NEW own, Belongs(own), NEW k \in Key, NEW i, own[i] = <<k, "data">>
    PROVE  dir[Sidecar(k)] # 0 => dir[Sidecar(k)] # i
<1>1. dir[Sidecar(k)] # 0 => own[dir[Sidecar(k)]] = <<k, "side">>
  BY DEF Belongs
<1>2. <<k, "data">> # <<k, "side">>
  OBVIOUS
<1> QED
  BY <1>1, <1>2

\* A key's files belong together as before where its two files are as before.
LEMMA CleanKept ==
    ASSUME Typed, NEW k \in Key, UNCHANGED Writes, dir'[k] = dir[k], dir'[Sidecar(k)] = dir[Sidecar(k)],
           dir[k] # 0 => inode'[dir[k]] = inode[dir[k]],
           dir[Sidecar(k)] # 0 => inode'[dir[Sidecar(k)]] = inode[dir[Sidecar(k)]]
    PROVE  /\ Value(k)' = Value(k) /\ (Clean(k)' <=> Clean(k))
           /\ k \notin contended /\ Dated(k) => Dated(k)'
<1>1. Value(k)' = Value(k) /\ UNCHANGED <<timed, inserts>>
  BY DEF Value, Writes
<1>2. Value(k) \in timed => dir[k] # 0
  BY DEF Value, Typed
<1>3. Clean(k)' <=> Clean(k)
  BY <1>1, <1>2 DEF Clean
<1> QED
  BY <1>1, <1>3 DEF Dated

\* Filling a temporary file.
LEMMA Pours ==
    ASSUME Inv, NEW c \in Client, call[c].step \in {"fill", "rest"}, NEW st \in {"rest", "replace"}, NEW g,
           st = "rest" => call[c].op = "write_stream",
           inode' = [inode EXCEPT ![call[c].file] = g], Goes(c, st), UNCHANGED <<dir, Writes, Ghosts>>,
           inode[call[c].file] \in File => g \in File,
           \A w \in Nat : /\ inode[call[c].file].lo <= w /\ inode[call[c].file].hi <= w
                          /\ inode[call[c].file].clock <= w /\ call[c].id <= w
                          => g.lo <= w /\ g.hi <= w /\ g.clock <= w,
           inode[call[c].file].clock = 0 => g.clock = 0,
           st = "rest" => g.lo = call[c].id,
           st = "replace" /\ (call[c].step = "rest" => inode[call[c].file].lo = call[c].id) =>
             g.lo = call[c].id /\ g.hi = call[c].id
    PROVE  Inv'
<1>0. call[c].step \in Filling /\ call[c].step \in Changing /\ call[c].step \in Holding
  BY DEF Changing, Filling, Holding
<1>1. /\ Typed /\ call[c] \in CallType /\ Placed(call[c])
      /\ Len(inode) \in Nat /\ writes \in Nat
      /\ \E k \in Key : /\ call[c].key = k /\ KeyInv(k) /\ c \in Changers(k) /\ c \in On(k)
                        /\ call[c].step \in Filling => c \in Fillers(k)
      /\ \E own : Belongs(own)
  BY <1>0, UnderWay
<1>2. PICK k \in Key : call[c].key = k /\ KeyInv(k) /\ c \in Changers(k) /\ c \in On(k) /\ c \in Fillers(k)
  BY <1>0, <1>1
<1>3. PICK own : Belongs(own)
  BY <1>1
<1>4. PICK i : i = call[c].file
  OBVIOUS
<1>5. own[i] = <<k, "data">> /\ i \in 1..Len(inode) /\ inode[i] \in File
  <2>1. call[c].file # 0 /\ own[call[c].file] = <<k, "data">>
    BY <1>0, <1>2, <1>3 DEF Belongs
  <2>2. call[c].file \in Nat /\ call[c].file <= Len(inode)
    BY <1>1 DEF Placed, CallType
  <2> QED
    BY <1>1, <1>4, <2>1, <2>2, FileFacts
<1>6. own[i][1] = k
  BY <1>5
<1>7. g \in File /\ g.lo <= writes /\ g.hi <= writes /\ g.clock <= writes
  <2>1. inode[i].lo <= writes /\ inode[i].hi <= writes /\ inode[i].clock <= writes
    BY <1>1, <1>5 DEF Typed
  <2>2. call[c].id <= writes
    BY <1>1 DEF Placed
  <2> QED
    BY <1>1, <1>4, <1>5, <2>1, <2>2
<1>8. PICK cl : cl = [call[c] EXCEPT !.step = st]
  OBVIOUS
<1>9. /\ cl \in CallType /\ cl.step = st /\ cl.key = k /\ cl.op = call[c].op /\ cl.id = call[c].id
      /\ cl.file = call[c].file /\ cl.raced = call[c].raced
  BY <1>1, <1>2, <1>8 DEF CallType, AllSteps, Changing, Filling
<1>10. Steps(c, cl)
  BY <1>8 DEF Goes
<1>11. Placed(cl)
  BY <1>0, <1>1, <1>2, <1>9 DEF Placed, Filling, Dating, Reading, Writers, Replacers
<1>12. Onward(c, cl, k) /\ cl.step \in Holding /\ cl.step # "token"
  BY <1>0, <1>9, <1>11 DEF Onward, Holding, Filling, Changing
<1>13. k \notin shared => /\ dir[Tmp(c)] = i /\ dir[k] # i
                          /\ \A d \in Fillers(k) : d # c => call[d].file # i
  BY <1>2, <1>4, OwnTmp
<1>14. k \notin shared => /\ inode[i].clock = 0
                          /\ call[c].step = "rest" => inode[i].lo = call[c].id
  BY <1>2, <1>4 DEF KeyInv, Filled
<1>15. \A d \in On(k) : d # c /\ call[d].step = "link" => call[d].file # i
  BY <1>0, <1>2, <1>4 DEF KeyInv, Linked
<1>16. SoFar(c, cl, k)
  <2>9. UNCHANGED <<contended, torn>>
    BY DEF Ghosts
  <2> SUFFICES ASSUME k \notin contended PROVE Halfway(c, k)' /\ Dated(k)'
    BY <1>12, <2>9 DEF SoFar, Holding, Changing
  <2>1. k \notin shared
    BY <1>2 DEF KeyInv, Orderly
  <2>2. k \notin torn => Clean(k)
    BY <1>0, <1>2 DEF KeyInv, Orderly, Halfway
  <2>3. dir[Sidecar(k)] # 0 => dir[Sidecar(k)] # i
    BY <1>3, <1>5, Apart
  <2>4. \A j \in 1..Len(inode) : j # i => inode'[j] = inode[j]
    BY <1>1, <1>4, <1>5, <1>7, Rewritten DEF Typed
  <2>5. \A n \in {k, Sidecar(k)} : dir[n] # 0 => inode'[dir[n]] = inode[dir[n]]
    BY <1>1, <1>13, <2>1, <2>3, <2>4, NameFacts, FileFacts
  <2>6. UNCHANGED dir /\ UNCHANGED Writes
    OBVIOUS
  <2>7. (Clean(k)' <=> Clean(k)) /\ Dated(k)'
    BY <1>1, <1>2, <2>5, <2>6, CleanKept DEF KeyInv
  <2>8. call'[c] = cl
    BY <1>1, <1>9, <1>10, Others
  <2> QED
    BY <1>9, <2>2, <2>7, <2>8, <2>9 DEF Halfway, Dating
<1>17. k \notin shared /\ cl.step \in Filling =>
         /\ i = call[c].file /\ g.clock = 0
         /\ cl.step = "rest" => g.lo = cl.id
         /\ cl.step = "replace" => g.lo = cl.id /\ g.hi = cl.id
  BY <1>4, <1>9, <1>14
<1>18. inode' = [inode EXCEPT ![i] = g]
  BY <1>4
<1>19. Harmless(c, cl, k, own, i, g)
  BY <1>5, <1>6, <1>7, <1>12, <1>13, <1>15, <1>17, <1>18 DEF Harmless
<1> QED
  BY <1>2, <1>3, <1>9, <1>10, <1>12, <1>16, <1>19, Rewrites

\* A writer has a file.
LEMMA HeldFile ==
    ASSUME Inv, NEW c \in Client, call[c].step \in Holding \cup {"token"}
    PROVE  call[c].file \in 1..Len(inode) /\ inode[call[c].file] \in File
<1>1. Typed /\ \E own : Belongs(own)
  BY DEF Inv
<1>2. call[c].file # 0
  BY <1>1 DEF Belongs
<1>3. call[c].file \in Nat /\ call[c].file <= Len(inode)
  BY <1>1 DEF Typed, Placed, CallType
<1> QED
  BY <1>1, <1>2, <1>3, FileFacts

\* write_bytes, or the first piece of a stream.
LEMMA FillKeeps ==
    ASSUME Inv, NEW c \in Client, Fill(c)
    PROVE  Inv'
<1>1. call[c].step = "fill" /\ call[c].op \in Replacers /\ call[c].id \in Nat
  BY DEF Fill, At, Inv, Typed, Placed, Filling, CallType
<1>2. UNCHANGED <<dir, Writes, Ghosts>>
  BY DEF Fill
<1>3. CASE call[c].op = "write"
  <2>1. PICK g : g = Whole(call[c].id)
    OBVIOUS
  <2>2. inode' = [inode EXCEPT ![call[c].file] = g] /\ Goes(c, "replace")
    BY <1>3, <2>1 DEF Fill
  <2>3. g \in File /\ g.lo = call[c].id /\ g.hi = call[c].id /\ g.clock = 0
    BY <1>1, <2>1 DEF Whole, File
  <2>4. inode[call[c].file] \in File
    BY <1>1, HeldFile DEF Holding, Filling
  <2>5. \A w \in Nat : call[c].id <= w => g.lo <= w /\ g.hi <= w /\ g.clock <= w
    BY <2>3
  <2> QED
    BY <1>1, <1>2, <2>2, <2>3, <2>5, Pours
<1>4. CASE call[c].op # "write"
  <2>1. PICK g : g = [inode[call[c].file] EXCEPT !.lo = call[c].id]
    OBVIOUS
  <2>2. inode' = [inode EXCEPT ![call[c].file] = g] /\ Goes(c, "rest") /\ call[c].op = "write_stream"
    BY <1>1, <1>4, <2>1 DEF Fill, Replacers
  <2>3. inode[call[c].file] \in File
    BY <1>1, HeldFile DEF Holding, Filling
  <2>4. g \in File /\ g.lo = call[c].id /\ g.hi = inode[call[c].file].hi /\ g.clock = inode[call[c].file].clock
    BY <1>1, <2>1, <2>3 DEF File
  <2> QED
    BY <1>1, <1>2, <2>2, <2>4, Pours
<1> QED
  BY <1>3, <1>4

\* The rest of a stream.
LEMMA FillRestKeeps ==
    ASSUME Inv, NEW c \in Client, FillRest(c)
    PROVE  Inv'
<1>1. call[c].step = "rest" /\ call[c].op \in Replacers /\ call[c].id \in Nat
  BY DEF FillRest, At, Inv, Typed, Placed, Filling, CallType
<1>2. UNCHANGED <<dir, Writes, Ghosts>>
  BY DEF FillRest
<1>3. PICK g : g = [inode[call[c].file] EXCEPT !.hi = call[c].id]
  OBVIOUS
<1>4. inode' = [inode EXCEPT ![call[c].file] = g] /\ Goes(c, "replace")
  BY <1>3 DEF FillRest
<1>5. inode[call[c].file] \in File
  BY <1>1, HeldFile DEF Holding, Filling
<1>6. g \in File /\ g.hi = call[c].id /\ g.lo = inode[call[c].file].lo /\ g.clock = inode[call[c].file].clock
  BY <1>1, <1>3, <1>5 DEF File
<1> QED
  BY <1>1, <1>2, <1>4, <1>6, Pours

\* The files a key's names lead to.
LEMMA NamedFiles ==
    ASSUME Inv, NEW k \in Key, NEW own, Belongs(own)
    PROVE  /\ \A n \in Tmps(k) \cup {k} : n \in Name /\ n # Sidecar(k) /\ (dir[n] # 0 => own[dir[n]] = <<k, "data">>)
           /\ Sidecar(k) \in Name /\ k \notin Tmps(k)
           /\ \A n \in Name : dir[n] \in 0..Len(inode) /\ Len(inode) \in Nat
           /\ \A d \in On(k) : call[d].step \in Holding => call[d].file # 0 /\ own[call[d].file] = <<k, "data">>
           /\ \A d \in Fillers(k) : Tmp(d) \in Tmps(k) /\ d \in On(k)
<1>1. Typed
  BY DEF Inv
<1>2. \A n \in Tmps(k) \cup {k} : n \in Name /\ n # Sidecar(k)
  BY NameFacts
<1>3. Sidecar(k) \in Name /\ k \notin Tmps(k)
  BY NameFacts
<1>4. \A n \in Name : dir[n] \in 0..Len(inode) /\ Len(inode) \in Nat
  BY <1>1, FileFacts
<1>5. \A n \in Tmps(k) \cup {k} : dir[n] # 0 => own[dir[n]] = <<k, "data">>
  BY DEF Belongs
<1>6. \A d \in On(k) : call[d].step \in Holding => call[d].file # 0 /\ own[call[d].file] = <<k, "data">>
  BY DEF Belongs, On
<1>7. \A d \in Fillers(k) : Tmp(d) \in Tmps(k) /\ d \in On(k)
  BY TmpFacts DEF Fillers, On
<1> QED
  BY <1>2, <1>3, <1>4, <1>5, <1>6, <1>7

\* Names that are only taken away.
LEMMA Unlinks ==
    ASSUME Inv, NEW c \in Client, NEW k \in Key, KeyInv(k), NEW own, Belongs(own),
           dir' \in [Name -> 0..Len(inode)], \A n \in Name \ Names(k) : dir'[n] = dir[n],
           \A n \in Name : dir'[n] \in {0, dir[n]},
           k \notin shared => \A d \in Fillers(k) : d # c => dir'[Tmp(d)] = dir[Tmp(d)]
    PROVE  Relinked(c, k, own)
<1>1. /\ \A n \in Tmps(k) \cup {k} : n \in Name /\ (dir[n] # 0 => own[dir[n]] = <<k, "data">>)
      /\ Sidecar(k) \in Name
      /\ \A d \in On(k) : call[d].step \in Holding => call[d].file # 0
  BY NamedFiles
<1>2. \A m, n \in Tmps(k) \cup {k} : dir'[m] = dir'[n] /\ dir'[n] # 0 => m = n
  BY <1>1 DEF KeyInv, OneName
<1>3. \A d \in On(k) : call[d].step = "link" => call[d].file # 0 /\ \A n \in Tmps(k) \cup {k} : dir[n] # call[d].file
  BY <1>1 DEF KeyInv, Linked, Holding
<1>4. k \notin shared /\ dir'[k] # 0 => IsWhole(inode[dir'[k]])
  BY <1>1 DEF KeyInv, IsWholeAt
<1> QED
  BY <1>1, <1>2, <1>3, <1>4 DEF Relinked

\* The call of a changer that ends.
LEMMA EndsOnward ==
    ASSUME Inv, NEW c \in Client, NEW k \in Key, call[c].step \in Changing, Ends(c)
    PROVE  /\ Idle \in CallType /\ Steps(c, Idle) /\ Onward(c, Idle, k)
           /\ Idle.step \notin Holding /\ Idle.step # "token" /\ Idle.step \notin Changing /\ Idle.key = <<>>
<1>1. Idle \in CallType /\ Placed(Idle)
  BY UnderWay
<1>2. Idle.step \notin Holding /\ Idle.step # "token" /\ Idle.step \notin Changing /\ Idle.key = <<>>
  BY DEF Idle, Holding, Changing, Filling, Dating
<1> QED
  BY <1>1, <1>2 DEF Onward, Ends

\* A stream breaks off.
LEMMA StreamFailsKeeps ==
    ASSUME Inv, NEW c \in Client, StreamFails(c)
    PROVE  Inv'
<1>1. call[c].step = "rest" /\ dir' = [dir EXCEPT ![Tmp(c)] = 0] /\ Ends(c) /\ UNCHANGED <<inode, Writes, Ghosts>>
  BY DEF StreamFails, At
<1>2. call[c].step \in Filling /\ call[c].step \in Changing /\ call[c].step \in Holding
  BY <1>1 DEF Changing, Filling, Holding
<1>3. PICK k \in Key : call[c].key = k /\ KeyInv(k) /\ c \in Changers(k) /\ c \in On(k) /\ c \in Fillers(k)
  BY <1>2, UnderWay
<1>4. PICK own : Belongs(own)
  BY <1>2, UnderWay
<1>5. /\ \A n \in Tmps(k) \cup {k} : n \in Name /\ n # Sidecar(k)
      /\ Sidecar(k) \in Name /\ k \notin Tmps(k) /\ Tmp(c) \in Tmps(k)
      /\ \A n \in Name : dir[n] \in 0..Len(inode) /\ Len(inode) \in Nat
  BY <1>3, <1>4, NamedFiles
<1>6. /\ dir' \in [Name -> 0..Len(inode)]
      /\ \A n \in Name : dir'[n] = IF n = Tmp(c) THEN 0 ELSE dir[n]
  BY <1>1, <1>5 DEF Inv, Typed
<1>7. \A n \in Name \ Names(k) : dir'[n] = dir[n]
  BY <1>5, <1>6, NameFacts
<1>8. k \notin shared => \A d \in Fillers(k) : d # c => dir'[Tmp(d)] = dir[Tmp(d)]
  BY <1>3, <1>5, <1>6, OwnTmp
<1>9. Relinked(c, k, own)
  BY <1>3, <1>4, <1>6, <1>7, <1>8, Unlinks
<1>10. SoFar(c, Idle, k)
  <2> SUFFICES ASSUME k \notin contended PROVE (k \notin torn => Clean(k)') /\ Dated(k)'
    BY <1>1, <1>2, EndsOnward DEF SoFar, Ghosts
  <2>1. k \notin torn => Clean(k)
    BY <1>2, <1>3 DEF KeyInv, Orderly, Halfway
  <2>2. Typed /\ UNCHANGED inode /\ UNCHANGED Writes
    BY <1>1 DEF Inv
  <2>3. dir'[k] = dir[k] /\ dir'[Sidecar(k)] = dir[Sidecar(k)]
    BY <1>5, <1>6
  <2> QED
    BY <1>3, <2>1, <2>2, <2>3, CleanKept DEF KeyInv
<1>11. Alone(c, k)
  BY <1>1, <1>3, SameNotes DEF Ghosts
<1> QED
  BY <1>1, <1>2, <1>3, <1>4, <1>9, <1>10, <1>11, EndsOnward, Renames

\* The data file is unlinked.
LEMMA UnlinkKeeps ==
    ASSUME Inv, NEW c \in Client, Unlink(c)
    PROVE  Inv'
<1>1. /\ call[c].step = "unlink" /\ dir' = [dir EXCEPT ![call[c].key] = 0] /\ Goes(c, "unmark")
      /\ Mends(c) /\ UNCHANGED <<inode, Writes, shared>>
  BY DEF Unlink, At
<1>2. call[c].step \in Changing
  BY <1>1 DEF Changing
<1>3. PICK k \in Key : call[c].key = k /\ KeyInv(k) /\ c \in Changers(k) /\ c \in On(k)
  BY <1>2, UnderWay
<1>4. PICK own : Belongs(own)
  BY <1>2, UnderWay
<1>5. /\ \A n \in Tmps(k) \cup {k} : n \in Name /\ n # Sidecar(k)
      /\ Sidecar(k) \in Name /\ k \notin Tmps(k)
      /\ \A n \in Name : dir[n] \in 0..Len(inode) /\ Len(inode) \in Nat
      /\ \A d \in Fillers(k) : Tmp(d) \in Tmps(k)
  BY <1>3, <1>4, NamedFiles
<1>6. /\ dir' \in [Name -> 0..Len(inode)]
      /\ \A n \in Name : dir'[n] = IF n = k THEN 0 ELSE dir[n]
  BY <1>1, <1>3, <1>5 DEF Inv, Typed
<1>7. \A n \in Name \ Names(k) : dir'[n] = dir[n]
  BY <1>5, <1>6, NameFacts
<1>8. k \notin shared => \A d \in Fillers(k) : d # c => dir'[Tmp(d)] = dir[Tmp(d)]
  BY <1>5, <1>6
<1>9. Relinked(c, k, own)
  BY <1>3, <1>4, <1>6, <1>7, <1>8, Unlinks
<1>10. PICK cl : cl = [call[c] EXCEPT !.step = "unmark"]
  OBVIOUS
<1>11. call[c] \in CallType /\ Placed(call[c]) /\ Typed
  BY <1>2, UnderWay
<1>12. /\ cl \in CallType /\ cl.step = "unmark" /\ cl.key = k /\ cl.op = call[c].op /\ cl.id = call[c].id
       /\ cl.file = call[c].file /\ cl.raced = call[c].raced
  BY <1>3, <1>10, <1>11 DEF CallType, AllSteps, Changing
<1>13. Placed(cl)
  BY <1>1, <1>3, <1>11, <1>12 DEF Placed, Filling, Dating, Reading, Writers
<1>14. Steps(c, cl) /\ cl.step \in Changing /\ cl.step \notin Holding /\ cl.step # "token"
  BY <1>1, <1>10, <1>12 DEF Goes, Changing, Holding, Filling
<1>15. Onward(c, cl, k)
  BY <1>2, <1>12, <1>13, <1>14 DEF Onward
<1>16. SoFar(c, cl, k)
  <2>1. call'[c] = cl
    BY <1>11, <1>12, <1>14, Others
  <2>2. Value(k)' = 0
    BY <1>5, <1>6 DEF Value
  <2>3. UNCHANGED timed /\ 0 \notin timed
    BY <1>1, <1>11 DEF Writes, Typed
  <2>4. Dated(k)'
    BY <1>5, <1>6 DEF Dated
  <2>5. Halfway(c, k)'
    BY <1>12, <2>1, <2>2, <2>3 DEF Halfway, Holding, Filling, Dating
  <2> QED
    BY <1>14, <2>4, <2>5 DEF SoFar
<1>17. Alone(c, k)
  BY <1>1, <1>3, Mended
<1> QED
  BY <1>1, <1>3, <1>4, <1>9, <1>12, <1>14, <1>15, <1>16, <1>17, Renames

\* The sidecar is unlinked.
LEMMA UnlinkSidecarKeeps ==
    ASSUME Inv, NEW c \in Client, UnlinkSidecar(c)
    PROVE  Inv'
<1>1. /\ call[c].step = "unmark" /\ dir' = [dir EXCEPT ![Sidecar(call[c].key)] = 0] /\ Ends(c)
      /\ UNCHANGED <<inode, Writes, Ghosts>>
  BY DEF UnlinkSidecar, At
<1>2. call[c].step \in Changing
  BY <1>1 DEF Changing
<1>3. PICK k \in Key : call[c].key = k /\ KeyInv(k) /\ c \in Changers(k) /\ c \in On(k)
  BY <1>2, UnderWay
<1>4. PICK own : Belongs(own)
  BY <1>2, UnderWay
<1>5. /\ \A n \in Tmps(k) \cup {k} : n \in Name /\ n # Sidecar(k)
      /\ Sidecar(k) \in Name /\ k \notin Tmps(k)
      /\ \A n \in Name : dir[n] \in 0..Len(inode) /\ Len(inode) \in Nat
      /\ \A d \in Fillers(k) : Tmp(d) \in Tmps(k)
  BY <1>3, <1>4, NamedFiles
<1>6. /\ dir' \in [Name -> 0..Len(inode)]
      /\ \A n \in Name : dir'[n] = IF n = Sidecar(k) THEN 0 ELSE dir[n]
  BY <1>1, <1>3, <1>5 DEF Inv, Typed
<1>7. \A n \in Name \ Names(k) : dir'[n] = dir[n]
  BY <1>5, <1>6, NameFacts
<1>8. k \notin shared => \A d \in Fillers(k) : d # c => dir'[Tmp(d)] = dir[Tmp(d)]
  BY <1>5, <1>6
<1>9. Relinked(c, k, own)
  BY <1>3, <1>4, <1>6, <1>7, <1>8, Unlinks
<1>10. SoFar(c, Idle, k)
  <2> SUFFICES ASSUME k \notin contended PROVE Clean(k)' /\ Dated(k)'
    BY <1>1, <1>2, EndsOnward DEF SoFar, Ghosts
  <2>1. Value(k) \notin timed
    BY <1>1, <1>2, <1>3 DEF KeyInv, Orderly, Halfway
  <2>2. UNCHANGED <<inode, timed, inserts>>
    BY <1>1 DEF Writes
  <2>3. dir'[k] = dir[k] /\ dir'[Sidecar(k)] = 0
    BY <1>5, <1>6
  <2>4. Value(k)' = Value(k)
    BY <2>2, <2>3 DEF Value
  <2> QED
    BY <1>3, <2>1, <2>2, <2>3, <2>4 DEF Clean, KeyInv, Dated
<1>11. Alone(c, k)
  BY <1>1, <1>3, SameNotes DEF Ghosts
<1> QED
  BY <1>1, <1>2, <1>3, <1>4, <1>9, <1>10, <1>11, EndsOnward, Renames

\* The call of a writer that has put its value in place.
LEMMA GoesOnward ==
    ASSUME Inv, NEW c \in Client, NEW k \in Key, call[c].key = k, call[c].step \in Changing,
           NEW st \in {"utime", "mark", "unmark"}, Goes(c, st), call[c].op \in Writers,
           st # "unmark" => call[c].id \in timed, st = "utime" => call[c].op \in Replacers
    PROVE  \E cl \in CallType :
              /\ Steps(c, cl) /\ Onward(c, cl, k) /\ call'[c] = cl
              /\ cl.step = st /\ cl.key = k /\ cl.id = call[c].id
              /\ cl.step \in Changing /\ cl.step \notin Holding /\ cl.step # "token"
<1>1. Typed /\ call[c] \in CallType /\ Placed(call[c])
  BY UnderWay
<1>2. PICK cl : cl = [call[c] EXCEPT !.step = st]
  OBVIOUS
<1>3. /\ cl \in CallType /\ cl.step = st /\ cl.key = k /\ cl.op = call[c].op /\ cl.id = call[c].id
      /\ cl.file = call[c].file /\ cl.raced = call[c].raced
  BY <1>1, <1>2 DEF CallType, AllSteps, Changing, Dating
<1>4. Placed(cl)
  BY <1>1, <1>3 DEF Placed, Filling, Dating, Reading, Writers
<1>5. Steps(c, cl) /\ cl.step \in Changing \ {"unlink", "link"} /\ cl.step \notin Holding /\ cl.step # "token"
  BY <1>2, <1>3 DEF Goes, Changing, Holding, Filling, Dating
<1>6. Onward(c, cl, k)
  BY <1>3, <1>4, <1>5 DEF Onward
<1>7. call'[c] = cl
  BY <1>1, <1>3, <1>5, Others
<1> QED
  BY <1>3, <1>5, <1>6, <1>7

\* The value is renamed into place, or the call raises.
LEMMA ReplaceKeeps ==
    ASSUME Inv, NEW c \in Client, Replace(c)
    PROVE  Inv'
<1>1. call[c].step = "replace" /\ UNCHANGED <<inode, Writes, shared, crashes>>
  BY DEF Replace, At
<1>2. call[c].step \in Filling /\ call[c].step \in Changing /\ call[c].step \in Holding
  BY <1>1 DEF Changing, Filling, Holding
<1>3. PICK k \in Key : call[c].key = k /\ KeyInv(k) /\ c \in Changers(k) /\ c \in On(k) /\ c \in Fillers(k)
  BY <1>2, UnderWay
<1>4. PICK own : Belongs(own)
  BY <1>2, UnderWay
<1>5. /\ \A n \in Tmps(k) \cup {k} : n \in Name /\ n # Sidecar(k) /\ (dir[n] # 0 => own[dir[n]] = <<k, "data">>)
      /\ Sidecar(k) \in Name /\ k \notin Tmps(k) /\ Tmp(c) \in Tmps(k)
      /\ \A n \in Name : dir[n] \in 0..Len(inode) /\ Len(inode) \in Nat
      /\ \A d \in Fillers(k) : Tmp(d) \in Tmps(k)
  BY <1>3, <1>4, NamedFiles
<1>6. CASE dir[Tmp(c)] = 0
  <2>1. Ends(c) /\ UNCHANGED <<dir, inode, Writes, Ghosts>>
    BY <1>1, <1>6 DEF Replace, Ghosts
  <2>2. k \notin contended \cup torn => Clean(k)
    BY <1>2, <1>3 DEF KeyInv, Orderly, Halfway
  <2>3. call[c].step # "idle"
    BY <1>1
  <2> QED
    BY <1>3, <2>1, <2>2, <2>3, EndsQuiet
<1>7. CASE dir[Tmp(c)] # 0
  <2>1. dir' = [dir EXCEPT ![k] = dir[Tmp(c)], ![Tmp(c)] = 0] /\ Mends(c) /\ Goes(c, Headers(c))
    BY <1>3, <1>7 DEF Replace
  <2>2. /\ dir' \in [Name -> 0..Len(inode)]
        /\ \A n \in Name : dir'[n] = IF n = Tmp(c) THEN 0 ELSE IF n = k THEN dir[Tmp(c)] ELSE dir[n]
    BY <1>5, <2>1 DEF Inv, Typed
  <2>3. /\ dir'[Tmp(c)] = 0 /\ dir'[k] = dir[Tmp(c)] /\ dir'[Sidecar(k)] = dir[Sidecar(k)]
        /\ \A n \in Tmps(k) : n # Tmp(c) => dir'[n] = dir[n]
    BY <1>5, <2>2
  <2>4. k \notin shared => /\ dir[Tmp(c)] = call[c].file
                           /\ \A d \in Fillers(k) : d # c => Tmp(d) # Tmp(c)
    BY <1>3, OwnTmp
  <2>5. k \notin shared => inode[dir[Tmp(c)]].lo = call[c].id /\ inode[dir[Tmp(c)]].hi = call[c].id
    BY <1>1, <1>3 DEF KeyInv, Filled
  <2>6. Relinked(c, k, own)
    <3>1. \A n \in Name \ Names(k) : dir'[n] = dir[n]
      BY <1>5, <2>2, NameFacts
    <3>2. \A n \in Tmps(k) \cup {k} : dir'[n] # 0 => own[dir'[n]] = <<k, "data">>
      BY <1>5, <2>3
    <3>3. \A m, n \in Tmps(k) \cup {k} : dir'[m] = dir'[n] /\ dir'[n] # 0 => m = n
      BY <1>3, <1>5, <2>3 DEF KeyInv, OneName
    <3>4. \A d \in On(k) : d # c /\ call[d].step = "link" => \A n \in Tmps(k) \cup {k} : dir'[n] # call[d].file
      <4>1. ASSUME NEW d \in On(k), call[d].step = "link"
            PROVE  call[d].file # 0 /\ \A n \in Tmps(k) \cup {k} : dir[n] # call[d].file
        BY <1>3, <1>4, <4>1, NamedFiles DEF KeyInv, Linked, Holding
      <4> QED
        BY <1>5, <2>3, <4>1
    <3>5. k \notin shared => \A d \in Fillers(k) : d # c => dir'[Tmp(d)] = dir[Tmp(d)]
      BY <1>5, <2>3, <2>4
    <3>6. k \notin shared /\ dir'[k] # 0 => IsWhole(inode[dir'[k]])
      <4>1. call[c].id # 0
        BY <1>2, UnderWay DEF Placed, Replacers, Writers
      <4> QED
        BY <2>3, <2>5, <4>1 DEF IsWhole
    <3> QED
      BY <2>2, <2>3, <3>1, <3>2, <3>3, <3>4, <3>5, <3>6 DEF Relinked
  <2>7. PICK st : st = Headers(c)
    OBVIOUS
  <2>8. st \in {"utime", "mark", "unmark"} /\ (st # "unmark" <=> call[c].id \in timed) /\ st # "mark"
    BY <2>7 DEF Headers
  <2>9. call[c].op \in Writers /\ call[c].op \in Replacers /\ call[c].id \notin inserts
    BY <1>2, UnderWay DEF Placed, Replacers, Writers
  <2>13. Alone(c, k)
    BY <1>1, <1>3, <2>1, Mended
  <2>10. Goes(c, st)
    BY <2>1, <2>7
  <2>11. PICK cl \in CallType :
              /\ Steps(c, cl) /\ Onward(c, cl, k) /\ call'[c] = cl
              /\ cl.step = st /\ cl.key = k /\ cl.id = call[c].id
              /\ cl.step \in Changing /\ cl.step \notin Holding /\ cl.step # "token"
    BY <1>2, <1>3, <2>8, <2>9, <2>10, GoesOnward
  <2>12. SoFar(c, cl, k)
    <3> SUFFICES ASSUME k \notin contended' PROVE Halfway(c, k)' /\ Dated(k)'
      BY <2>11 DEF SoFar
    <3>1. k \notin shared
      BY <2>13 DEF Alone
    <3>2. dir'[k] # 0 /\ Value(k)' = call[c].id
      BY <1>1, <1>7, <2>3, <2>5, <3>1 DEF Value
    <3>3. UNCHANGED <<timed, inserts>>
      BY <1>1 DEF Writes
    <3>4. Dated(k)'
      BY <2>9, <3>2, <3>3 DEF Dated
    <3> QED
      BY <2>8, <2>11, <3>2, <3>3, <3>4 DEF Halfway, Holding, Filling, Dating
  <2> QED
    BY <1>1, <1>3, <1>4, <2>6, <2>11, <2>12, <2>13, Renames
<1> QED
  BY <1>6, <1>7

\* An insert takes the name if it is free.
LEMMA LinkKeeps ==
    ASSUME Inv, NEW c \in Client, Link(c)
    PROVE  Inv'
<1>1. call[c].step = "link" /\ UNCHANGED <<inode, Writes, shared, crashes>>
  BY DEF Link, At
<1>2. call[c].step \in Changing /\ call[c].step \in Holding
  BY <1>1 DEF Changing, Holding
<1>3. PICK k \in Key : call[c].key = k /\ KeyInv(k) /\ c \in Changers(k) /\ c \in On(k)
  BY <1>2, UnderWay
<1>4. PICK own : Belongs(own)
  BY <1>2, UnderWay
<1>5. /\ \A n \in Tmps(k) \cup {k} : n \in Name /\ n # Sidecar(k) /\ (dir[n] # 0 => own[dir[n]] = <<k, "data">>)
      /\ Sidecar(k) \in Name /\ k \notin Tmps(k)
      /\ \A n \in Name : dir[n] \in 0..Len(inode) /\ Len(inode) \in Nat
      /\ \A d \in Fillers(k) : Tmp(d) \in Tmps(k)
      /\ own[call[c].file] = <<k, "data">>
  BY <1>2, <1>3, <1>4, NamedFiles
<1>6. CASE dir[k] # 0
  <2>1. Ends(c) /\ UNCHANGED <<dir, inode, Writes, Ghosts>>
    BY <1>1, <1>3, <1>6 DEF Link, Ghosts
  <2>2. k \notin contended \cup torn => Clean(k)
    BY <1>2, <1>3 DEF KeyInv, Orderly, Halfway
  <2>3. call[c].step # "idle"
    BY <1>1
  <2> QED
    BY <1>3, <2>1, <2>2, <2>3, EndsQuiet
<1>7. CASE dir[k] = 0
  <2>1. PICK st : st = IF call[c].id \in timed THEN "mark" ELSE "unmark"
    OBVIOUS
  <2>2. dir' = [dir EXCEPT ![k] = call[c].file] /\ Mends(c) /\ Goes(c, st)
    BY <1>3, <1>7, <2>1 DEF Link
  <2>3. call[c].file \in 1..Len(inode)
    BY <1>2, HeldFile
  <2>4. /\ dir' \in [Name -> 0..Len(inode)]
        /\ \A n \in Name : dir'[n] = IF n = k THEN call[c].file ELSE dir[n]
    BY <1>5, <2>2, <2>3 DEF Inv, Typed
  <2>5. /\ dir'[k] = call[c].file /\ dir'[Sidecar(k)] = dir[Sidecar(k)]
        /\ \A n \in Tmps(k) : dir'[n] = dir[n]
    BY <1>5, <2>4
  <2>6. /\ inode[call[c].file] =
             [Whole(call[c].id) EXCEPT !.clock = IF call[c].id \in timed THEN call[c].id ELSE 0]
        /\ \A n \in Tmps(k) \cup {k} : dir[n] # call[c].file
    BY <1>1, <1>3 DEF KeyInv, Linked
  <2>7. /\ inode[call[c].file].lo = call[c].id /\ inode[call[c].file].hi = call[c].id
        /\ inode[call[c].file].clock = IF call[c].id \in timed THEN call[c].id ELSE 0
    BY <2>6 DEF Whole
  <2>8. Relinked(c, k, own)
    <3>1. \A n \in Name \ Names(k) : dir'[n] = dir[n]
      BY <2>4, NameFacts
    <3>2. \A n \in Tmps(k) \cup {k} : dir'[n] # 0 => own[dir'[n]] = <<k, "data">>
      BY <1>5, <2>5
    <3>3. \A m, n \in Tmps(k) \cup {k} : dir'[m] = dir'[n] /\ dir'[n] # 0 => m = n
      BY <1>3, <1>5, <2>5, <2>6 DEF KeyInv, OneName
    <3>4. \A d \in On(k) : d # c /\ call[d].step = "link" => \A n \in Tmps(k) \cup {k} : dir'[n] # call[d].file
      <4>1. ASSUME NEW d \in On(k), d # c, call[d].step = "link"
            PROVE  call[c].file # call[d].file /\ \A n \in Tmps(k) \cup {k} : dir[n] # call[d].file
        BY <1>2, <1>3, <4>1 DEF KeyInv, Linked
      <4> QED
        BY <1>5, <2>5, <4>1
    <3>5. k \notin shared => \A d \in Fillers(k) : d # c => dir'[Tmp(d)] = dir[Tmp(d)]
      BY <1>5, <2>5
    <3>6. k \notin shared /\ dir'[k] # 0 => IsWhole(inode[dir'[k]])
      <4>1. call[c].id # 0
        BY <1>1, <1>2, UnderWay DEF Placed, Writers
      <4> QED
        BY <2>5, <2>7, <4>1 DEF IsWhole
    <3> QED
      BY <2>4, <2>5, <3>1, <3>2, <3>3, <3>4, <3>5, <3>6 DEF Relinked
  <2>9. st \in {"utime", "mark", "unmark"} /\ (st # "unmark" <=> call[c].id \in timed) /\ st # "utime"
    BY <2>1
  <2>10. call[c].op \in Writers
    BY <1>1, <1>2, UnderWay DEF Placed, Writers
  <2>11. PICK cl \in CallType :
              /\ Steps(c, cl) /\ Onward(c, cl, k) /\ call'[c] = cl
              /\ cl.step = st /\ cl.key = k /\ cl.id = call[c].id
              /\ cl.step \in Changing /\ cl.step \notin Holding /\ cl.step # "token"
    BY <1>2, <1>3, <2>2, <2>9, <2>10, GoesOnward
  <2>12. SoFar(c, cl, k)
    <3> SUFFICES ASSUME k \notin contended' PROVE Halfway(c, k)' /\ Dated(k)'
      BY <2>11 DEF SoFar
    <3>1. dir'[k] # 0 /\ Value(k)' = call[c].id /\ inode'[dir'[k]] = inode[call[c].file]
      BY <1>1, <2>3, <2>5, <2>7 DEF Value
    <3>2. UNCHANGED <<timed, inserts>>
      BY <1>1 DEF Writes
    <3>3. Dated(k)'
      BY <2>7, <3>1, <3>2 DEF Dated
    <3> QED
      BY <2>7, <2>9, <2>11, <3>1, <3>2, <3>3 DEF Halfway, Holding, Filling, Dating
  <2>13. Alone(c, k)
    BY <1>1, <1>3, <2>2, Mended
  <2> QED
    BY <1>1, <1>3, <1>4, <2>8, <2>11, <2>12, <2>13, Renames
<1> QED
  BY <1>6, <1>7

\* Other calls' bodies and temporary files are not the data file, nor a sidecar.
LEMMA NotTheirs ==
    ASSUME Inv, NEW k \in Key, KeyInv(k), NEW own, Belongs(own), NEW i \in 1..Len(inode),
           i = dir[k] \/ own[i] = <<k, "side">>
    PROVE  /\ \A d \in On(k) : call[d].step = "link" => call[d].file # i
           /\ k \notin shared => \A d \in Fillers(k) : call[d].file # i
           /\ own[i] = <<k, "side">> => i # dir[k]
<1>1. /\ \A d \in On(k) : call[d].step \in Holding => call[d].file # 0 /\ own[call[d].file] = <<k, "data">>
      /\ \A d \in Fillers(k) : Tmp(d) \in Tmps(k) /\ d \in On(k)
      /\ k \notin Tmps(k) /\ (dir[k] # 0 => own[dir[k]] = <<k, "data">>)
  BY NamedFiles
<1>2. <<k, "data">> # <<k, "side">>
  OBVIOUS
<1>3. \A d \in Fillers(k) : call[d].step \in Holding
  BY DEF Fillers, Holding
<1>4. \A d \in On(k) : call[d].step = "link" => call[d].step \in Holding /\ dir[k] # call[d].file
  BY DEF KeyInv, Linked, Holding
<1>5. k \notin shared => \A d \in Fillers(k) : dir[Tmp(d)] = call[d].file
  BY DEF KeyInv, Filled
<1>6. k \notin shared => \A d \in Fillers(k) : call[d].file # dir[k]
  BY <1>1, <1>3, <1>5 DEF KeyInv, OneName
<1> QED
  BY <1>1, <1>2, <1>3, <1>4, <1>6

\* The value's clock is set.
LEMMA UtimeKeeps ==
    ASSUME Inv, NEW c \in Client, Utime(c)
    PROVE  Inv'
<1>1. call[c].step = "utime" /\ UNCHANGED <<dir, Writes, Ghosts>>
  BY DEF Utime, At
<1>2. call[c].step \in Changing /\ call[c].step \in Dating
  BY <1>1 DEF Changing, Dating
<1>3. PICK k \in Key : call[c].key = k /\ KeyInv(k) /\ c \in Changers(k) /\ c \in On(k)
  BY <1>2, UnderWay
<1>4. PICK own : Belongs(own)
  BY <1>2, UnderWay
<1>5. /\ Typed /\ call[c].op \in Writers /\ call[c].id \in timed /\ call[c].id <= writes /\ call[c].id \in Nat
      /\ call[c].id \notin inserts
  BY <1>1, <1>2, UnderWay DEF Placed, CallType
<1>6. k \notin contended => dir[k] # 0 /\ Value(k) = call[c].id
  BY <1>2, <1>3 DEF KeyInv, Orderly, Halfway
<1>7. CASE dir[k] = 0
  <2>1. Ends(c) /\ UNCHANGED <<dir, inode, Writes, Ghosts>>
    BY <1>1, <1>3, <1>7 DEF Utime
  <2>2. call[c].step # "idle"
    BY <1>1
  <2> QED
    BY <1>3, <1>6, <1>7, <2>1, <2>2, EndsQuiet
<1>8. CASE dir[k] # 0
  <2>1. PICK i : i = dir[k]
    OBVIOUS
  <2>2. i \in 1..Len(inode) /\ inode[i] \in File
    BY <1>5, <1>8, <2>1, NameFacts, FileFacts
  <2>3. PICK g : g = [inode[i] EXCEPT !.clock = call[c].id]
    OBVIOUS
  <2>4. inode' = [inode EXCEPT ![i] = g] /\ Goes(c, "mark")
    BY <1>3, <1>8, <2>1, <2>3 DEF Utime
  <2>5. g \in File /\ g.lo = inode[i].lo /\ g.hi = inode[i].hi /\ g.clock = call[c].id
    BY <1>5, <2>2, <2>3 DEF File
  <2>6. PICK cl \in CallType :
              /\ Steps(c, cl) /\ Onward(c, cl, k) /\ call'[c] = cl
              /\ cl.step = "mark" /\ cl.key = k /\ cl.id = call[c].id
              /\ cl.step \in Changing /\ cl.step \notin Holding /\ cl.step # "token"
    BY <1>2, <1>3, <1>5, <2>4, GoesOnward
  <2>7. own[i] = <<k, "data">>
    BY <1>4, <1>8, <2>1 DEF Belongs
  <2>8. own[i][1] = k
    BY <2>7
  <2>9. g.lo <= writes /\ g.hi <= writes /\ g.clock <= writes
    BY <1>5, <2>2, <2>5 DEF Typed
  <2>10. k \notin shared => IsWhole(g)
    BY <1>3, <1>8, <2>1, <2>5 DEF KeyInv, IsWholeAt, IsWhole
  <2>11. Harmless(c, cl, k, own, i, g)
    BY <1>3, <1>4, <2>1, <2>2, <2>4, <2>5, <2>6, <2>8, <2>9, <2>10, NotTheirs DEF Harmless, Filling
  <2>12. SoFar(c, cl, k)
    <3> SUFFICES ASSUME k \notin contended PROVE Halfway(c, k)' /\ Dated(k)'
      BY <1>1, <2>6 DEF SoFar, Ghosts
    <3>1. dir'[k] = i /\ inode'[i] = g
      BY <1>1, <1>5, <2>1, <2>2, <2>4, <2>5, Rewritten DEF Typed
    <3>2. dir'[k] # 0 /\ Value(k)' = call[c].id /\ inode'[dir'[k]].clock = call[c].id
      BY <1>6, <1>8, <2>1, <2>5, <3>1 DEF Value
    <3>3. Dated(k)'
      BY <1>1, <1>5, <3>2 DEF Dated, Writes
    <3> QED
      BY <2>6, <3>2, <3>3 DEF Halfway, Holding, Filling
  <2> QED
    BY <1>1, <1>3, <1>4, <2>6, <2>11, <2>12, Rewrites
<1> QED
  BY <1>7, <1>8

\* The token is written.
LEMMA WriteTokenKeeps ==
    ASSUME Inv, NEW c \in Client, WriteToken(c)
    PROVE  Inv'
<1>1. call[c].step = "token" /\ UNCHANGED <<dir, Writes, Ghosts>> /\ Ends(c)
  BY DEF WriteToken, At
<1>2. call[c].step \in Changing /\ call[c].step \in Dating
  BY <1>1 DEF Changing, Dating
<1>3. PICK k \in Key : call[c].key = k /\ KeyInv(k) /\ c \in Changers(k) /\ c \in On(k)
  BY <1>2, UnderWay
<1>4. PICK own : Belongs(own)
  BY <1>2, UnderWay
<1>5. Typed /\ call[c].id \in timed /\ call[c].id <= writes /\ call[c].id \in Nat /\ writes \in Nat
  BY <1>2, UnderWay DEF Placed, CallType
<1>6. PICK i : i = call[c].file
  OBVIOUS
<1>7. i \in 1..Len(inode) /\ own[i] = <<k, "side">>
  BY <1>1, <1>3, <1>4, <1>6, HeldFile DEF Belongs
<1>8. own[i][1] = k
  BY <1>7
<1>9. PICK g : g = Whole(call[c].id)
  OBVIOUS
<1>10. inode' = [inode EXCEPT ![i] = g]
  BY <1>6, <1>9 DEF WriteToken
<1>11. g \in File /\ g.lo <= writes /\ g.hi <= writes /\ g.clock <= writes
  BY <1>5, <1>9 DEF Whole, File
<1>12. /\ Idle \in CallType /\ Steps(c, Idle) /\ Onward(c, Idle, k)
       /\ Idle.step \notin Holding /\ Idle.step # "token" /\ Idle.step \notin Changing
  BY <1>1, <1>2, EndsOnward
<1>13. Harmless(c, Idle, k, own, i, g)
  <2>1. Idle.step \notin Filling
    BY <1>12 DEF Holding
  <2> QED
    BY <1>3, <1>4, <1>7, <1>8, <1>10, <1>11, <1>12, <2>1, NotTheirs DEF Harmless
<1>14. SoFar(c, Idle, k)
  <2> SUFFICES ASSUME k \notin contended PROVE Clean(k)' /\ Dated(k)'
    BY <1>1, <1>12 DEF SoFar, Ghosts
  <2>1. dir[k] # 0 /\ Value(k) = call[c].id /\ inode[dir[k]].clock = call[c].id /\ dir[Sidecar(k)] = i
    BY <1>1, <1>2, <1>3, <1>6 DEF KeyInv, Orderly, Halfway
  <2>2. dir[k] \in 1..Len(inode) /\ dir[k] # i
    BY <1>3, <1>4, <1>5, <1>7, <2>1, NameFacts, FileFacts, NotTheirs
  <2>3. inode'[i] = g /\ inode'[dir[k]] = inode[dir[k]]
    BY <1>5, <1>7, <1>10, <1>11, <2>2, Rewritten DEF Typed
  <2>4. UNCHANGED <<dir, timed, inserts>>
    BY <1>1 DEF Writes
  <2>5. Value(k)' = call[c].id
    BY <2>1, <2>3, <2>4 DEF Value
  <2>6. Dated(k)'
    BY <1>5, <2>1, <2>3, <2>4, <2>5 DEF Dated
  <2> QED
    BY <1>5, <1>7, <1>9, <2>1, <2>3, <2>4, <2>5, <2>6 DEF Clean
<1> QED
  BY <1>1, <1>3, <1>4, <1>12, <1>13, <1>14, Rewrites

-----------------------------------------------------------------------------
(***************************************************************************)
(* Steps that open files, and the steps that start a change.               *)
(***************************************************************************)

\* The names that may lead to a file of each kind.
NamesFor(k, kind) == IF kind = "data" THEN Tmps(k) \cup {k} ELSE {Sidecar(k)}

\* A step of a call on key k makes a file for it, under a name of that kind or none.
Made(cl, k, kind, g) ==
    /\ inode' = Append(inode, g) /\ g \in File
    /\ g.lo <= writes /\ g.hi <= writes /\ g.clock <= writes
    /\ dir' \in [Name -> 0..Len(inode')]
    /\ \A n \in Name : dir'[n] = dir[n] \/ (dir'[n] = Len(inode) + 1 /\ n \in NamesFor(k, kind))
    /\ cl.step \in Holding => kind = "data" /\ cl.file = Len(inode) + 1
    /\ cl.step = "token" => kind = "side" /\ cl.file = Len(inode) + 1

\* It keeps the invariant if it keeps it for its key.
LEMMA Creates ==
    ASSUME Inv, NEW c \in Client, NEW cl \in CallType, Steps(c, cl), NEW k \in Key, call[c].key = k,
           UNCHANGED Writes, Placed(cl)', cl.key = k,
           NEW kind \in {"data", "side"}, NEW g, Made(cl, k, kind, g),
           OfKey(k), KeyInv(k)'
    PROVE  Inv'
<1>1. Typed
  BY DEF Inv
<1>2. /\ inode' \in Seq(File) /\ Len(inode') = Len(inode) + 1 /\ Len(inode) \in Nat
      /\ \A j \in 1..Len(inode) : inode'[j] = inode[j]
      /\ inode'[Len(inode) + 1] = g
  BY <1>1, Created, FileFacts DEF Typed, Made
<1>3. PICK own \in [1..Len(inode) -> Key \X {"data", "side"}] : Belongs(own)
  BY DEF Inv
<1>4. PICK own1 : own1 = [j \in 1..Len(inode') |-> IF j \in 1..Len(inode) THEN own[j] ELSE <<k, kind>>]
  OBVIOUS
<1>5. /\ own1 \in [1..Len(inode') -> Key \X {"data", "side"}]
      /\ \A j \in 1..Len(inode) : own1[j] = own[j]
      /\ own1[Len(inode) + 1] = <<k, kind>>
  BY <1>2, <1>3, <1>4
<1>6. Within(k, cl, own, own1)
  <2>1. \A n \in Name \ Names(k) : dir'[n] = dir[n]
    BY NameFacts DEF Made, NamesFor
  <2>2. ASSUME NEW n \in Tmps(k) \cup {k}, dir'[n] # 0 PROVE own1[dir'[n]] = <<k, "data">>
    <3>1. n \in Name /\ n # Sidecar(k) /\ dir[n] \in 0..Len(inode) /\ (dir[n] # 0 => own[dir[n]] = <<k, "data">>)
      BY <1>3, NamedFiles
    <3>2. CASE dir'[n] = dir[n]
      BY <1>2, <1>5, <2>2, <3>1, <3>2
    <3>3. CASE dir'[n] # dir[n]
      <4>1. dir'[n] = Len(inode) + 1 /\ kind = "data"
        BY <3>1, <3>3 DEF Made, NamesFor
      <4> QED
        BY <1>5, <4>1
    <3> QED
      BY <3>2, <3>3
  <2>3. ASSUME dir'[Sidecar(k)] # 0 PROVE own1[dir'[Sidecar(k)]] = <<k, "side">>
    <3>1. /\ Sidecar(k) \in Name /\ Sidecar(k) \notin Tmps(k) \cup {k} /\ dir[Sidecar(k)] \in 0..Len(inode)
          /\ dir[Sidecar(k)] # 0 => own[dir[Sidecar(k)]] = <<k, "side">>
      <4>1. /\ Sidecar(k) \in Name /\ dir[Sidecar(k)] \in 0..Len(inode)
        BY <1>1, NameFacts, FileFacts
      <4>2. dir[Sidecar(k)] # 0 => own[dir[Sidecar(k)]] = <<k, "side">>
        BY <1>3 DEF Belongs
      <4> QED
        BY <4>1, <4>2, NameFacts
    <3>2. CASE dir'[Sidecar(k)] = dir[Sidecar(k)]
      BY <1>2, <1>5, <2>3, <3>1, <3>2
    <3>3. CASE dir'[Sidecar(k)] # dir[Sidecar(k)]
      <4>1. dir'[Sidecar(k)] = Len(inode) + 1 /\ kind = "side"
        BY <3>1, <3>3 DEF Made, NamesFor
      <4> QED
        BY <1>5, <4>1
    <3> QED
      BY <3>2, <3>3
  <2>4. /\ cl.step \in Holding => cl.file # 0 /\ own1[cl.file] = <<cl.key, "data">>
        /\ cl.step = "token" => cl.file # 0 /\ own1[cl.file] = <<cl.key, "side">>
    BY <1>2, <1>5 DEF Made
  <2>5. Len(inode) <= Len(inode')
    BY <1>2
  <2> QED
    BY <1>5, <2>1, <2>2, <2>3, <2>4, <2>5 DEF Within
<1>7. /\ dir' \in [Name -> 0..Len(inode')]
      /\ \A j \in 1..Len(inode') : /\ inode'[j].lo <= writes /\ inode'[j].hi <= writes
                                   /\ inode'[j].clock <= writes
  <2>1. ASSUME NEW j \in 1..Len(inode')
        PROVE  inode'[j].lo <= writes /\ inode'[j].hi <= writes /\ inode'[j].clock <= writes
    <3>1. CASE j \in 1..Len(inode)
      BY <1>1, <1>2, <3>1 DEF Typed
    <3>2. CASE j = Len(inode) + 1
      BY <1>2, <3>2 DEF Made
    <3> QED
      BY <1>2, <3>1, <3>2
  <2> QED
    BY <2>1 DEF Made
<1> QED
  BY <1>2, <1>3, <1>6, <1>7, StepKeeps

\* The sidecar is opened.
LEMMA OpenSidecarKeeps ==
    ASSUME Inv, NEW c \in Client, OpenSidecar(c)
    PROVE  Inv'
<1>1. call[c].step = "mark" /\ UNCHANGED <<Writes, Ghosts>> /\ Opened(Sidecar(call[c].key))
  BY DEF OpenSidecar, At
<1>2. call[c].step \in Changing /\ call[c].step \in Dating
  BY <1>1 DEF Changing, Dating
<1>3. PICK k \in Key : call[c].key = k /\ KeyInv(k) /\ c \in Changers(k) /\ c \in On(k)
  BY <1>2, UnderWay
<1>4. PICK own : Belongs(own)
  BY <1>2, UnderWay
<1>5. /\ Typed /\ call[c].op \in Writers /\ call[c].id \in timed /\ call[c] \in CallType /\ Placed(call[c])
      /\ Len(inode) \in Nat /\ writes \in Nat
  BY <1>2, UnderWay DEF Placed
<1>6. PICK h : h = Handle(Sidecar(k))
  OBVIOUS
<1>7. dir[Sidecar(k)] \in 0..Len(inode)
  BY <1>5, NameFacts, FileFacts
<1>8. PICK cl : cl = [call[c] EXCEPT !.step = "token", !.file = h]
  OBVIOUS
<1>9. h \in Nat /\ h # 0
  BY <1>5, <1>6, <1>7 DEF Handle
<1>10. /\ cl \in CallType /\ cl.step = "token" /\ cl.key = k /\ cl.op = call[c].op /\ cl.id = call[c].id
       /\ cl.file = h /\ cl.raced = call[c].raced
  BY <1>3, <1>5, <1>8, <1>9 DEF CallType, AllSteps, Changing, Dating
<1>11. Steps(c, cl) /\ cl.step \in Changing \ {"unlink", "link"} /\ cl.step \notin Holding
  BY <1>3, <1>6, <1>8, <1>10 DEF OpenSidecar, Changing, Dating, Holding, Filling
<1>12. call'[c] = cl
  BY <1>5, <1>10, <1>11, Others
<1>13. k \notin contended => dir[k] # 0 /\ Value(k) = call[c].id /\ inode[dir[k]].clock = call[c].id
  BY <1>1, <1>2, <1>3 DEF KeyInv, Orderly, Halfway
<1>14. Empty \in File /\ Empty.lo <= writes /\ Empty.hi <= writes /\ Empty.clock <= writes
  BY <1>5 DEF Empty, File
<1>15. dir[k] # 0 => dir[k] \in 1..Len(inode)
  BY <1>5, NameFacts, FileFacts
<1>16. CASE dir[Sidecar(k)] # 0
  <2>1. h = dir[Sidecar(k)] /\ inode' = [inode EXCEPT ![h] = Empty] /\ UNCHANGED dir /\ h \in 1..Len(inode)
    BY <1>1, <1>3, <1>5, <1>6, <1>7, <1>16 DEF Opened, Handle
  <2>2. own[h] = <<k, "side">>
    BY <1>4, <1>16, <2>1 DEF Belongs
  <2>3. own[h][1] = k
    BY <2>2
  <2>4. Placed(cl)
    BY <1>3, <1>5, <1>10, <2>1 DEF Placed, Filling, Dating, Reading, Writers
  <2>5. Onward(c, cl, k)
    BY <1>2, <1>10, <1>11, <2>4 DEF Onward
  <2>6. Harmless(c, cl, k, own, h, Empty)
    <3>1. cl.step \notin Filling
      BY <1>11 DEF Holding
    <3> QED
      BY <1>3, <1>4, <1>9, <1>10, <1>14, <2>1, <2>2, <2>3, <3>1, NotTheirs DEF Harmless
  <2>7. SoFar(c, cl, k)
    <3> SUFFICES ASSUME k \notin contended PROVE Halfway(c, k)' /\ Dated(k)'
      BY <1>1, <1>11 DEF SoFar, Ghosts
    <3>1. dir[k] # h
      BY <1>3, <1>4, <2>1, <2>2, NotTheirs
    <3>2. inode'[dir[k]] = inode[dir[k]]
      BY <1>5, <1>13, <1>14, <1>15, <2>1, <3>1, Rewritten DEF Typed
    <3>3. Value(k)' = call[c].id /\ dir'[k] # 0 /\ inode'[dir'[k]].clock = call[c].id
      BY <1>13, <2>1, <3>2 DEF Value
    <3>4. Dated(k)'
      BY <1>1, <1>5, <3>3 DEF Dated, Writes
    <3> QED
      BY <1>10, <1>12, <2>1, <3>3, <3>4 DEF Halfway, Holding, Filling
  <2>8. UNCHANGED <<dir, Writes, Ghosts>>
    BY <1>1, <2>1
  <2> QED
    BY <1>3, <1>4, <1>10, <1>11, <2>5, <2>6, <2>7, <2>8, Rewrites
<1>17. CASE dir[Sidecar(k)] = 0
  <2>1. /\ h = Len(inode) + 1 /\ inode' = Append(inode, Empty)
        /\ dir' = [dir EXCEPT ![Sidecar(k)] = Len(inode) + 1]
    BY <1>1, <1>3, <1>6, <1>17 DEF Opened, Handle
  <2>2. /\ inode' \in Seq(File) /\ Len(inode') = Len(inode) + 1
        /\ \A j \in 1..Len(inode) : inode'[j] = inode[j]
    BY <1>5, <1>14, <2>1, Created DEF Typed
  <2>3. /\ \A n \in Tmps(k) \cup {k} : n \in Name /\ n # Sidecar(k)
        /\ Sidecar(k) \in Name
        /\ \A n \in Name : dir[n] \in 0..Len(inode)
        /\ \A d \in Fillers(k) : Tmp(d) \in Tmps(k) /\ d \in On(k)
    BY <1>3, <1>4, NamedFiles
  <2>4. /\ dir' \in [Name -> 0..Len(inode')]
        /\ \A n \in Name : dir'[n] = IF n = Sidecar(k) THEN Len(inode) + 1 ELSE dir[n]
    BY <1>5, <2>1, <2>2, <2>3 DEF Typed
  <2>5. \A n \in Tmps(k) \cup {k} : dir'[n] = dir[n]
    BY <2>3, <2>4
  <2>6. Made(cl, k, "side", Empty)
    BY <1>10, <1>11, <1>14, <2>1, <2>3, <2>4 DEF Made, NamesFor
  <2>7. UNCHANGED <<writes, timed, inserts, lapsed, shared, contended, torn>> /\ UNCHANGED Writes
    BY <1>1 DEF Writes, Ghosts
  <2>8. Placed(cl)'
    BY <1>3, <1>5, <1>10, <2>1, <2>2, <2>7 DEF Placed, Filling, Dating, Reading, Writers
  <2>9. OneName(k)'
    BY <1>3, <2>5 DEF KeyInv, OneName
  <2>10. \A d \in On(k) : call[d].step \in Holding => call[d].file \in 1..Len(inode)
    BY HeldFile DEF On
  <2>11. Filled(k)' /\ Linked(k)'
    <3>1. k \notin shared' => \A d \in Fillers(k) : d # c =>
             dir'[Tmp(d)] = dir[Tmp(d)] /\ inode'[call[d].file] = inode[call[d].file]
      BY <2>2, <2>3, <2>5, <2>10 DEF Fillers, Holding
    <3>2. \A d \in On(k) : d # c /\ call[d].step = "link" =>
             /\ inode'[call[d].file] = inode[call[d].file]
             /\ \A n \in Tmps(k) \cup {k} : dir'[n] # call[d].file
             /\ cl.step \in Holding => cl.file # call[d].file
      <4>1. \A d \in On(k) : call[d].step = "link" =>
               call[d].step \in Holding /\ \A n \in Tmps(k) \cup {k} : dir[n] # call[d].file
        BY <1>3 DEF KeyInv, Linked, Holding
      <4> QED
        BY <1>11, <2>2, <2>5, <2>10, <4>1
    <3>3. cl.step \notin Filling /\ cl.step # "link"
      BY <1>11 DEF Holding
    <3> QED
      BY <1>3, <1>5, <1>10, <1>11, <2>7, <3>1, <3>2, <3>3, OthersFiles
  <2>12. IsWholeAt(k)'
    <3>1. k \notin shared /\ dir'[k] # 0 => IsWhole(inode'[dir'[k]])
      BY <1>3, <1>15, <2>2, <2>5 DEF KeyInv, IsWholeAt
    <3>2. \A d \in On(k)' : call'[d].step = "answered" => d \in On(k) /\ call[d].step = "answered" /\ call'[d].out = call[d].out
      BY <1>5, <1>10, <1>11, <1>12, Others DEF On
    <3> QED
      BY <1>3, <2>7, <3>1, <3>2 DEF KeyInv, IsWholeAt, At
  <2>15. Alone(c, k) /\ OfKey(k)
    BY <1>3, <2>7, SameNotes DEF Alone
  <2>13. Unshared(k)' /\ Uncontended(k)' /\ Orderly(k)' /\ Dated(k)' /\ Found(k)'
    <3>1. k \notin contended => Halfway(c, k)' /\ Dated(k)'
      <4>1. ASSUME k \notin contended PROVE Value(k)' = call[c].id /\ dir'[k] # 0 /\ inode'[dir'[k]].clock = call[c].id
        BY <1>13, <1>15, <2>2, <2>5, <4>1 DEF Value
      <4>2. dir'[Sidecar(k)] = h
        BY <2>1, <2>3, <2>4
      <4>3. k \notin contended => Dated(k)'
        BY <1>5, <2>7, <4>1 DEF Dated
      <4> QED
        BY <1>10, <1>12, <4>1, <4>2, <4>3 DEF Halfway, Holding, Filling
    <3>2. cl.step \in Filling => call[c].step \in Filling
      BY <1>11 DEF Holding
    <3>3. Dated(k)'
      BY <2>7, <3>1 DEF Dated
    <3> QED
      BY <1>2, <1>3, <1>5, <1>10, <1>11, <2>7, <2>15, <3>1, <3>2, <3>3, Continues
  <2>14. KeyInv(k)'
    BY <2>9, <2>11, <2>12, <2>13 DEF KeyInv
  <2> QED
    BY <1>3, <1>10, <1>11, <2>6, <2>7, <2>8, <2>14, <2>15, Creates
<1> QED
  BY <1>16, <1>17

\* A call's first change to the files of its key is noted if another call is at it; if
\* not, the files are in order.
LEMMA Starts ==
    ASSUME Typed, NEW c \in Client, NEW cl \in CallType, Steps(c, cl), NEW k \in Key, call[c].key = k,
           KeyInv(k), cl.key = k, cl.op = call[c].op, Contends(c), UNCHANGED torn,
           shared \subseteq shared', shared' \subseteq shared \cup {k}, contended \cup torn \subseteq Key,
           call[c].step \notin Changing, cl.step \in {"fill", "link", "unlink"},
           k \in shared' => k \in contended',
           cl.step = "fill" => \A d \in Fillers(k) : d # c /\ Tmp(d) = Tmp(c) => k \in shared',
           Clean(k) => Clean(k)', k \notin contended /\ Dated(k) => Dated(k)'
    PROVE  Unshared(k)' /\ Uncontended(k)' /\ Orderly(k)' /\ Dated(k)' /\ OfKey(k)
<1>1. /\ call'[c] = cl
      /\ \A d \in Client : d # c =>
           call'[d].op = call[d].op /\ call'[d].step = call[d].step /\ call'[d].key = call[d].key
  BY Others
<1>2. /\ \A d \in Fillers(k)' : d \in Client /\ (d # c => d \in Fillers(k)) /\ (d = c => cl.step = "fill")
      /\ \A d \in Changers(k)' : d \in Client /\ (d # c => d \in Changers(k))
      /\ c \in Changers(k)' /\ c \notin Changers(k)
  BY <1>1 DEF Fillers, Changers, On, Filling, Changing
<1>3. \A d \in Client : Tmp(d)' = Tmp(d)
  BY <1>1 DEF Tmp
<1>4. Unshared(k)'
  BY <1>2, <1>3 DEF KeyInv, Unshared
<1>5. /\ contended' = IF \E d \in Client \ {c} : call[d].key = k /\ call[d].step \in Changing
                     THEN contended \cup {k} ELSE contended
  BY MutatingSteps DEF Contends
<1>6. (\E d \in Changers(k) : d # c) => k \in contended'
  BY <1>5 DEF Changers, On
<1>7. Uncontended(k)'
  BY <1>2, <1>6 DEF KeyInv, Uncontended
<1>8. ASSUME k \notin contended' PROVE Changers(k)' = {c} /\ Halfway(c, k)' /\ Dated(k)'
  <2>1. Changers(k) = {} /\ k \notin contended
    BY <1>2, <1>5, <1>6, <1>8
  <2>2. (k \notin torn' => Clean(k)') /\ Dated(k)'
    BY <2>1 DEF KeyInv, Orderly
  <2> QED
    BY <1>1, <1>2, <2>1, <2>2 DEF Halfway, Dating
<1>9. Orderly(k)' /\ Dated(k)'
  BY <1>8 DEF Orderly, Dated
<1>10. OfKey(k)
  BY <1>5 DEF OfKey
<1> QED
  BY <1>4, <1>7, <1>9, <1>10

\* A delete, by a caller or by a read that found the value expired, goes ahead.
LEMMA ProbeKeeps ==
    ASSUME Inv, NEW c \in Client, Probe(c)
    PROVE  Inv'
<1>1. /\ call[c].step = "probe" /\ Goes(c, "unlink") /\ Contends(c)
      /\ UNCHANGED <<dir, inode, Writes, shared, torn, crashes>> /\ contended \cup torn \subseteq Key
  BY DEF Probe, At, Inv
<1>2. /\ Typed /\ call[c] \in CallType /\ Placed(call[c])
      /\ \E k \in Key : call[c].key = k /\ KeyInv(k)
  BY <1>1, Started
<1>3. PICK k \in Key : call[c].key = k /\ KeyInv(k)
  BY <1>2
<1>4. PICK own \in [1..Len(inode) -> Key \X {"data", "side"}] : Belongs(own)
  BY DEF Inv
<1>5. PICK cl : cl = [call[c] EXCEPT !.step = "unlink"]
  OBVIOUS
<1>6. /\ cl \in CallType /\ cl.step = "unlink" /\ cl.key = k /\ cl.op = call[c].op /\ cl.id = call[c].id
      /\ cl.file = call[c].file /\ cl.raced = call[c].raced
  BY <1>2, <1>3, <1>5 DEF CallType, AllSteps, Changing
<1>7. Steps(c, cl)
  BY <1>1, <1>5 DEF Goes
<1>8. UNCHANGED <<dir, inode, writes, timed, inserts, lapsed, shared>> /\ UNCHANGED Writes
  BY <1>1 DEF Writes
<1>9. Placed(cl)'
  BY <1>1, <1>2, <1>3, <1>6, <1>8 DEF Placed, Filling, Dating, Reading, Writers
<1>10. call[c].step \notin Changing /\ cl.step \notin Holding
  BY <1>1, <1>6 DEF Changing, Filling, Dating, Holding
<1>11. Value(k)' = Value(k) /\ (Clean(k)' <=> Clean(k)) /\ (k \notin contended /\ Dated(k) => Dated(k)')
  BY <1>8 DEF Value, Clean, Dated
<1>12. contended \subseteq contended'
  BY <1>1 DEF Contends
<1>13. Unshared(k)' /\ Uncontended(k)' /\ Orderly(k)' /\ Dated(k)' /\ OfKey(k)
  <2>1. k \in shared' => k \in contended'
    BY <1>3, <1>8, <1>12 DEF KeyInv, Orderly
  <2> QED
    BY <1>1, <1>2, <1>3, <1>6, <1>7, <1>8, <1>10, <1>11, <2>1, Starts
<1>14. /\ call'[c] = cl
       /\ \A d \in Client : d # c => call'[d] = call[d]
  <2>1. ~ (Mutating(c) \/ At(c, "open"))
    BY <1>1, <1>10, MutatingSteps DEF At
  <2> QED
    BY <1>2, <1>6, <1>7, <2>1, Others
<1>15. OneName(k)'
  BY <1>3, <1>8 DEF KeyInv, OneName
<1>16. Filled(k)' /\ Linked(k)'
  <2>1. cl.step \notin Filling /\ cl.step # "link"
    BY <1>10 DEF Holding
  <2>2. \A d \in On(k) : call[d].step = "link" => \A n \in Tmps(k) \cup {k} : dir[n] # call[d].file
    BY <1>3 DEF KeyInv, Linked
  <2>3. k \notin shared' => \A d \in Fillers(k) : d # c =>
           dir'[Tmp(d)] = dir[Tmp(d)] /\ inode'[call[d].file] = inode[call[d].file]
    BY <1>8
  <2>4. \A d \in On(k) : d # c /\ call[d].step = "link" =>
          /\ inode'[call[d].file] = inode[call[d].file]
          /\ \A n \in Tmps(k) \cup {k} : dir'[n] # call[d].file
          /\ cl.step \in Holding => cl.file # call[d].file
    BY <1>8, <1>10, <2>2
  <2>5. shared \subseteq shared' /\ UNCHANGED timed
    BY <1>8
  <2> QED
    BY <1>2, <1>3, <1>6, <1>7, <2>1, <2>3, <2>4, <2>5, OthersFiles
<1>17. \A d \in On(k)' : d # c => d \in On(k) /\ call'[d] = call[d]
  BY <1>14 DEF On
<1>18. IsWholeAt(k)'
  BY <1>3, <1>6, <1>8, <1>14, <1>17 DEF KeyInv, IsWholeAt, At
<1>19. Found(k)'
  <2>1. cl.op = "get" /\ ~ cl.raced => Value(k) \in lapsed
    BY <1>1, <1>3, <1>6 DEF KeyInv, Found, On
  <2>2. ASSUME NEW d \in On(k)', call'[d].op = "get", ~ call'[d].raced
        PROVE  /\ call'[d].step \in {"sidecar", "body"} => dir[k] # 0 /\ Clean(k)
               /\ call'[d].step = "body" =>
                    /\ call'[d].file = dir[Sidecar(k)]
                    /\ call'[d].file # 0 => call'[d].token = inode[call'[d].file].lo
               /\ call'[d].step \in {"probe", "unlink"} => Value(k) \in lapsed
    <3>1. CASE d = c
      BY <1>6, <1>14, <2>1, <2>2, <3>1
    <3>2. CASE d # c
      BY <1>3, <1>17, <2>2, <3>2 DEF KeyInv, Found
    <3> QED
      BY <3>1, <3>2
  <2> QED
    BY <1>8, <1>11, <2>2 DEF Found
<1>20. KeyInv(k)'
  BY <1>13, <1>15, <1>16, <1>18, <1>19 DEF KeyInv
<1>21. Within(k, cl, own, own)
  <2>1. /\ \A n \in Tmps(k) \cup {k} : dir[n] # 0 => own[dir[n]] = <<k, "data">>
        /\ dir[Sidecar(k)] # 0 => own[dir[Sidecar(k)]] = <<k, "side">>
        /\ Len(inode) \in Nat
    BY <1>2, <1>4, FileFacts DEF Belongs
  <2> QED
    BY <1>4, <1>6, <1>8, <1>10, <2>1 DEF Within
<1>22. /\ inode' \in Seq(File) /\ dir' \in [Name -> 0..Len(inode')]
       /\ \A j \in 1..Len(inode') : /\ inode'[j].lo <= writes /\ inode'[j].hi <= writes
                                    /\ inode'[j].clock <= writes
       /\ \A j \in 1..Len(inode) : own[j][1] # k => inode'[j] = inode[j]
  BY <1>2, <1>8 DEF Typed
<1> QED
  BY <1>3, <1>4, <1>6, <1>7, <1>8, <1>9, <1>12, <1>13, <1>20, <1>21, <1>22, StepKeeps

\* Where a call opens a file for a change, the other reads of its key count as raced.
LEMMA OpenFound ==
    ASSUME Typed, NEW c \in Client, NEW cl \in CallType, Steps(c, cl), NEW k \in Key, call[c].key = k,
           call[c].step = "open", cl.op # "get"
    PROVE  Found(k)'
<1>1. \A d \in Client : d # c /\ call[d].key = k => (call'[d].raced <=> call[d].op = "get")
  BY Others DEF At
<1>2. call'[c] = cl /\ \A d \in Client : d # c => call'[d].op = call[d].op /\ call'[d].key = call[d].key
  BY Others
<1>3. ASSUME NEW d \in On(k)' PROVE call'[d].op = "get" => call'[d].raced
  BY <1>1, <1>2 DEF On
<1> QED
  BY <1>3 DEF Found

\* A writer opens a temporary file: its key, and what is noted of it.
LEMMA OpenTmpKey ==
    ASSUME Inv, NEW c \in Client, OpenTmp(c), NEW k \in Key, call[c].key = k, KeyInv(k),
           NEW cl \in CallType, Steps(c, cl), cl.step = "fill", cl.key = k, cl.op = call[c].op,
           NEW own, Belongs(own), NEW h, h # 0, cl.file = h,
           dir'[Tmp(c)] = h, \A n \in (Tmps(k) \cup {k, Sidecar(k)}) \ {Tmp(c)} : dir'[n] = dir[n],
           \A n \in (Tmps(k) \cup {k}) \ {Tmp(c)} : dir[n] # h,
           inode'[h] = Empty, \A j \in 1..Len(inode) : j # h => inode'[j] = inode[j],
           dir[Sidecar(k)] # h, \A d \in On(k) : call[d].step = "link" => call[d].file # h
    PROVE  KeyInv(k)' /\ OfKey(k)
<1>1. /\ call[c].step = "open" /\ call[c].op # "insert" /\ Contends(c) /\ UNCHANGED Writes /\ UNCHANGED torn
      /\ contended \cup torn \subseteq Key
  BY DEF OpenTmp, At, Inv
<1>2. /\ Typed /\ call[c] \in CallType /\ Placed(call[c]) /\ call[c].op \in Replacers
  BY <1>1, Started DEF Placed, Writers, Replacers
<1>3. PICK S : S = \E d \in Client \ {c} : /\ call[d].op \in Replacers /\ call[d].step \in Filling
                                         /\ Tmp(d) = Tmp(c)
  OBVIOUS
<1>4. (S => shared' = shared \cup {k}) /\ (~S => shared' = shared)
  BY <1>3 DEF OpenTmp, Replacers, Filling
<1>5. S => \E d \in Client : d # c /\ call[d].key = k /\ call[d].step \in Changing
  <2> SUFFICES ASSUME NEW d \in Client, d # c, call[d].step \in Filling, Tmp(d) = Tmp(c)
               PROVE  call[d].key = k /\ call[d].step \in Changing
    BY <1>3
  <2>1. call[d].step \in Changing
    BY DEF Changing
  <2>2. PICK j \in Key : call[d].key = j
    BY <2>1, UnderWay
  <2>3. Tmp(d) \in Tmps(j) /\ Tmp(d) \in Tmps(k)
    BY <2>2, TmpFacts
  <2> QED
    BY <2>1, <2>2, <2>3, NameFacts
<1>6. contended \subseteq contended' /\ (S => k \in contended')
  BY <1>1, <1>5, MutatingSteps DEF Contends
<1>7. k \in shared' => k \in contended'
  BY <1>4, <1>6 DEF KeyInv, Orderly
<1>8. /\ \A n \in Tmps(k) \cup {k} : n \in Name
      /\ k \notin Tmps(k) /\ Tmp(c) \in Tmps(k) /\ Sidecar(k) \notin Tmps(k) /\ Sidecar(k) \in Name
      /\ \A n \in Name : dir[n] \in 0..Len(inode) /\ Len(inode) \in Nat
      /\ \A d \in Fillers(k) : Tmp(d) \in Tmps(k) /\ d \in On(k)
  <2>1. Tmp(c) \in Tmps(k)
    BY TmpFacts
  <2> QED
    BY <2>1, NamedFiles, NameFacts
<1>9. \A d \in Fillers(k) : d # c /\ Tmp(d) = Tmp(c) => S
  BY <1>2, <1>3 DEF Fillers, On, Typed, Placed
<1>10. k \notin shared' => k \notin shared /\ \A d \in Fillers(k) : d # c => Tmp(d) # Tmp(c)
  BY <1>4, <1>9
<1>11. dir'[k] = dir[k] /\ dir'[Sidecar(k)] = dir[Sidecar(k)] /\ dir[k] # h
  BY <1>8
<1>12. (Clean(k)' <=> Clean(k)) /\ (k \notin contended /\ Dated(k) => Dated(k)')
  <2>2. /\ dir[k] # 0 => inode'[dir[k]] = inode[dir[k]]
        /\ dir[Sidecar(k)] # 0 => inode'[dir[Sidecar(k)]] = inode[dir[Sidecar(k)]]
    BY <1>8, <1>11
  <2> QED
    BY <1>1, <1>2, <1>11, <2>2, CleanKept
<1>13. Unshared(k)' /\ Uncontended(k)' /\ Orderly(k)' /\ Dated(k)' /\ OfKey(k) /\ shared \subseteq shared'
  <2>1. call[c].step \notin Changing
    BY <1>1 DEF Changing, Filling, Dating
  <2>2. \A d \in Fillers(k) : d # c /\ Tmp(d) = Tmp(c) => k \in shared'
    BY <1>4, <1>9
  <2>3. shared \subseteq shared' /\ shared' \subseteq shared \cup {k}
    BY <1>3, <1>4
  <2> QED
    BY <1>1, <1>2, <1>7, <1>12, <2>1, <2>2, <2>3, Starts
<1>14. OneName(k)'
  BY <1>8 DEF KeyInv, OneName
<1>15. Filled(k)' /\ Linked(k)'
  <2>1. \A d \in On(k) : call[d].step \in Holding => call[d].file \in 1..Len(inode)
    BY HeldFile DEF On
  <2>2. k \notin shared' => \A d \in Fillers(k) : d # c =>
          dir'[Tmp(d)] = dir[Tmp(d)] /\ inode'[call[d].file] = inode[call[d].file]
    <3>1. ASSUME k \notin shared', NEW d \in Fillers(k), d # c
          PROVE  dir'[Tmp(d)] = dir[Tmp(d)] /\ inode'[call[d].file] = inode[call[d].file]
      <4>1. Tmp(d) \in Tmps(k) /\ Tmp(d) # Tmp(c) /\ dir[Tmp(d)] = call[d].file
        BY <1>8, <1>10, <3>1 DEF KeyInv, Filled
      <4>2. call[d].file \in 1..Len(inode)
        BY <2>1 DEF Fillers, Holding
      <4> QED
        BY <1>8, <4>1, <4>2
    <3> QED
      BY <3>1
  <2>3. \A d \in On(k) : d # c /\ call[d].step = "link" =>
          /\ inode'[call[d].file] = inode[call[d].file]
          /\ \A n \in Tmps(k) \cup {k} : dir'[n] # call[d].file
          /\ cl.step \in Holding => cl.file # call[d].file
    <3>1. \A d \in On(k) : call[d].step = "link" =>
             call[d].file \in 1..Len(inode) /\ \A n \in Tmps(k) \cup {k} : dir[n] # call[d].file
      BY <2>1 DEF KeyInv, Linked, Holding
    <3> QED
      BY <1>8, <3>1
  <2>4. /\ dir'[Tmp(c)] = cl.file /\ inode'[cl.file].clock = 0
        /\ cl.step # "rest" /\ cl.step # "replace" /\ cl.step # "link"
    BY DEF Empty
  <2>5. shared \subseteq shared' /\ UNCHANGED timed
    BY <1>1, <1>13 DEF Writes
  <2> QED
    BY <1>2, <2>2, <2>3, <2>4, <2>5, OthersFiles
<1>16. IsWholeAt(k)'
  <2>1. k \notin shared' /\ dir'[k] # 0 => IsWhole(inode'[dir'[k]])
    BY <1>8, <1>10, <1>11 DEF KeyInv, IsWholeAt
  <2>2. \A d \in On(k)' : call'[d].step = "answered" => d \in On(k) /\ call[d].step = "answered" /\ call'[d].out = call[d].out
    BY <1>2, Others DEF On
  <2> QED
    BY <1>10, <2>1, <2>2 DEF KeyInv, IsWholeAt, At
<1>17. Found(k)'
  BY <1>1, <1>2, OpenFound DEF Replacers
<1> QED
  BY <1>13, <1>14, <1>15, <1>16, <1>17 DEF KeyInv

\* A temporary file is opened, new or emptied.
LEMMA OpenTmpKeeps ==
    ASSUME Inv, NEW c \in Client, OpenTmp(c)
    PROVE  Inv'
<1>1. /\ call[c].step = "open" /\ call[c].op # "insert" /\ UNCHANGED Writes /\ Opened(Tmp(c))
      /\ Steps(c, [call[c] EXCEPT !.step = "fill", !.file = Handle(Tmp(c))])
  BY DEF OpenTmp, At
<1>2. /\ Typed /\ call[c] \in CallType /\ Placed(call[c])
      /\ \E k \in Key : call[c].key = k /\ KeyInv(k)
  BY <1>1, Started
<1>3. PICK k \in Key : call[c].key = k /\ KeyInv(k)
  BY <1>2
<1>4. PICK own \in [1..Len(inode) -> Key \X {"data", "side"}] : Belongs(own)
  BY DEF Inv
<1>5. PICK t : t = Tmp(c)
  OBVIOUS
<1>6. /\ t \in Tmps(k) /\ t \in Name /\ t # k /\ t # Sidecar(k) /\ Sidecar(k) \in Name
      /\ \A n \in Tmps(k) \cup {k} : n \in Name /\ n # Sidecar(k) /\ (dir[n] # 0 => own[dir[n]] = <<k, "data">>)
      /\ \A n \in Name : dir[n] \in 0..Len(inode)
      /\ Len(inode) \in Nat /\ writes \in Nat
      /\ dir[Sidecar(k)] # 0 => own[dir[Sidecar(k)]] = <<k, "side">>
  <2>1. t \in Tmps(k)
    BY <1>3, <1>5, TmpFacts
  <2>2. dir[Sidecar(k)] # 0 => own[dir[Sidecar(k)]] = <<k, "side">>
    BY <1>4 DEF Belongs
  <2>3. Len(inode) \in Nat /\ writes \in Nat
    BY <1>2, FileFacts DEF Typed
  <2> QED
    BY <1>4, <2>1, <2>2, <2>3, NamedFiles
<1>7. PICK h : h = Handle(t)
  OBVIOUS
<1>8. h \in Nat /\ h # 0
  BY <1>6, <1>7 DEF Handle
<1>9. PICK cl : cl = [call[c] EXCEPT !.step = "fill", !.file = h]
  OBVIOUS
<1>10. /\ cl \in CallType /\ cl.step = "fill" /\ cl.key = k /\ cl.op = call[c].op /\ cl.id = call[c].id
       /\ cl.file = h /\ cl.raced = call[c].raced
  BY <1>2, <1>3, <1>8, <1>9 DEF CallType, AllSteps, Changing, Filling
<1>11. Steps(c, cl) /\ cl.step \in Holding /\ cl.step # "token"
  BY <1>1, <1>5, <1>7, <1>9, <1>10 DEF Holding, Filling
<1>12. Empty \in File /\ Empty.lo <= writes /\ Empty.hi <= writes /\ Empty.clock <= writes
  BY <1>6 DEF Empty, File
<1>13. UNCHANGED <<writes, timed, inserts, lapsed>>
  BY <1>1 DEF Writes
<1>14. \A d \in On(k) : call[d].step = "link" =>
          call[d].file \in 1..Len(inode) /\ \A n \in Tmps(k) \cup {k} : dir[n] # call[d].file
  BY <1>3, HeldFile DEF On, KeyInv, Linked, Holding
<1>15. CASE dir[t] # 0
  <2>1. h = dir[t] /\ inode' = [inode EXCEPT ![h] = Empty] /\ UNCHANGED dir /\ h \in 1..Len(inode)
    BY <1>1, <1>5, <1>6, <1>7, <1>15 DEF Opened, Handle
  <2>2. own[h] = <<k, "data">>
    BY <1>6, <1>15, <2>1
  <2>3. own[h][1] = k
    BY <2>2
  <2>4. /\ inode' \in Seq(File) /\ Len(inode') = Len(inode)
        /\ \A j \in 1..Len(inode) : inode'[j] = IF j = h THEN Empty ELSE inode[j]
    BY <1>2, <1>12, <2>1, Rewritten DEF Typed
  <2>5. Placed(cl)'
    BY <1>1, <1>2, <1>3, <1>10, <1>13, <2>1, <2>4 DEF Placed, Filling, Dating, Reading, Writers, Replacers
  <2>6. \A n \in (Tmps(k) \cup {k}) \ {t} : dir[n] # h
    BY <1>3, <1>6, <1>15, <2>1 DEF KeyInv, OneName
  <2>7. dir[Sidecar(k)] # h
    BY <1>4, <1>8, <2>2, Apart
  <2>8. \A d \in On(k) : call[d].step = "link" => call[d].file # h
    BY <1>6, <1>14, <2>1
  <2>9. dir'[t] = h /\ \A n \in (Tmps(k) \cup {k, Sidecar(k)}) \ {t} : dir'[n] = dir[n]
    BY <2>1
  <2>10. inode'[h] = Empty /\ \A j \in 1..Len(inode) : j # h => inode'[j] = inode[j]
    BY <2>1, <2>4
  <2>11. KeyInv(k)' /\ OfKey(k)
    BY <1>3, <1>4, <1>5, <1>8, <1>10, <1>11, <2>6, <2>7, <2>8, <2>9, <2>10, OpenTmpKey
  <2>12. Within(k, cl, own, own)
    BY <1>4, <1>6, <1>8, <1>10, <1>11, <2>1, <2>2, <2>4 DEF Within
  <2>13. /\ dir' \in [Name -> 0..Len(inode')]
         /\ \A j \in 1..Len(inode') : /\ inode'[j].lo <= writes /\ inode'[j].hi <= writes
                                      /\ inode'[j].clock <= writes
         /\ \A j \in 1..Len(inode) : own[j][1] # k => inode'[j] = inode[j]
    BY <1>2, <1>12, <2>1, <2>3, <2>4 DEF Typed
  <2> QED
    BY <1>1, <1>3, <1>4, <1>10, <1>11, <2>4, <2>5, <2>11, <2>12, <2>13, StepKeeps
<1>16. CASE dir[t] = 0
  <2>1. /\ h = Len(inode) + 1 /\ inode' = Append(inode, Empty)
        /\ dir' = [dir EXCEPT ![t] = Len(inode) + 1]
    BY <1>1, <1>5, <1>7, <1>16 DEF Opened, Handle
  <2>2. /\ inode' \in Seq(File) /\ Len(inode') = Len(inode) + 1
        /\ \A j \in 1..Len(inode) : inode'[j] = inode[j]
        /\ inode'[h] = Empty
    BY <1>2, <1>12, <2>1, Created DEF Typed
  <2>3. /\ dir' \in [Name -> 0..Len(inode')]
        /\ \A n \in Name : dir'[n] = IF n = t THEN Len(inode) + 1 ELSE dir[n]
    BY <1>2, <1>6, <2>1, <2>2 DEF Typed
  <2>4. Placed(cl)'
    BY <1>1, <1>2, <1>3, <1>10, <1>13, <2>1, <2>2 DEF Placed, Filling, Dating, Reading, Writers, Replacers
  <2>5. \A n \in Tmps(k) \cup {k, Sidecar(k)} : n \in Name /\ dir[n] # h
    BY <1>6, <2>1
  <2>6. \A d \in On(k) : call[d].step = "link" => call[d].file # h
    BY <1>6, <1>14, <2>1
  <2>7. dir'[t] = h /\ \A n \in (Tmps(k) \cup {k, Sidecar(k)}) \ {t} : dir'[n] = dir[n]
    BY <1>6, <2>1, <2>3, <2>5
  <2>8. /\ \A n \in (Tmps(k) \cup {k}) \ {t} : dir[n] # h
        /\ dir[Sidecar(k)] # h
    BY <2>5
  <2>11. inode'[h] = Empty /\ \A j \in 1..Len(inode) : j # h => inode'[j] = inode[j]
    BY <2>2
  <2>9. KeyInv(k)' /\ OfKey(k)
    BY <1>3, <1>4, <1>5, <1>8, <1>10, <1>11, <2>6, <2>7, <2>8, <2>11, OpenTmpKey
  <2>10. Made(cl, k, "data", Empty)
    BY <1>6, <1>10, <1>11, <1>12, <2>1, <2>3 DEF Made, NamesFor
  <2> QED
    BY <1>1, <1>3, <1>10, <1>11, <2>4, <2>9, <2>10, Creates
<1> QED
  BY <1>15, <1>16

\* An insert's body is written under a name of its own.
LEMMA OpenOwnKeeps ==
    ASSUME Inv, NEW c \in Client, OpenOwn(c)
    PROVE  Inv'
<1>1. /\ call[c].step = "open" /\ call[c].op = "insert" /\ Contends(c)
      /\ UNCHANGED <<dir, Writes, shared, torn, crashes>> /\ contended \cup torn \subseteq Key
  BY DEF OpenOwn, At, Inv
<1>2. /\ Typed /\ call[c] \in CallType /\ Placed(call[c])
      /\ \E k \in Key : call[c].key = k /\ KeyInv(k)
  BY <1>1, Started
<1>3. PICK k \in Key : call[c].key = k /\ KeyInv(k)
  BY <1>2
<1>4. PICK own \in [1..Len(inode) -> Key \X {"data", "side"}] : Belongs(own)
  BY DEF Inv
<1>5. /\ \A n \in Tmps(k) \cup {k} : n \in Name /\ n # Sidecar(k)
      /\ Sidecar(k) \in Name
      /\ \A n \in Name : dir[n] \in 0..Len(inode)
      /\ \A d \in Fillers(k) : Tmp(d) \in Tmps(k) /\ d \in On(k)
      /\ Len(inode) \in Nat /\ writes \in Nat
  <2>1. Len(inode) \in Nat /\ writes \in Nat
    BY <1>2, FileFacts DEF Typed
  <2> QED
    BY <1>4, <2>1, NamedFiles
<1>6. PICK w : w = call[c].id
  OBVIOUS
<1>7. w \in Nat /\ w <= writes
  BY <1>2, <1>6 DEF CallType, Placed
<1>8. PICK g : g = [Whole(w) EXCEPT !.clock = IF w \in timed THEN w ELSE 0]
  OBVIOUS
<1>9. g \in File /\ g.lo <= writes /\ g.hi <= writes /\ g.clock <= writes
  BY <1>5, <1>7, <1>8 DEF Whole, File
<1>10. PICK h : h = Len(inode) + 1
  OBVIOUS
<1>11. PICK cl : cl = [call[c] EXCEPT !.step = "link", !.file = h]
  OBVIOUS
<1>12. inode' = Append(inode, g) /\ Steps(c, cl)
  BY <1>6, <1>8, <1>10, <1>11 DEF OpenOwn
<1>13. /\ cl \in CallType /\ cl.step = "link" /\ cl.key = k /\ cl.op = call[c].op /\ cl.id = w
       /\ cl.file = h /\ cl.raced = call[c].raced
  <2>1. h \in Nat /\ call[c] \in CallType /\ call[c].key = k /\ call[c].id = w
    BY <1>2, <1>3, <1>5, <1>6, <1>10
  <2> QED
    BY <1>11, <2>1 DEF CallType, AllSteps, Changing
<1>14. /\ inode' \in Seq(File) /\ Len(inode') = Len(inode) + 1
       /\ \A j \in 1..Len(inode) : inode'[j] = inode[j]
       /\ inode'[h] = g
  BY <1>2, <1>9, <1>10, <1>12, Created DEF Typed
<1>15. UNCHANGED <<dir, writes, timed, inserts, lapsed, shared>> /\ UNCHANGED Writes
  BY <1>1 DEF Writes
<1>16. Placed(cl)'
  BY <1>1, <1>2, <1>3, <1>6, <1>10, <1>13, <1>14, <1>15 DEF Placed, Filling, Dating, Reading, Writers
<1>17. \A d \in On(k) : call[d].step \in Holding => call[d].file \in 1..Len(inode)
  BY HeldFile DEF On
<1>18. \A n \in Tmps(k) \cup {k, Sidecar(k)} :
          dir[n] # h /\ (dir[n] # 0 => inode'[dir[n]] = inode[dir[n]])
  BY <1>5, <1>10, <1>14
<1>19. (Clean(k)' <=> Clean(k)) /\ (k \notin contended /\ Dated(k) => Dated(k)')
  <2>1. /\ dir'[k] = dir[k] /\ dir'[Sidecar(k)] = dir[Sidecar(k)] /\ UNCHANGED Writes
        /\ dir[k] # 0 => inode'[dir[k]] = inode[dir[k]]
        /\ dir[Sidecar(k)] # 0 => inode'[dir[Sidecar(k)]] = inode[dir[Sidecar(k)]]
    BY <1>15, <1>18
  <2> QED
    BY <1>2, <2>1, CleanKept
<1>20. Unshared(k)' /\ Uncontended(k)' /\ Orderly(k)' /\ Dated(k)' /\ OfKey(k)
  <2>1. contended \subseteq contended'
    BY <1>1 DEF Contends
  <2>2. k \in shared' => k \in contended'
    BY <1>3, <1>15, <2>1 DEF KeyInv, Orderly
  <2>3. call[c].step \notin Changing
    BY <1>1 DEF Changing, Filling, Dating
  <2>4. shared \subseteq shared' /\ shared' \subseteq shared \cup {k}
    BY <1>15
  <2> QED
    BY <1>1, <1>2, <1>3, <1>12, <1>13, <1>19, <2>2, <2>3, <2>4, Starts
<1>21. OneName(k)'
  BY <1>3, <1>15 DEF KeyInv, OneName
<1>22. Filled(k)' /\ Linked(k)'
  <2>1. k \notin shared' => \A d \in Fillers(k) : d # c =>
          dir'[Tmp(d)] = dir[Tmp(d)] /\ inode'[call[d].file] = inode[call[d].file]
    BY <1>5, <1>14, <1>15, <1>17 DEF Fillers, Holding
  <2>2. \A d \in On(k) : d # c /\ call[d].step = "link" =>
          /\ inode'[call[d].file] = inode[call[d].file]
          /\ \A n \in Tmps(k) \cup {k} : dir'[n] # call[d].file
          /\ cl.step \in Holding => cl.file # call[d].file
    <3>1. \A d \in On(k) : call[d].step = "link" =>
             call[d].file \in 1..Len(inode) /\ \A n \in Tmps(k) \cup {k} : dir[n] # call[d].file
      BY <1>3, <1>17 DEF KeyInv, Linked, Holding
    <3> QED
      BY <1>5, <1>10, <1>13, <1>14, <1>15, <3>1
  <2>3. /\ inode'[cl.file] = [Whole(cl.id) EXCEPT !.clock = IF cl.id \in timed THEN cl.id ELSE 0]
        /\ \A n \in Tmps(k) \cup {k} : dir'[n] # cl.file
        /\ \A d \in On(k) : d # c /\ call[d].step \in Holding => call[d].file # cl.file
    BY <1>5, <1>8, <1>10, <1>13, <1>14, <1>15, <1>17, <1>18
  <2>4. cl.step \notin Filling /\ shared \subseteq shared' /\ UNCHANGED timed
    BY <1>13, <1>15 DEF Filling
  <2> QED
    BY <1>2, <1>3, <1>12, <1>13, <2>1, <2>2, <2>3, <2>4, OthersFiles
<1>23. IsWholeAt(k)'
  <2>1. k \notin shared /\ dir'[k] # 0 => IsWhole(inode'[dir'[k]])
    BY <1>3, <1>15, <1>18 DEF KeyInv, IsWholeAt
  <2>2. \A d \in On(k)' : call'[d].step = "answered" => d \in On(k) /\ call[d].step = "answered" /\ call'[d].out = call[d].out
    BY <1>2, <1>12, <1>13, Others DEF On
  <2> QED
    BY <1>3, <1>15, <2>1, <2>2 DEF KeyInv, IsWholeAt, At
<1>24. Found(k)'
  BY <1>1, <1>2, <1>3, <1>12, <1>13, OpenFound
<1>25. KeyInv(k)'
  BY <1>20, <1>21, <1>22, <1>23, <1>24 DEF KeyInv
<1>26. Made(cl, k, "data", g)
  <2>1. dir' \in [Name -> 0..Len(inode')]
    BY <1>2, <1>5, <1>14, <1>15 DEF Typed
  <2> QED
    BY <1>9, <1>10, <1>12, <1>13, <1>15, <2>1 DEF Made, NamesFor
<1> QED
  BY <1>3, <1>12, <1>13, <1>15, <1>16, <1>20, <1>25, <1>26, Creates

-----------------------------------------------------------------------------
(***************************************************************************)
(* Calls that begin, time that passes, processes that die.                 *)
(***************************************************************************)

\* The files stay, and so does what is said of them, where calls begin or die.
LEMMA FilesStay ==
    ASSUME Inv, Typed', UNCHANGED <<dir, inode, shared, contended>>, torn \subseteq torn', torn' \subseteq Key,
           \A d \in Client : call'[d] = call[d] \/ call'[d] = Idle \/ Silent(call'[d]),
           \A j \in Key : j \notin torn' => Changers(j) \subseteq Changers(j)',
           \A w \in 0..writes : (w \in timed' <=> w \in timed) /\ (w \in inserts' <=> w \in inserts),
           lapsed \subseteq lapsed'
    PROVE  Inv'
<1>1. Typed /\ shared \cup contended \cup torn \subseteq Key
  BY DEF Inv
<1>2. PICK own \in [1..Len(inode) -> Key \X {"data", "side"}] : Belongs(own)
  BY DEF Inv
<1>3. Idle.key = <<>> /\ Idle.step = "idle" /\ <<>> \notin Key
  BY FileAssumption DEF Idle
<1>4. ASSUME NEW j \in Key PROVE KeyInv(j)'
  <2>1. KeyInv(j)
    BY DEF Inv
  <2>2. \A d \in Client : call'[d].key = j => call'[d] = call[d] \/ Silent(call'[d])
    BY <1>3
  <2>3. /\ \A n \in Names(j) : dir'[n] = dir[n]
        /\ \A i \in 1..Len(inode) : own[i][1] = j => inode'[i] = inode[i]
        /\ j \in shared' <=> j \in shared
        /\ j \in contended' <=> j \in contended
        /\ j \in torn => j \in torn'
    OBVIOUS
  <2> QED
    BY <1>1, <1>2, <2>1, <2>2, <2>3, Frame
<1>5. Belongs(own)'
  <2>1. ASSUME NEW d \in Client
        PROVE  /\ call'[d].step \in Holding => call'[d].file # 0 /\ own[call'[d].file] = <<call'[d].key, "data">>
               /\ call'[d].step = "token" => call'[d].file # 0 /\ own[call'[d].file] = <<call'[d].key, "side">>
    <3>1. CASE call'[d] = call[d]
      BY <1>2, <3>1 DEF Belongs
    <3>2. CASE call'[d] # call[d]
      BY <1>3, <3>2 DEF Silent, Holding, Filling
    <3> QED
      BY <3>1, <3>2
  <2> QED
    BY <1>2, <2>1 DEF Belongs
<1>6. (shared' \cup contended' \cup torn') \subseteq Key
  BY <1>1
<1> QED
  BY <1>2, <1>4, <1>5, <1>6 DEF Inv

\* A TTL runs out.
LEMMA LapseKeeps ==
    ASSUME Inv, NEW w \in timed, Lapse(w)
    PROVE  Inv'
<1>1. /\ Typed /\ UNCHANGED <<dir, inode, call, writes, timed, inserts, shared, contended, torn>>
      /\ lapsed' = lapsed \cup {w}
  BY DEF Inv, Lapse, Ghosts
<1>2. \A d \in Client : Placed(call[d])'
  BY <1>1 DEF Typed, Placed
<1>3. Typed'
  BY <1>1, <1>2 DEF Typed
<1>4. \A j \in Key : Changers(j)' = Changers(j)
  BY <1>1 DEF Changers, On
<1>5. torn \subseteq torn' /\ torn' \subseteq Key /\ lapsed \subseteq lapsed'
  BY <1>1 DEF Inv
<1> QED
  BY <1>1, <1>3, <1>4, <1>5, FilesStay

\* A call begins.
LEMMA BeginKeeps ==
    ASSUME Inv, NEW c \in Client, NEW op \in Op, NEW k \in Key, NEW ttl \in BOOLEAN, Begin(c, op, k, ttl)
    PROVE  Inv'
<1>1. /\ Typed /\ UNCHANGED <<dir, inode, lapsed, shared, contended, torn>> /\ call[c].step = "idle"
      /\ op \in Writers => writes < MaxWrites
      /\ ttl => op \in Writers
      /\ writes' = IF op \in Writers THEN writes + 1 ELSE writes
      /\ timed' = IF ttl THEN timed \cup {writes + 1} ELSE timed
      /\ inserts' = IF op = "insert" THEN inserts \cup {writes + 1} ELSE inserts
  BY DEF Inv, Begin, Ghosts, At
<1>2. writes \in Nat /\ writes <= MaxWrites /\ MaxWrites \in Nat /\ Len(inode) \in Nat
  BY <1>1, FileFacts, FileAssumption DEF Typed
<1>3. PICK cl : cl = [Idle EXCEPT !.op = op, !.key = k,
                               !.id = IF op \in Writers THEN writes + 1 ELSE 0,
                               !.step = CASE op = "get" -> "stat"
                                          [] op = "delete" -> "probe"
                                          [] op \in Writers -> "open"]
  OBVIOUS
<1>4. call' = [call EXCEPT ![c] = cl]
  BY <1>3 DEF Begin
<1>5. op \in Writers \/ op = "delete" \/ op = "get"
  BY FileAssumption DEF Writers
<1>6. "delete" \notin Writers /\ "get" \notin Writers
  BY DEF Writers
<1>7. /\ cl.op = op /\ cl.key = k /\ cl.file = 0 /\ cl.raced = FALSE /\ cl.token = 0 /\ cl.out = Empty
      /\ op \in Writers => cl.id = writes + 1 /\ cl.step = "open"
      /\ op = "delete" => cl.id = 0 /\ cl.step = "probe"
      /\ op = "get" => cl.id = 0 /\ cl.step = "stat"
  BY <1>3, <1>6 DEF Idle
<1>8. cl \in CallType
  <2>1. Empty \in File
    BY DEF Empty, File
  <2>3. cl.op \in AllOps /\ cl.step \in AllSteps /\ cl.id \in Nat
    BY <1>2, <1>5, <1>7 DEF AllOps, AllSteps, Reading
  <2>4. PICK s, i : /\ s = CASE op = "get" -> "stat" [] op = "delete" -> "probe" [] op \in Writers -> "open"
                    /\ i = IF op \in Writers THEN writes + 1 ELSE 0
    OBVIOUS
  <2>5. cl = [Idle EXCEPT !.op = op, !.key = k, !.id = i, !.step = s]
    BY <1>3, <2>4
  <2>6. cl = [op |-> op, step |-> s, key |-> k, id |-> i, file |-> 0, token |-> 0, raced |-> FALSE, out |-> Empty]
    BY <2>5 DEF Idle
  <2>7. op \in AllOps /\ s \in AllSteps /\ i \in Nat
    BY <1>7, <2>3, <2>6
  <2> QED
    BY <2>1, <2>6, <2>7 DEF CallType
<1>9. call \in [Client -> CallType]
  BY <1>1 DEF Typed
<1>10. call' \in [Client -> CallType] /\ call'[c] = cl /\ \A d \in Client : d # c => call'[d] = call[d]
  BY <1>4, <1>8, <1>9
<1>11. /\ writes' \in Nat /\ writes <= writes' /\ writes' <= MaxWrites
       /\ timed \subseteq timed' /\ timed' \subseteq 1..writes' /\ inserts' \subseteq 1..writes'
       /\ \A w \in 0..writes : (w \in timed' <=> w \in timed) /\ (w \in inserts' <=> w \in inserts)
       /\ op # "insert" => writes + 1 \notin inserts'
  BY <1>1, <1>2 DEF Typed, Writers
<1>12. \A d \in Client : Placed(call[d])'
  <2>1. ASSUME NEW d \in Client, d # c PROVE Placed(call[d])'
    <3>1. Placed(call[d]) /\ call[d].id \in Nat
      BY <1>1, <1>9 DEF Typed, CallType
    <3>2. call'[d] = call[d]
      BY <1>10, <2>1
    <3> QED
      BY <1>1, <1>2, <1>11, <3>1, <3>2 DEF Placed
  <2>2. Placed(call[c])'
    <3>1. op \in Replacers => op \in Writers /\ op # "insert"
      BY DEF Writers, Replacers
    <3>2. cl.id <= writes' /\ (op \in Replacers => cl.id \notin inserts')
      BY <1>1, <1>2, <1>5, <1>7, <1>11, <3>1
    <3>3. cl.step \in {"open", "probe", "stat"} /\ cl.step # "utime"
      BY <1>5, <1>7
    <3> QED
      BY <1>1, <1>2, <1>5, <1>6, <1>7, <1>10, <3>2, <3>3 DEF Placed, Filling, Dating, Reading
  <2> QED
    BY <2>1, <2>2
<1>13. Typed'
  <2>1. \A i \in 1..Len(inode) : inode[i] \in File
    BY <1>1, FileFacts
  <2>2. \A i \in 1..Len(inode) : inode[i].lo <= writes' /\ inode[i].hi <= writes' /\ inode[i].clock <= writes'
    BY <1>1, <1>2, <1>11, <2>1 DEF Typed, File
  <2> QED
    BY <1>1, <1>10, <1>11, <1>12, <2>2 DEF Typed
<1>14. Silent(cl)
  BY <1>5, <1>7 DEF Silent
<1>15. \A j \in Key : Changers(j) \subseteq Changers(j)'
  <2>1. \A j \in Key : c \notin Changers(j)
    BY <1>1 DEF Changers, Changing, Filling, Dating
  <2> QED
    BY <1>10, <2>1 DEF Changers, On
<1>16. torn \subseteq torn' /\ torn' \subseteq Key /\ lapsed \subseteq lapsed'
  BY <1>1 DEF Inv
<1>17. \A d \in Client : call'[d] = call[d] \/ Silent(call'[d])
  BY <1>10, <1>14
<1> QED
  BY <1>1, <1>11, <1>13, <1>15, <1>16, <1>17, FilesStay

\* A process dies.
LEMMA CrashKeeps ==
    ASSUME Inv, NEW p, Crash(p)
    PROVE  Inv'
<1>1. /\ Typed /\ UNCHANGED <<dir, inode, writes, timed, inserts, lapsed, shared, contended>>
      /\ torn' = torn \cup
           {call[c].key : c \in {d \in Client : ProcessOf[d] = p /\ call[d].step \in Changing}}
      /\ call' = [c \in Client |-> IF ProcessOf[c] = p THEN Idle ELSE call[c]]
  BY MutatingSteps DEF Inv, Crash, Writes
<1>2. Empty \in File
  BY DEF Empty, File
<1>3. Idle \in CallType
  BY <1>2 DEF Idle, CallType, AllOps, AllSteps
<1>4. writes \in Nat /\ Len(inode) \in Nat
  BY <1>1, FileFacts DEF Typed
<1>5. \A d \in Client : Placed(call[d])'
  <2>1. Placed(Idle)'
    BY <1>1, <1>4 DEF Placed, Idle, Filling, Dating, Reading, Writers, Replacers
  <2>2. ASSUME NEW d \in Client, ProcessOf[d] # p PROVE Placed(call[d])'
    BY <1>1, <2>2 DEF Typed, Placed
  <2>3. ASSUME NEW d \in Client, ProcessOf[d] = p PROVE Placed(call[d])'
    <3>1. call'[d] = Idle
      BY <1>1, <2>3
    <3> QED
      BY <2>1, <3>1 DEF Placed, Idle
  <2> QED
    BY <2>2, <2>3
<1>6. Typed'
  BY <1>1, <1>3, <1>5 DEF Typed
<1>7. torn \subseteq torn' /\ torn' \subseteq Key
  <2>1. ASSUME NEW d \in Client, call[d].step \in Changing PROVE call[d].key \in Key
    BY <2>1, UnderWay
  <2> QED
    BY <1>1, <2>1 DEF Inv
<1>8. ASSUME NEW j \in Key, j \notin torn' PROVE Changers(j) \subseteq Changers(j)'
  <2>1. \A d \in Changers(j) : d \in Client /\ ProcessOf[d] # p
    BY <1>1, <1>8 DEF Changers, On
  <2> QED
    BY <1>1, <2>1 DEF Changers, On
<1>9. \A d \in Client : call'[d] = call[d] \/ call'[d] = Idle
  BY <1>1
<1> QED
  BY <1>1, <1>6, <1>7, <1>8, <1>9, FilesStay

\* At the start there are no files and no calls.
LEMMA InitInv ==
    ASSUME Init
    PROVE  Inv
<1>1. /\ dir = [n \in Name |-> 0] /\ inode = <<>> /\ call = [c \in Client |-> Idle]
      /\ writes = 0 /\ timed = {} /\ inserts = {} /\ lapsed = {}
      /\ shared = {} /\ contended = {} /\ torn = {}
  BY DEF Init
<1>2. Len(inode) = 0 /\ inode \in Seq(File)
  BY <1>1, EmptySeq
<1>3. Empty \in File
  BY DEF Empty, File
<1>4. Idle \in CallType
  BY <1>3 DEF Idle, CallType, AllOps, AllSteps
<1>5. Placed(Idle)
  BY <1>1, <1>2 DEF Placed, Idle, Filling, Dating, Reading, Writers, Replacers
<1>6. Typed
  BY <1>1, <1>2, <1>4, <1>5, FileAssumption DEF Typed
<1>7. \A c \in Client : call[c].step = "idle" /\ call[c].key \notin Key
  BY <1>1, FileAssumption DEF Idle
<1>8. PICK own : own = [i \in 1..Len(inode) |-> <<CHOOSE k \in Key : TRUE, "data">>]
  OBVIOUS
<1>9. own \in [1..Len(inode) -> Key \X {"data", "side"}]
  BY <1>2, <1>8
<1>10. \A k \in Key : /\ \A n \in Tmps(k) \cup {k, Sidecar(k)} : dir[n] = 0
                      /\ On(k) = {} /\ Fillers(k) = {} /\ Changers(k) = {}
  BY <1>1, <1>7, NameFacts DEF On, Fillers, Changers
<1>11. Belongs(own)
  BY <1>7, <1>9, <1>10 DEF Belongs, Holding, Filling
<1>12. ASSUME NEW k \in Key PROVE KeyInv(k)
  <2>1. Value(k) = 0 /\ Clean(k)
    BY <1>1, <1>10 DEF Value, Clean
  <2> QED
    BY <1>1, <1>10, <2>1 DEF KeyInv, OneName, Unshared, Filled, Linked, IsWholeAt, Uncontended, Orderly,
       Dated, Found
<1> QED
  BY <1>1, <1>6, <1>9, <1>11, <1>12 DEF Inv

-----------------------------------------------------------------------------
(***************************************************************************)
(* The theorems.                                                           *)
(***************************************************************************)

\* Every step keeps the invariant.
LEMMA NextInv ==
    ASSUME Inv, [Next]_vars
    PROVE  Inv'
<1>1. CASE Next
  <2>1. ASSUME NEW w \in timed, Lapse(w) PROVE Inv'
    BY <2>1, LapseKeeps
  <2>2. ASSUME NEW c \in Client, NEW op \in Op, NEW k \in Key, NEW ttl \in BOOLEAN, Begin(c, op, k, ttl)
        PROVE  Inv'
    BY <2>2, BeginKeeps
  <2>3. ASSUME NEW c \in Client, Step(c) PROVE Inv'
    BY <2>3, OpenTmpKeeps, OpenOwnKeeps, FillKeeps, FillRestKeeps, StreamFailsKeeps, ReplaceKeeps, LinkKeeps,
       UtimeKeeps, OpenSidecarKeeps, WriteTokenKeeps, ProbeKeeps, UnlinkKeeps, UnlinkSidecarKeeps, StatKeeps,
       ReadSidecarKeeps, ReadBodyKeeps, ReturnKeeps DEF Step
  <2>4. ASSUME NEW p, Crash(p) PROVE Inv'
    BY <2>4, CrashKeeps
  <2> QED
    BY <1>1, <2>1, <2>2, <2>3, <2>4 DEF Next
<1>2. CASE UNCHANGED vars
  <2>1. UNCHANGED <<dir, inode, call, writes, timed, inserts, lapsed, shared, contended, torn>>
    BY <1>2 DEF vars
  <2>2. Typed /\ \A d \in Client : Placed(call[d])'
    BY <2>1 DEF Inv, Typed, Placed
  <2>3. Typed'
    BY <2>1, <2>2 DEF Typed
  <2>4. \A j \in Key : Changers(j)' = Changers(j)
    BY <2>1 DEF Changers, On
  <2>5. torn \subseteq torn' /\ torn' \subseteq Key /\ lapsed \subseteq lapsed'
    BY <2>1 DEF Inv
  <2> QED
    BY <2>1, <2>3, <2>4, <2>5, FilesStay
<1> QED
  BY <1>1, <1>2

\* The files and the calls agree always.
THEOREM Holds == Spec => []Inv
<1>1. Init => Inv
  BY InitInv
<1>2. Inv /\ [Next]_vars => Inv'
  BY NextInv
<1> QED
  BY <1>1, <1>2, PTL DEF Spec

\* However writers, readers, broken streams and dying processes interleave, a data file
\* and what a read returns are whole, as long as no two writers had one temporary file
\* at once (fs_driver.py, _write_atomic and write_stream).
THEOREM AlwaysOnlyWholeValues == Spec => []OnlyWholeValues
<1>1. Inv => OnlyWholeValues
  BY DEF Inv, KeyInv, IsWholeAt, OnlyWholeValues, On, At
<1> QED
  BY <1>1, Holds, PTL

\* Names lead to files, and once the calls on a key are over its data file, its clock and
\* its sidecar belong together; where two calls changed the key at once or one died in the
\* middle, they do again once a call has replaced or deleted the file alone (fs_driver.py,
\* the order of replace, utime and sidecar).
THEOREM AlwaysInOrder == Spec => []FilesAreInOrder
<1>1. Inv => TypeOK
  <2> SUFFICES ASSUME Inv PROVE TypeOK
    OBVIOUS
  <2>1. Typed /\ Len(inode) \in Nat /\ \A i \in 1..Len(inode) : inode[i] \in File
    BY FileFacts DEF Inv
  <2>2. \A i \in 1..Len(inode) : inode[i] \in [lo : Number, hi : Number, clock : Number]
    BY <2>1, FileAssumption DEF Typed, File, Number
  <2>3. \A c \in Client : call[c].file \in 0..Len(inode)
    BY <2>1 DEF Typed, Placed, CallType
  <2> QED
    BY <2>1, <2>2, <2>3 DEF TypeOK, Typed
<1>2. Inv => FilesBelongTogether
  <2> SUFFICES ASSUME Inv, NEW k \in Key, k \notin contended \cup torn, \A c \in Client : call[c].key # k
               PROVE  Clean(k)
    BY DEF FilesBelongTogether, Clean, Value
  <2>1. Changers(k) = {}
    BY DEF Changers, On
  <2> QED
    BY <2>1 DEF Inv, KeyInv, Orderly
<1> QED
  BY <1>1, <1>2, Holds, PTL DEF FilesAreInOrder

\* A read deletes a file of its own accord only when the TTL of the value that is there has
\* run out, or another call changed the key's files while it read (store.py, the delete
\* after an expired token).
THEOREM ReadersAlwaysDeleteTheExpired == Spec => ReadersDeleteTheExpired
<1>1. ASSUME Inv, NEW c \in Client, call[c].op = "get", At(c, "unlink"), ~ call[c].raced
      PROVE  inode[dir[call[c].key]].lo \in lapsed
  <2>1. call[c].step = "unlink" /\ call[c].step \in Changing
    BY <1>1 DEF At, Changing
  <2>2. PICK k \in Key : call[c].key = k /\ KeyInv(k) /\ c \in On(k)
    BY <1>1, <2>1, UnderWay
  <2>3. Value(k) \in lapsed
    BY <1>1, <2>1, <2>2 DEF KeyInv, Found
  <2>4. 0 \notin lapsed
    BY <1>1 DEF Inv, Typed
  <2> QED
    BY <2>2, <2>3, <2>4 DEF Value
<1>2. Inv => [\A c \in Client :
                /\ call[c].op = "get" /\ At(c, "unlink") /\ dir' # dir
                /\ call'[c].step = "unmark"
                => call[c].raced \/ inode[dir[call[c].key]].lo \in lapsed]_vars
  BY <1>1
<1> QED
  BY <1>2, Holds, PTL DEF ReadersDeleteTheExpired

\* An insert's value carries its clock from the link on, whoever looks, dies or breaks off,
\* unless two calls changed the key at once (fs_driver.py, write_if_version).
THEOREM InsertsAlwaysDated == Spec => []InsertsAreDated
<1>1. Inv => InsertsAreDated
  BY DEF Inv, KeyInv, Dated, Value, InsertsAreDated
<1> QED
  BY <1>1, Holds, PTL
=============================================================================
