---------------------------- MODULE AtomicUpdate ----------------------------
(***************************************************************************)
(* What KeyMap.update and batch_update promise, with no versions, rounds   *)
(* or retries: each key of a call is settled once, in one step that applies*)
(* the caller's decision to what the key then holds, or it is given up and *)
(* the call has not touched it.  Other callers write and remove entries,   *)
(* and entries expire, at any time between.                                *)
(***************************************************************************)
CONSTANTS
    Call,      \* the calls of batch_update
    Key,
    Value,
    Nothing,   \* what a read returns for an absent or expired entry: None
    Decide     \* the functions, from what a key holds, a caller may decide with

Shown == Value \cup {Nothing}
Decision == [do : {"keep", "put", "remove"}, value : Shown]

VARIABLES
    value,     \* what the medium stores for each key, Nothing if no entry
    expired,   \* the entry is past its time
    status,    \* how far each call is with each key
    decide,    \* the function each call decides with
    held       \* what each call reports the key to hold

vars == <<value, expired, status, decide, held>>

\* The types of the state.
TypeOK ==
    /\ value \in [Key -> Shown]
    /\ expired \in [Key -> BOOLEAN]
    /\ status \in [Call -> [Key -> {"none", "open", "settled", "lost"}]]
    /\ decide \in [Call -> Decide]
    /\ held \in [Call -> [Key -> Shown]]

Init ==
    /\ value = [k \in Key |-> Nothing]
    /\ expired = [k \in Key |-> FALSE]
    /\ status = [c \in Call |-> [k \in Key |-> "none"]]
    /\ decide \in [Call -> Decide]
    /\ held = [c \in Call |-> [k \in Key |-> Nothing]]

Replace(k, v) ==
    /\ value' = [value EXCEPT ![k] = v]
    /\ expired' = [expired EXCEPT ![k] = FALSE]

Report(c, k, v) == held' = [held EXCEPT ![c][k] = v]

Begin(c, keys) ==
    /\ \A k \in Key : status[c][k] = "none"
    /\ status' = [status EXCEPT ![c] =
                    [k \in Key |-> IF k \in keys THEN "open" ELSE "none"]]
    /\ UNCHANGED <<value, expired, decide, held>>

\* One atomic step: the decision about what the key holds takes effect.  An
\* entry whose time has passed is decided on as what it held or as nothing.
Settle(c, k) ==
    /\ status[c][k] = "open"
    /\ \E shown \in {value[k], IF expired[k] THEN Nothing ELSE value[k]} :
         LET d == decide[c][shown] IN
         \/ /\ d.do = "keep"
            /\ UNCHANGED <<value, expired>> /\ Report(c, k, shown)
         \/ /\ d.do = "put"
            /\ Replace(k, d.value) /\ Report(c, k, d.value)
         \/ /\ d.do = "remove"
            /\ Replace(k, Nothing) /\ Report(c, k, Nothing)
    /\ status' = [status EXCEPT ![c][k] = "settled"]
    /\ UNCHANGED decide

\* Conflict or failure: the keys not yet settled never will be.
GiveUp(c) ==
    /\ \E k \in Key : status[c][k] = "open"
    /\ status' = [status EXCEPT ![c] =
                    [k \in Key |-> IF @[k] = "open" THEN "lost" ELSE @[k]]]
    /\ UNCHANGED <<value, expired, decide, held>>

\* The rest of the world.
Change(k) ==
    /\ \E v \in Shown : Replace(k, v)
    /\ UNCHANGED <<status, decide, held>>

Expire(k) ==
    /\ value[k] # Nothing
    /\ expired' = [expired EXCEPT ![k] = TRUE]
    /\ UNCHANGED <<value, status, decide, held>>

Next ==
    \/ \E c \in Call : \/ \E keys \in SUBSET Key : Begin(c, keys)
                       \/ \E k \in Key : Settle(c, k)
                       \/ GiveUp(c)
    \/ \E k \in Key : Change(k) \/ Expire(k)

Spec == Init /\ [][Next]_vars
=============================================================================
