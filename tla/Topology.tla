------------------------------ MODULE Topology ------------------------------
(***************************************************************************)
(* The declaration of a record spread over several places, and the orders  *)
(* every operation visits them in.                                         *)
(*                                                                         *)
(* A composition (mirror, fallback_read, indexed, a zip) says of each      *)
(* target only what it is to the record; keymap_algebra/topology.py        *)
(* derives the four traversals (commit, removal, lookup, assembly) from    *)
(* that.  This module is the declaration, the checks made of it when it is *)
(* built, and the traversals.  It has no state.                            *)
(***************************************************************************)
EXTENDS Naturals

CONSTANTS
    Target,      \* the places one record lives
    Position,    \* declared order: whole targets, then parts
    RoleOf,      \* what each target is to the record
    Parts,       \* targets holding a piece of the record, not all of it
    LookupOf,    \* when a read consults a target that is not always read
    Fill,        \* targets given the value a read found after missing them
    Required     \* dependents whose failure after the commit is raised

Roles == {"component", "authority", "dependent", "fallback"}
Lookups == {"before", "after", "never"}

ByRole(r) == {t \in Target : RoleOf[t] = r}
Authority == ByRole("authority")
Components == ByRole("component")
Dependents == ByRole("dependent")
Fallbacks == ByRole("fallback")

(***************************************************************************)
(* The declaration's own checks: Target.__init__ and Topology.__post_init__*)
(* raise ValueError when one of them fails.                                *)
(***************************************************************************)
WellPlaced ==
    /\ Position \in [Target -> Nat]
    /\ \A s, t \in Target : Position[s] = Position[t] => s = t
    /\ RoleOf \in [Target -> Roles]
    /\ LookupOf \in [Target -> Lookups]
    /\ Required \subseteq Target
    /\ Fill \subseteq Authority \cup Dependents

WellFormed ==
    /\ \A s, t \in Authority : s = t
    /\ Parts \subseteq Target
    /\ Components \subseteq Parts
    /\ Fallbacks \cap Parts = {}
    /\ Authority = {} => /\ Dependents \cap Parts = {}
                         /\ Parts # {}
                         /\ Fallbacks = {}
    /\ Parts # {} =>
         \A t \in (Dependents \cup Fallbacks) \ Parts : LookupOf[t] = "never"

ASSUME PlacementAssumption == WellPlaced
ASSUME DeclarationAssumption == WellFormed

Assembled == Parts # {}

-----------------------------------------------------------------------------
(***************************************************************************)
(* Who takes part in an operation.                                         *)
(***************************************************************************)

\* The targets the record is committed to, and all a write reaches.
Committing == Components \cup Authority
Written == Committing \cup Dependents

\* What a delete removes on the spot, and what follows the commit point.
RemovedNow == IF Authority = {} THEN Components ELSE Authority

RemovedAfterCommit ==
    IF Authority = {} THEN Dependents ELSE Components \cup Dependents

\* The whole targets a read consults: caches, the authority, fallbacks.
Consulted ==
    Authority
        \cup {t \in (Dependents \cup Fallbacks) \ Parts : LookupOf[t] # "never"}

-----------------------------------------------------------------------------
(***************************************************************************)
(* The traversals.  Each is a rank per target; targets of one rank are     *)
(* visited in declared order.                                              *)
(***************************************************************************)
\* Variants with an error, against which the properties are tested: a traversal
\* that visits the dependents or components too early, or the authority late.
DerivesFirst ==
    [t \in Target |-> IF RoleOf[t] = "dependent" THEN 0
                      ELSE IF RoleOf[t] = "component" THEN 1 ELSE 2]

ComponentsFirst ==
    [t \in Target |-> IF RoleOf[t] = "component" THEN 0
                      ELSE IF RoleOf[t] = "authority" THEN 1 ELSE 2]

CommitRank ==
    [t \in Target |-> IF RoleOf[t] = "component" THEN 0
                      ELSE IF RoleOf[t] = "authority" THEN 1 ELSE 2]

RemovalRank ==
    [t \in Target |-> IF RoleOf[t] = "authority" THEN 0
                      ELSE IF RoleOf[t] = "component" THEN 1 ELSE 2]

LookupRank ==
    [t \in Target |-> IF RoleOf[t] = "authority" THEN 1
                      ELSE IF LookupOf[t] = "before" THEN 0 ELSE 2]

AssemblyRank == [t \in Target |-> IF RoleOf[t] = "authority" THEN 0 ELSE 1]

\* The target of S that a traversal visits next: none or one.
First(S, rank) ==
    {t \in S : \A u \in S : \/ rank[t] < rank[u]
                            \/ rank[t] = rank[u] /\ Position[t] <= Position[u]}

-----------------------------------------------------------------------------
(***************************************************************************)
(* Values flow downstream only: a fallback feeds the authority, and the    *)
(* authority its dependents (_STREAM_ORDER, _fillable).                    *)
(***************************************************************************)
StreamOrder ==
    [t \in Target |-> IF RoleOf[t] = "fallback" THEN 0
                      ELSE IF RoleOf[t] = "dependent" THEN 2 ELSE 1]

\* A variant with an error: a fill that goes wherever the key was missed.
FillsUpstream(source, missed) == missed \cap Fill

Fillable(source, missed) ==
    {t \in missed \cap Fill : StreamOrder[t] > StreamOrder[source]}
=============================================================================
