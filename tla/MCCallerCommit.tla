---------------------------- MODULE MCCallerCommit ----------------------------
(***************************************************************************)
(* A turn as the README writes it: a body in an object store, its row and  *)
(* child rows on the caller's connection, and an index of its own.         *)
(***************************************************************************)
EXTENDS CallerCommit

TurnTargets == {"index", "body", "row", "lines"}
TurnPosition == [index |-> 1, body |-> 2, row |-> 3, lines |-> 4]
TurnRoles == [index |-> "dependent", body |-> "component", row |-> "authority",
              lines |-> "dependent"]
TurnLookups == [t \in TurnTargets |-> "never"]
=============================================================================
