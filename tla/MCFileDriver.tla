---------------------------- MODULE MCFileDriver ----------------------------
(***************************************************************************)
(* One key, and two processes: one may die while the other is at work.     *)
(***************************************************************************)
EXTENDS FileDriver

OneKey == {<<"a">>}
Processes == [c \in Client |-> IF c = "other" THEN 2 ELSE 1]
=============================================================================
