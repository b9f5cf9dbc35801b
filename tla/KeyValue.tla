------------------------------ MODULE KeyValue ------------------------------
(***************************************************************************)
(* What a batch update and a scan are both about: the keys of one store    *)
(* and the values kept under them.                                         *)
(***************************************************************************)
CONSTANTS Key, Value
=============================================================================
