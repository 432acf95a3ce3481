------------------------------ MODULE MCConsole ------------------------------
(***************************************************************************)
(* Instance of AdminConsole for TLC: two requests at a time, two keys, one *)
(* field beside the models.                                                *)
(***************************************************************************)
EXTENDS AdminConsole, TLC

Symmetry == Permutations(Handler) \cup Permutations(Session) \cup Permutations(Key)
=============================================================================
