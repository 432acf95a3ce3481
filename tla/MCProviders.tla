------------------------------ MODULE MCProviders ------------------------------
(***************************************************************************)
(* Instance of ProviderConfig for TLC: two providers, two updates, one     *)
(* handler that probes, a declaration that is enabled and one that is not. *)
(***************************************************************************)
EXTENDS ProviderConfig, TLC

Symmetry == Permutations(Provider) \cup Permutations(Update) \cup Permutations(Key)
=============================================================================
