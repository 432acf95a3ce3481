------------------------------- MODULE MCRelay -------------------------------
(***************************************************************************)
(* Instance of StreamRelay for TLC: a response of up to four events.       *)
(***************************************************************************)
EXTENDS StreamRelay
=============================================================================
