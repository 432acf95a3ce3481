------------------------------- MODULE MCWorker -------------------------------
(***************************************************************************)
(* Instance of WorkerProcess for TLC: two requests beside initialize, one  *)
(* HTTP exchange, two tool calls and one line of junk.                     *)
(***************************************************************************)
EXTENDS WorkerProcess
=============================================================================
