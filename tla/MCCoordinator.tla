---------------------------- MODULE MCCoordinator ----------------------------
(***************************************************************************)
(* Instances of ResponseCoordinator for TLC, one per cfg:                  *)
(*   Plain      one turn, three calls of which one is undeclared, two      *)
(*              continuations by either of two keys, of which one may ask  *)
(*              for a stream;                                              *)
(*   Stream     one turn that is streamed or not, deltas that overflow the *)
(*              queue, two calls, one continuation that is streamed or     *)
(*              not, fair timers;                                          *)
(*   Parallel, Dangerous, Hang   the smallest instances of three           *)
(*              behaviours the documentation excludes.                     *)
(***************************************************************************)
EXTENDS ResponseCoordinator, TLC

\* Keys, continuations of one kind and the declared calls are interchangeable.
Symmetry ==
    Permutations(Key) \cup Permutations(Continuer \ Streamable)
        \cup Permutations(Call \ Undeclared)
=============================================================================
