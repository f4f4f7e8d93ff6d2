---------------------------- MODULE MCEditLock ----------------------------
(* Two calls on two workers.  Calls and workers have no order of their own:  *)
(* the call that comes first, and the worker it comes to, are named.         *)
EXTENDS EditLock

CONSTANTS First, FirstWorker

Named == \A e \in Edits : worker[e] # None => worker[First] = FirstWorker
=============================================================================
