--------------------------- MODULE MC_ThreadNode ---------------------------
(* Small instances of ThreadNode: two callers that race with each other and *)
(* the executor, or one synchronous caller.                                 *)
EXTENDS ThreadNode
=============================================================================
