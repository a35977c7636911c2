----------------------------- MODULE CacheFiles -----------------------------
(***************************************************************************)
(* Files that are written in place and read by later processes.  A process *)
(* that dies while it writes leaves the file torn: it is there, it opens,  *)
(* and it ends too early.                                                  *)
(***************************************************************************)
CONSTANTS NoFile, Torn

Whole(f) == f \notin {NoFile, Torn}
=============================================================================
