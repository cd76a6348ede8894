--------------------------- MODULE MCThreadLauncher ---------------------------
(* Four threads: enough for a thread to pass g_go while a third is still  *)
(* to be created, and for joins to wait on threads in any order of exit.  *)
EXTENDS ThreadLauncher
=============================================================================
