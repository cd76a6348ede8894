---------------------------- MODULE MCLauncherReuse ----------------------------
(* Two calls of four threads each: enough for a thread to pass g_go while *)
(* a third of its launch is still to be created, and for joins to wait on *)
(* threads in any order of exit.                                          *)
EXTENDS LauncherReuse
=============================================================================
