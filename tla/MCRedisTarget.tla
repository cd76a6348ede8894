---------------------------- MODULE MCRedisTarget ----------------------------
(***************************************************************************)
(* RedisTarget with descriptor numbers 5 and 6: 0-2 are the standard       *)
(* streams, 3 is g_socket and 4 g_epoll_fd, so the first accept returns 5. *)
(* MCFdsScarce leaves one descriptor for two clients, so accept fails with *)
(* EMFILE.                                                                 *)
(***************************************************************************)
EXTENDS RedisTarget

MCFds == {5, 6}
MCFdsScarce == {5}
=============================================================================
