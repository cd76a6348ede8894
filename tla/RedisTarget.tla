----------------------------- MODULE RedisTarget -----------------------------
(***************************************************************************)
(* The bm_server_redis target (src/bench/targets/bm_server_redis.h) driven *)
(* by the clients of src/bench/client.c.                                   *)
(*                                                                         *)
(* All workers call bm_dispatch_operation on one listening socket and one  *)
(* level-triggered epoll instance.  A dispatch waits for ready events,     *)
(* then handles each: the listening socket by accept, a connection by one  *)
(* read and, when it got a request, one write of the reply.  Each system   *)
(* call is one step, so other workers may act between the epoll_wait that  *)
(* reported an fd and the read or write on it.  accept returns the lowest  *)
(* free descriptor, so a descriptor closed by one worker can be handed to  *)
(* a new connection while another worker still holds the old number.      *)
(*                                                                         *)
(* A client connects (retrying until the server listens), then sends SET   *)
(* and GET in turn, each time waiting for one reply; when its connection   *)
(* fails it leaves the loop.  A request is read whole (it is far shorter   *)
(* than MAX_BUFFER_LEN), and is SET or GET, so _bm_respond always writes.  *)
(***************************************************************************)
EXTENDS Naturals, Sequences, FiniteSets, FiniteSetsExt

CONSTANTS
    Workers,  \* the worker threads calling bm_dispatch_operation
    Clients,  \* the client processes, one connection each
    Fds,      \* the descriptor numbers accept may return
    Listen,   \* g_socket, the listening socket's descriptor
    NoConn    \* no connection, no descriptor, no request (a model value)

ASSUME Fds \subseteq Nat /\ Fds # {} /\ Listen \in Nat \ Fds


VARIABLES
    srv,     \* "down" until bm_target_init has run, then "up"
    stop,    \* the harness's stop flag
    backlog, \* connections completed by the kernel, not yet accepted
    fdConn,  \* fd number -> the connection it refers to, or NoConn
    conn,    \* per client: "none", "open", "closed" (closed by the server)
    inbox,   \* per client: the request bytes waiting at the server, or "none"
    outbox,  \* per client: replies waiting to be read, [kind, for]
    cst,     \* per client: "connecting", "sendSet", "awaitSet", "sendGet", "awaitGet", "exited"
    wpc,     \* per worker: "idle", "wait", "events", "write", "done"
    evs,     \* per worker: the events epoll_wait returned, not yet handled
    cur,     \* per worker: the fd whose request is being answered
    buf      \* per worker: the request read, [req, from]

vars == <<srv, stop, backlog, fdConn, conn, inbox, outbox, cst, wpc, evs, cur, buf>>
cvars == <<conn, inbox, outbox, cst>>
wvars == <<wpc, evs, cur, buf>>

Requests == {"SET", "GET"}

\* A handler that echoes the command instead of answering it.
ReplyKindEcho(req) == req

\* _bm_handle_set writes +OK, _bm_handle_get a bulk string.
ReplyKind(req) == IF req = "SET" THEN "+OK" ELSE "$2 HI"

Init ==
    /\ srv = "down"
    /\ stop = FALSE
    /\ backlog = {}
    /\ fdConn = [f \in Fds |-> NoConn]
    /\ conn = [c \in Clients |-> "none"]
    /\ inbox = [c \in Clients |-> "none"]
    /\ outbox = [c \in Clients |-> <<>>]
    /\ cst = [c \in Clients |-> "connecting"]
    /\ wpc = [w \in Workers |-> "idle"]
    /\ evs = [w \in Workers |-> {}]
    /\ cur = [w \in Workers |-> NoConn]
    /\ buf = [w \in Workers |-> NoConn]

-----------------------------------------------------------------------------
(* The server's setup and the harness around the workers.                  *)

\* bm_target_init: socket, bind, listen, non-blocking, epoll_create,
\* epoll_ctl(ADD g_socket).  The harness runs it before any worker starts.
bm_target_init ==
    /\ srv = "down"
    /\ srv' = "up"
    /\ UNCHANGED <<stop, backlog, fdConn, cvars, wvars>>

\* The launcher stores to the stop flag after its sleep.
RaiseStop ==
    /\ srv = "up"
    /\ ~stop
    /\ stop' = TRUE
    /\ UNCHANGED <<srv, backlog, fdConn, cvars, wvars>>

\* After the joins main calls bm_target_destroy, which closes nothing, and
\* returns: the exit of the process closes the listening socket and every
\* connection, accepted or still in the backlog.
ProcessExit ==
    /\ srv = "up"
    /\ \A w \in Workers : wpc[w] = "done"
    /\ srv' = "exited"
    /\ backlog' = {}
    /\ fdConn' = [f \in Fds |-> NoConn]
    /\ conn' = [c \in Clients |-> IF conn[c] = "open" \/ c \in backlog THEN "closed" ELSE conn[c]]
    /\ UNCHANGED <<stop, inbox, outbox, cst, wvars>>

-----------------------------------------------------------------------------
(* One worker: the loop head of the dispatch loop and bm_dispatch_operation *)

\* The events level-triggered epoll reports now: the listening socket while
\* a connection waits in the backlog, a connection while it has bytes to
\* read or its peer has gone.
Ready ==
    (IF backlog # {} THEN {Listen} ELSE {})
    \cup {f \in Fds : fdConn[f] # NoConn /\
                      (inbox[fdConn[f]] # "none" \/ cst[fdConn[f]] = "exited")}

\* bm_dispatch_operation enters epoll_wait(g_epoll_fd, events, MAX_EVENTS,
\* TIMEOUT_MS).  (g_socket and g_epoll_fd are set, as bm_target_init ran
\* before the workers started, so the check of line 209 passes.)
EpollWait(w) ==
    /\ wpc[w] = "idle"
    /\ srv = "up"
    /\ ~stop
    /\ wpc' = [wpc EXCEPT ![w] = "wait"]
    /\ UNCHANGED <<srv, stop, backlog, fdConn, cvars, evs, cur, buf>>

\* epoll_wait returns the events ready now; with fewer than MAX_EVENTS
\* descriptors it returns them all.
EpollReturn(w) ==
    /\ wpc[w] = "wait"
    /\ Ready # {}
    /\ evs' = [evs EXCEPT ![w] = Ready]
    /\ wpc' = [wpc EXCEPT ![w] = "events"]
    /\ UNCHANGED <<srv, stop, backlog, fdConn, cvars, cur, buf>>

\* epoll_wait with timeout -1: it returns only when an event is ready.
EpollTimeoutInfinite(w) ==
    /\ wpc[w] = "wait"
    /\ FALSE
    /\ UNCHANGED vars

\* Nothing became ready within TIMEOUT_MS: n == 0 and the dispatch
\* returns (0, 0) to the loop head.
EpollTimeout(w) ==
    /\ wpc[w] = "wait"
    /\ Ready = {}
    /\ wpc' = [wpc EXCEPT ![w] = "idle"]
    /\ UNCHANGED <<srv, stop, backlog, fdConn, cvars, evs, cur, buf>>

\* After an event: the next one, or the end of the dispatch.
NextEvent(w, rest) == IF rest = {} THEN "idle" ELSE "events"

\* _bm_accept_connection: accept on the non-blocking socket returns the
\* lowest free descriptor for a waiting connection and adds it to epoll; it
\* fails when none waits (another worker took it) or no descriptor is free.
Accept(w) ==
    /\ wpc[w] = "events"
    /\ Listen \in evs[w]
    /\ LET free == {f \in Fds : fdConn[f] = NoConn}
       IN  IF backlog # {} /\ free # {}
           THEN \E c \in backlog :
                  /\ fdConn' = [fdConn EXCEPT ![Min(free)] = c]
                  /\ backlog' = backlog \ {c}
                  /\ conn' = [conn EXCEPT ![c] = "open"]
           ELSE UNCHANGED <<fdConn, backlog, conn>>
    /\ evs' = [evs EXCEPT ![w] = @ \ {Listen}]
    /\ wpc' = [wpc EXCEPT ![w] = NextEvent(w, evs[w] \ {Listen})]
    /\ UNCHANGED <<srv, stop, inbox, outbox, cst, cur, buf>>

\* read(fd) returns a request: keep it and answer it next.
ReadRequest(w) ==
    /\ wpc[w] = "events"
    /\ \E f \in evs[w] \ {Listen} :
          /\ fdConn[f] # NoConn
          /\ inbox[fdConn[f]] # "none"
          /\ buf' = [buf EXCEPT ![w] = [req |-> inbox[fdConn[f]], from |-> fdConn[f]]]
          /\ cur' = [cur EXCEPT ![w] = f]
          /\ inbox' = [inbox EXCEPT ![fdConn[f]] = "none"]
          /\ evs' = [evs EXCEPT ![w] = @ \ {f}]
          /\ wpc' = [wpc EXCEPT ![w] = "write"]
    /\ UNCHANGED <<srv, stop, backlog, fdConn, conn, outbox, cst>>

\* read(fd) returns count <= 0: end of file, EAGAIN because another worker
\* already read the bytes, or EBADF because the fd is closed; in every case
\* close(fd), which drops whatever connection the number now refers to.
ReadFails(w) ==
    /\ wpc[w] = "events"
    /\ \E f \in evs[w] \ {Listen} :
          /\ fdConn[f] = NoConn \/ inbox[fdConn[f]] = "none"
          /\ fdConn' = [fdConn EXCEPT ![f] = NoConn]
          /\ conn' = IF fdConn[f] = NoConn THEN conn
                     ELSE [conn EXCEPT ![fdConn[f]] = "closed"]
          /\ evs' = [evs EXCEPT ![w] = @ \ {f}]
          /\ wpc' = [wpc EXCEPT ![w] = NextEvent(w, evs[w] \ {f})]
    /\ UNCHANGED <<srv, stop, backlog, inbox, outbox, cst, cur, buf>>

\* write(fd, reply) to whatever connection fd now refers to, when the
\* handler writes; -1 when the fd has been closed meanwhile.
WriteReply(w, writes) ==
    /\ wpc[w] = "write"
    /\ LET c == fdConn[cur[w]]
       IN  outbox' = IF c = NoConn \/ ~writes THEN outbox
                     ELSE [outbox EXCEPT ![c] =
                             Append(@, [kind |-> ReplyKind(buf[w].req), for |-> buf[w].from])]
    /\ wpc' = [wpc EXCEPT ![w] = NextEvent(w, evs[w])]
    /\ cur' = [cur EXCEPT ![w] = NoConn]
    /\ buf' = [buf EXCEPT ![w] = NoConn]
    /\ UNCHANGED <<srv, stop, backlog, fdConn, conn, inbox, cst, evs>>

\* A _bm_respond that recognises SET only and returns -1 for GET.
RespondSetOnly(w) == WriteReply(w, buf[w].req = "SET")

\* _bm_respond: the request holds SET or GET, so a handler always writes.
Respond(w) == WriteReply(w, TRUE)

\* The loop head sees the stop flag; bm_target_dereg does nothing.
WorkerExit(w) ==
    /\ wpc[w] = "idle"
    /\ stop
    /\ wpc' = [wpc EXCEPT ![w] = "done"]
    /\ UNCHANGED <<srv, stop, backlog, fdConn, cvars, evs, cur, buf>>

Worker(w) ==
    EpollWait(w) \/ EpollReturn(w) \/ EpollTimeout(w) \/ Accept(w) \/ ReadRequest(w) \/ ReadFails(w)
    \/ Respond(w) \/ WorkerExit(w)

-----------------------------------------------------------------------------
(* A client: main of client.c and communicate.                             *)

\* redisConnect succeeds once the server listens (before, the loop sleeps
\* and retries, which changes nothing); the kernel queues the connection.
Connect(c) ==
    /\ cst[c] = "connecting"
    /\ srv = "up"
    /\ backlog' = backlog \cup {c}
    /\ cst' = [cst EXCEPT ![c] = "sendSet"]
    /\ UNCHANGED <<srv, stop, fdConn, conn, inbox, outbox, wvars>>

\* redisCommand writes "SET foo bar" or "GET foo" and blocks for a reply.
\* The write succeeds even when the server has closed the connection: the
\* failure shows only in the read that follows.
SendRequest(c) ==
    /\ cst[c] \in {"sendSet", "sendGet"}
    /\ inbox' = [inbox EXCEPT ![c] = IF cst[c] = "sendSet" THEN "SET" ELSE "GET"]
    /\ cst' = [cst EXCEPT ![c] = IF @ = "sendSet" THEN "awaitSet" ELSE "awaitGet"]
    /\ UNCHANGED <<srv, stop, backlog, fdConn, conn, outbox, wvars>>

\* A reply arrives; process() prints it whatever it is and communicate
\* returns true; the loop goes on with the other command.
ReceiveReply(c) ==
    /\ cst[c] \in {"awaitSet", "awaitGet"}
    /\ outbox[c] # <<>>
    /\ outbox' = [outbox EXCEPT ![c] = Tail(@)]
    /\ cst' = [cst EXCEPT ![c] = IF @ = "awaitSet" THEN "sendGet" ELSE "sendSet"]
    /\ UNCHANGED <<srv, stop, backlog, fdConn, conn, inbox, wvars>>

\* The results combined with |= instead of &=: a failed command does not
\* end the loop, which goes on with the next command.
ConnectionLostKeepLooping(c) ==
    /\ cst[c] \in {"awaitSet", "awaitGet"}
    /\ conn[c] = "closed"
    /\ cst' = [cst EXCEPT ![c] = IF @ = "awaitSet" THEN "sendGet" ELSE "sendSet"]
    /\ UNCHANGED <<srv, stop, backlog, fdConn, conn, inbox, outbox, wvars>>

\* The server closed the connection: the read gets end of file, or the
\* reset, which may come before replies still buffered are read;
\* redisCommand returns NULL, success becomes false (the GET of the same
\* pass fails at once on the errored context), the loop ends and redisFree
\* closes the socket.
ConnectionLost(c) ==
    /\ cst[c] \in {"awaitSet", "awaitGet"}
    /\ conn[c] = "closed"
    /\ cst' = [cst EXCEPT ![c] = "exited"]
    /\ UNCHANGED <<srv, stop, backlog, fdConn, conn, inbox, outbox, wvars>>

Client(c) == Connect(c) \/ SendRequest(c) \/ ReceiveReply(c) \/ ConnectionLost(c)

Next ==
    \/ bm_target_init \/ RaiseStop \/ ProcessExit
    \/ \E w \in Workers : Worker(w)
    \/ \E c \in Clients : Client(c)

\* Runnable threads and processes are scheduled.  The launcher's sleep may
\* last any time, so RaiseStop has no fairness: the properties that need
\* the stop flag say so.
Fairness ==
    /\ WF_vars(bm_target_init) /\ WF_vars(ProcessExit)
    /\ \A w \in Workers : WF_vars(Worker(w))
    /\ \A c \in Clients : WF_vars(Client(c))

Spec == Init /\ [][Next]_vars /\ Fairness

-----------------------------------------------------------------------------
TypeOK ==
    /\ srv \in {"down", "up", "exited"}
    /\ stop \in BOOLEAN
    /\ backlog \subseteq Clients
    /\ fdConn \in [Fds -> Clients \cup {NoConn}]
    /\ conn \in [Clients -> {"none", "open", "closed"}]
    /\ inbox \in [Clients -> Requests \cup {"none"}]
    /\ \A c \in Clients : \A k \in DOMAIN outbox[c] :
          outbox[c][k] \in [kind : {"+OK", "$2 HI"}, for : Clients]
    /\ cst \in [Clients -> {"connecting", "sendSet", "awaitSet", "sendGet", "awaitGet", "exited"}]
    /\ wpc \in [Workers -> {"idle", "wait", "events", "write", "done"}]
    /\ evs \in [Workers -> SUBSET (Fds \cup {Listen})]

\* Every reply waiting on a client's connection answers a request that
\* client sent: a worker's write (_bm_respond) never lands on another
\* client's connection, even when the descriptor it read from was closed
\* and reused by accept in between.
ReplyMatchesRequest ==
    \A c \in Clients : \A k \in DOMAIN outbox[c] : outbox[c][k].for = c

\* Every request a client sends is answered, however long the run lasts
\* before the stop flag.
RequestAnswered ==
    \A c \in Clients :
        cst[c] \in {"awaitSet", "awaitGet"} ~> (cst[c] \in {"sendSet", "sendGet"} \/ stop)

\* After the stop flag every client that got connected leaves its loop:
\* the process exit closes its connection and the pending command fails.
\* A client still retrying redisConnect then retries for ever.
ClientsTerminate ==
    stop ~> \A c \in Clients : cst[c] \in {"connecting", "exited"}

\* After the stop flag every worker leaves its loop: the epoll_wait
\* timeout returns a worker that has no ready events to its loop head.
WorkersStop ==
    stop ~> \A w \in Workers : wpc[w] = "done"
=============================================================================
