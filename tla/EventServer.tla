----------------------------- MODULE EventServer -----------------------------
(***************************************************************************)
(* The event-driven echo server of lesson_9/05_event_driven_server: one    *)
(* server thread with an edge-triggered epoll loop and a table of clients, *)
(* client threads that send a request and wait for its echo, and a main    *)
(* that starts all, joins the clients and stops the server                 *)
(* (05_event_driven_server.c, 24-499).                                     *)
(*                                                                         *)
(* The network is the loopback: bytes arrive whole and in order, and the   *)
(* socket buffers have room for the short requests.  An epoll item is put  *)
(* on the ready list when something arrives for it and when EPOLL_CTL_ADD  *)
(* or MOD finds it ready; epoll_wait takes it off the list and reports     *)
(* what the socket is ready for at that moment: EPOLLIN, EPOLLOUT, and for *)
(* a connection that was reset also EPOLLERR and EPOLLHUP, here "err".     *)
(* EPOLLRDHUP is not subscribed.  Time is not modelled.                    *)
(***************************************************************************)
EXTENDS Integers, Sequences, FiniteSets

CONSTANTS NUM_CLIENTS, MAX_CLIENTS, MAX_REQUESTS_PER_CLIENT,
          FdLimit    \* descriptors left for the sockets of clients and server

ASSUME ServerAssumption == /\ NUM_CLIENTS \in Nat \ {0} /\ MAX_CLIENTS \in Nat
                           /\ MAX_REQUESTS_PER_CLIENT \in Nat /\ FdLimit \in Nat

Clients == 1 .. NUM_CLIENTS
Slots == 0 .. MAX_CLIENTS - 1
Fds == 1 .. FdLimit
Listener == 0      \* server_fd
None == 0          \* no descriptor, no client

VARIABLES faults,      \* whether calls may fail and signals come, in this run
          mpc, next,   \* main; the client it starts next
          running,     \* the flag of the server's loops
          spc,         \* the server thread
          clients,     \* clients[]: whose Client is in the slot
          wbuf,        \* the Client's write_buffer, empty when write_size is 0
          sfd,         \* the server's socket of a connection
          interest,    \* the events each connection is registered for
          ready,       \* descriptors on epoll's ready list
          batch,       \* events[] not handled yet
          rearm,       \* the client whose write is complete, before its MOD
          backlog,     \* connections not accepted yet
          up, down,    \* bytes on the way to the server and to the client
          shut,        \* connections the server's side has closed
          fin,         \* connections the client's side has closed
          cpc, cfd,    \* each client thread and its socket
          request,     \* its loop counter
          freedUse,    \* the Clients used after close_client had freed them
          missed       \* the last accept loop was ended by an error of accept

main == <<faults, mpc, next>>
epoll == <<interest, ready, batch>>
table == <<clients, wbuf, sfd, rearm, freedUse>>
server == <<spc, missed, table>>
wire == <<backlog, up, down, shut, fin>>
client == <<cpc, cfd, request>>
vars == <<main, running, epoll, server, wire, client>>

Masks == SUBSET {"in", "out", "err"}

TypeOK == /\ faults \in BOOLEAN
          /\ mpc \in {"spawn", "join", "stop", "exited", "crashed"}
          /\ next \in 1 .. NUM_CLIENTS + 1
          /\ running \in BOOLEAN /\ missed \in BOOLEAN /\ freedUse \subseteq Clients
          /\ spc \in {"setup", "loop", "wait", "events", "accept", "cleanup", "done"}
          /\ clients \in [Slots -> Clients \cup {None}]
          /\ sfd \in [Clients -> Fds \cup {None}] /\ cfd \in [Clients -> Fds \cup {None}]
          /\ interest \in [Clients -> Masks]
          /\ ready \subseteq Fds \cup {Listener}
          /\ batch \subseteq [fd : Fds \cup {Listener}, mask : Masks \ {{}}]
          /\ rearm \in Clients \cup {None}
          /\ backlog \in Seq(Clients)
          /\ \A c \in Clients : /\ up[c] \in Seq(0 .. MAX_REQUESTS_PER_CLIENT)
                                /\ down[c] \in Seq(0 .. MAX_REQUESTS_PER_CLIENT)
                                /\ wbuf[c] \in Seq(0 .. MAX_REQUESTS_PER_CLIENT)
          /\ shut \subseteq Clients /\ fin \subseteq Clients
          /\ cpc \in [Clients -> {"unborn", "failed", "start", "send", "recv", "close", "done",
                                  "giveUp", "gone"}]
          /\ request \in [Clients -> 0 .. MAX_REQUESTS_PER_CLIENT]

Init == /\ faults \in BOOLEAN
        /\ mpc = "spawn" /\ next = 1 /\ running = TRUE
        /\ spc = "setup" /\ freedUse = {} /\ missed = FALSE /\ rearm = None
        /\ clients = [i \in Slots |-> None]
        /\ sfd = [c \in Clients |-> None] /\ cfd = [c \in Clients |-> None]
        /\ interest = [c \in Clients |-> {}] /\ ready = {} /\ batch = {}
        /\ wbuf = [c \in Clients |-> <<>>]
        /\ up = [c \in Clients |-> <<>>] /\ down = [c \in Clients |-> <<>>]
        /\ backlog = <<>> /\ shut = {} /\ fin = {}
        /\ cpc = [c \in Clients |-> "unborn"] /\ request = [c \in Clients |-> 0]

Live == mpc \notin {"exited", "crashed"}
FreeFds == {fd \in Fds : \A c \in Clients : sfd[c] # fd /\ cfd[c] # fd}
Lowest(S) == CHOOSE x \in S : \A y \in S : x <= y
FdOf(c) == IF sfd[c] = None THEN {} ELSE {sfd[c]}
\* The client left while its recv had not returned the reply: its side closed
\* the connection ("giveUp", "gone"), or is about to.
GaveUp(c) == cpc[c] \in {"giveUp", "gone"}
\* The connection was reset: the client closed it before it read the reply, or
\* the reply came after the client had closed it.
Reset(c) == c \in fin /\ down[c] # <<>>
\* What the socket of c is ready for, among the events in mask; a reset is
\* reported whatever the mask.
Poll(c, mask) == {e \in mask : e = "out" \/ up[c] # <<>> \/ c \in fin}
                   \cup (IF Reset(c) THEN {"err"} ELSE {})
Ended(c) == cpc[c] \in {"done", "gone", "failed"}
-----------------------------------------------------------------------------
(* Main. *)

\* A client thread is started, or pthread_create fails and main goes on.
Spawn == /\ mpc = "spawn" /\ next \in Clients
         /\ \E p \in {"start"} \cup (IF faults THEN {"failed"} ELSE {}) :
              cpc' = [cpc EXCEPT ![next] = p]
         /\ next' = next + 1
         /\ mpc' = IF next = NUM_CLIENTS THEN "join" ELSE "spawn"
         /\ UNCHANGED <<faults, running, epoll, server, wire, cfd, request>>

\* Mutant: running is not cleared after the clients have ended.
JoinClientsOnly == /\ mpc = "join" /\ \A c \in Clients : Ended(c)
                   /\ mpc' = "stop"
                   /\ UNCHANGED <<faults, next, running, epoll, server, wire, client>>

\* All clients have ended and main clears running.  Joining a thread that was
\* never created is undefined: it may return or crash.
JoinClients == /\ mpc = "join" /\ \A c \in Clients : Ended(c)
               /\ mpc' = "stop" /\ running' = FALSE
               /\ UNCHANGED <<faults, next, epoll, server, wire, client>>

JoinGarbage == /\ mpc = "join" /\ \E c \in Clients : cpc[c] = "failed"
               /\ mpc' = "crashed"
               /\ UNCHANGED <<faults, next, running, epoll, server, wire, client>>

JoinServer == /\ mpc = "stop" /\ spc = "done"
              /\ mpc' = "exited"
              /\ UNCHANGED <<faults, next, running, epoll, server, wire, client>>

\* signal_handler, on SIGINT or SIGTERM.
SignalHandler == /\ Live /\ faults /\ running
                 /\ running' = FALSE
                 /\ UNCHANGED <<main, epoll, server, wire, client>>
-----------------------------------------------------------------------------
(* Client threads. *)

\* socket and connect; either may fail, and the thread ends.
Connect(c) == /\ cpc[c] = "start"
              /\ \/ /\ FreeFds # {} /\ spc \notin {"setup", "done"}
                    /\ cfd' = [cfd EXCEPT ![c] = Lowest(FreeFds)]
                    /\ backlog' = Append(backlog, c)
                    /\ ready' = ready \cup {Listener}
                    /\ cpc' = [cpc EXCEPT ![c] = "send"]
                 \/ /\ faults \/ FreeFds = {} \/ spc \in {"setup", "done"}
                    /\ cpc' = [cpc EXCEPT ![c] = "done"]
                    /\ UNCHANGED <<cfd, backlog, ready>>
              /\ UNCHANGED <<main, running, interest, batch, server, up, down, shut, fin, request>>

\* The next request is sent; after the last one, if the connection was
\* closed, or if send fails, the thread leaves its loop.
Send(c) == /\ cpc[c] = "send"
           /\ \/ /\ request[c] < MAX_REQUESTS_PER_CLIENT /\ c \notin shut
                 /\ up' = [up EXCEPT ![c] = Append(@, request[c])]
                 /\ ready' = ready \cup FdOf(c)
                 /\ cpc' = [cpc EXCEPT ![c] = "recv"]
              \/ /\ faults \/ request[c] = MAX_REQUESTS_PER_CLIENT \/ c \in shut
                 /\ cpc' = [cpc EXCEPT ![c] = "close"]
                 /\ UNCHANGED <<up, ready>>
           /\ UNCHANGED <<main, running, interest, batch, server, backlog, down, shut, fin,
                          cfd, request>>

Recv(c) == /\ cpc[c] = "recv"
           /\ \/ /\ down[c] # <<>>
                 /\ down' = [down EXCEPT ![c] = <<>>]
                 /\ request' = [request EXCEPT ![c] = @ + 1]
                 /\ cpc' = [cpc EXCEPT ![c] = "send"]
              \/ /\ down[c] = <<>> /\ c \in shut
                 /\ cpc' = [cpc EXCEPT ![c] = "close"]
                 /\ UNCHANGED <<down, request>>
           /\ UNCHANGED <<main, running, epoll, server, backlog, up, shut, fin, cfd>>

\* recv fails while the reply is still to come or unread.
RecvFails(c) == /\ Live /\ faults /\ cpc[c] = "recv"
                /\ cpc' = [cpc EXCEPT ![c] = "giveUp"]
                /\ UNCHANGED <<main, running, epoll, server, wire, cfd, request>>

Close(c) == /\ cpc[c] \in {"close", "giveUp"}
            /\ cpc' = [cpc EXCEPT ![c] = IF @ = "close" THEN "done" ELSE "gone"]
            /\ cfd' = [cfd EXCEPT ![c] = None]
            /\ fin' = fin \cup {c}
            /\ ready' = ready \cup FdOf(c)
            /\ UNCHANGED <<main, running, interest, batch, server, backlog, up, down, shut,
                           request>>

ClientStep(c) == Live /\ (Connect(c) \/ Send(c) \/ Recv(c) \/ Close(c))
-----------------------------------------------------------------------------
(* The server thread. *)

\* socket, bind, listen and epoll, or a failure that ends the thread.
Setup == /\ spc = "setup"
         /\ spc' \in {"loop"} \cup (IF faults THEN {"done"} ELSE {})
         /\ UNCHANGED <<main, running, epoll, missed, table, wire, client>>

TestRunning == /\ spc = "loop"
               /\ spc' = IF running THEN "wait" ELSE "cleanup"
               /\ UNCHANGED <<main, running, epoll, missed, table, wire, client>>

\* epoll_wait returns what is ready, or nothing after a second or a signal.
EpollWait ==
    LET reported == {[fd |-> sfd[c], mask |-> Poll(c, interest[c])] :
                         c \in {d \in Clients : sfd[d] \in ready /\ sfd[d] # None}}
                    \cup {[fd |-> l, mask |-> {"in"}] :
                         l \in {x \in ready : x = Listener /\ backlog # <<>>}}
    IN /\ spc = "wait"
       /\ batch' = {e \in reported : e.mask # {}}
       /\ ready' = {}
       /\ spc' = "events"
       /\ UNCHANGED <<main, running, interest, missed, table, wire, client>>

\* Any other error of epoll_wait leaves the loop.
EpollFails == /\ spc = "wait" /\ faults
              /\ spc' = "cleanup"
              /\ UNCHANGED <<main, running, epoll, missed, table, wire, client>>

\* The next event of the batch: connections to accept, or a client's.
StartAccept == /\ spc = "events" /\ rearm = None
               /\ \E e \in batch : e.fd = Listener /\ batch' = batch \ {e}
               /\ spc' = "accept"
               /\ UNCHANGED <<main, running, interest, ready, missed, table, wire, client>>

EndOfBatch == /\ spc = "events" /\ rearm = None /\ batch = {}
              /\ spc' = "loop"
              /\ UNCHANGED <<main, running, epoll, missed, table, wire, client>>

\* Mutant: the slot is not cleared, so that the table keeps a freed Client.
CloseKeepsSlot(c) ==
    /\ sfd' = [sfd EXCEPT ![c] = None]
    /\ interest' = [interest EXCEPT ![c] = {}]
    /\ ready' = ready \ {sfd[c]}
    /\ shut' = shut \cup {c}
    /\ wbuf' = [wbuf EXCEPT ![c] = <<>>]
    /\ UNCHANGED clients

\* close_client: the socket leaves epoll and is closed, the first slot whose
\* Client has that socket is cleared.
CloseClient(c) ==
    LET mine == {i \in Slots : clients[i] # None /\ sfd[clients[i]] = sfd[c]}
    IN /\ clients' = IF mine = {} THEN clients ELSE [clients EXCEPT ![Lowest(mine)] = None]
       /\ sfd' = [sfd EXCEPT ![c] = None]
       /\ interest' = [interest EXCEPT ![c] = {}]
       /\ ready' = ready \ {sfd[c]}
       /\ shut' = shut \cup {c}
       /\ wbuf' = [wbuf EXCEPT ![c] = <<>>]

\* One turn of the accept loop that takes a connection: it enters the table
\* and epoll, or a call fails and it is closed at once.
AcceptOne ==
    LET c == Head(backlog)
        fd == Lowest(FreeFds)
        free == {i \in Slots : clients[i] = None}
    IN /\ spc = "accept" /\ running /\ backlog # <<>> /\ FreeFds # {}
       /\ backlog' = Tail(backlog)
       /\ \/ /\ free # {}
             /\ clients' = [clients EXCEPT ![Lowest(free)] = c]
             /\ sfd' = [sfd EXCEPT ![c] = fd]
             /\ interest' = [interest EXCEPT ![c] = {"in"}]
             /\ ready' = IF Poll(c, {"in"}) = {} THEN ready ELSE ready \cup {fd}
             /\ UNCHANGED shut
          \/ /\ faults \/ free = {}
             /\ shut' = shut \cup {c}
             /\ UNCHANGED <<clients, sfd, interest, ready>>
       /\ UNCHANGED <<main, running, batch, spc, missed, wbuf, rearm, freedUse, up, down, fin,
                      client>>

\* Mutant: one connection per event.
AcceptOnlyOne == /\ spc = "accept"
                 /\ spc' = "events"
                 /\ UNCHANGED <<main, running, epoll, missed, table, wire, client>>

\* The loop ends: no connection is left, or the server is to stop.
AcceptEnds == /\ spc = "accept"
              /\ ~running \/ backlog = <<>>
              /\ spc' = "events"
              /\ missed' = (missed /\ backlog # <<>>)
              /\ UNCHANGED <<main, running, epoll, table, wire, client>>

\* The loop ends with an error of accept: the connections that are left stay
\* in the backlog, and epoll does not report them again.
AcceptFails == /\ spc = "accept" /\ running /\ backlog # <<>>
               /\ faults \/ FreeFds = {}
               /\ spc' = "events"
               /\ missed' = TRUE
               /\ UNCHANGED <<main, running, epoll, table, wire, client>>

\* The search of the table for the Client of a descriptor.
Lookup(fd) == LET found == {i \in Slots : clients[i] # None /\ sfd[clients[i]] = fd}
              IN IF found = {} THEN None ELSE clients[Lowest(found)]

\* close_client by a handler, while the event may call for more: every branch
\* that follows uses the freed Client and comes to free it again, which aborts.
Release(c, rest) ==
    /\ CloseClient(c)
    /\ IF rest = {} THEN UNCHANGED <<mpc, freedUse>>
                    ELSE mpc' = "crashed" /\ freedUse' = freedUse \cup {c}

\* handle_read_event: at the end of the stream or after an error the Client
\* goes, otherwise what was read is to be written back and the socket is
\* registered for writing.
HandleReadEvent(c, rest) ==
    \/ /\ up[c] = <<>> \/ faults     \* read or epoll_ctl fails
       /\ Release(c, rest)
       /\ up' = [up EXCEPT ![c] = <<>>]
    \/ /\ up[c] # <<>>
       /\ wbuf' = [wbuf EXCEPT ![c] = up[c]]
       /\ up' = [up EXCEPT ![c] = <<>>]
       /\ interest' = [interest EXCEPT ![c] = {"in", "out"}]
       /\ ready' = ready \cup {sfd[c]}
       /\ UNCHANGED <<mpc, clients, sfd, shut, freedUse>>

\* Mutant: write_size is not reset after the write.
WriteKeepsSize(c, rest) ==
    IF wbuf[c] = <<>> THEN UNCHANGED <<mpc, interest, ready, table, shut, down>>
    ELSE /\ down' = [down EXCEPT ![c] = @ \o wbuf[c]]
         /\ rearm' = c
         /\ UNCHANGED <<mpc, interest, ready, clients, wbuf, sfd, shut, freedUse>>

\* handle_write_event: what is in the buffer is written, or write fails and
\* the Client goes; the MOD that drops EPOLLOUT is a step of its own, since
\* the client may react before it.
HandleWriteEvent(c, rest) ==
    IF wbuf[c] = <<>> THEN UNCHANGED <<mpc, interest, ready, table, shut, down>>
    ELSE \/ /\ down' = [down EXCEPT ![c] = @ \o wbuf[c]]
            /\ wbuf' = [wbuf EXCEPT ![c] = <<>>]
            /\ rearm' = c
            /\ UNCHANGED <<mpc, interest, ready, clients, sfd, shut, freedUse>>
         \/ /\ faults
            /\ Release(c, rest)
            /\ UNCHANGED <<down, rearm>>

\* An event of a client: EPOLLIN first, then EPOLLOUT.  The branch for an
\* unknown descriptor is not reached (TableMatchesSockets), and the one for
\* EPOLLERR and EPOLLHUP only when the read before it has freed the Client:
\* they come with EPOLLIN, and nothing is left to read (ErrorsComeLast).
ClientEvent ==
    \E e \in batch :
      LET c == Lookup(e.fd)
          rest == e.mask \ {"in"}
      IN /\ spc = "events" /\ rearm = None /\ e.fd # Listener /\ c # None
         /\ \/ /\ "in" \in e.mask
               /\ HandleReadEvent(c, rest)
               /\ batch' = (batch \ {e})
                             \cup {[fd |-> e.fd, mask |-> r] : r \in {rest} \ {{}}}
               /\ UNCHANGED <<down, rearm>>
            \/ /\ "in" \notin e.mask
               /\ HandleWriteEvent(c, rest \ {"out"})
               /\ batch' = batch \ {e}
               /\ UNCHANGED up
         /\ UNCHANGED <<faults, next, running, spc, missed, backlog, fin, client>>

\* Mutant: EPOLLOUT stays registered after the write.
RearmKeepsOut == /\ spc = "events" /\ rearm # None
                 /\ rearm' = None
                 /\ ready' = ready \cup {sfd[rearm]}
                 /\ UNCHANGED <<main, running, interest, batch, spc, missed, freedUse, backlog, up,
                                down, fin, client, clients, sfd, shut, wbuf>>

\* EPOLL_CTL_MOD after a complete write, or its failure.
Rearm == LET c == rearm
         IN /\ spc = "events" /\ rearm # None
            /\ rearm' = None
            /\ \/ /\ interest' = [interest EXCEPT ![c] = {"in"}]
                  /\ ready' = IF Poll(c, {"in"}) = {} THEN ready ELSE ready \cup {sfd[c]}
                  /\ UNCHANGED <<clients, sfd, shut, wbuf>>
               \/ faults /\ CloseClient(c)
            /\ UNCHANGED <<main, running, batch, spc, missed, freedUse, backlog, up, down, fin,
                           client>>

\* Every Client of the table is closed, then the listening socket.
Cleanup == /\ spc = "cleanup"
           /\ spc' = "done"
           /\ shut' = shut \cup {c \in Clients : (\E i \in Slots : clients[i] = c)
                                                   \/ \E k \in 1 .. Len(backlog) : backlog[k] = c}
           /\ sfd' = [c \in Clients |-> IF \E i \in Slots : clients[i] = c THEN None ELSE sfd[c]]
           /\ clients' = [i \in Slots |-> None]
           /\ interest' = [c \in Clients |-> {}] /\ ready' = {} /\ backlog' = <<>>
           /\ wbuf' = [c \in Clients |-> <<>>]
           /\ UNCHANGED <<main, running, batch, missed, rearm, freedUse, up, down, fin, client>>

ServerStep == /\ Live
              /\ \/ Setup \/ TestRunning \/ EpollWait \/ EpollFails \/ StartAccept \/ EndOfBatch
                 \/ AcceptOne \/ AcceptEnds \/ AcceptFails \/ ClientEvent \/ Rearm \/ Cleanup
MainStep == Spawn \/ JoinClients \/ JoinGarbage \/ JoinServer

Next == MainStep \/ SignalHandler \/ ServerStep
          \/ \E c \in Clients : ClientStep(c) \/ RecvFails(c)

\* Every thread is scheduled.  Signals need not come, and recv, which blocks,
\* need not fail.
Spec == /\ Init /\ [][Next]_vars
        /\ WF_vars(MainStep) /\ WF_vars(ServerStep)
        /\ \A c \in Clients : WF_vars(ClientStep(c))
-----------------------------------------------------------------------------
\* The table holds exactly the connections whose socket the server has open,
\* each once: none is leaked and none is left for the next owner of its number.
\* An event that is still to be handled is for one of them, so that the branch
\* for an unknown descriptor, which closes it, is never taken.
TableMatchesSockets ==
    /\ \A c \in Clients : Cardinality({i \in Slots : clients[i] = c})
                            = IF sfd[c] = None THEN 0 ELSE 1
    /\ \A c, d \in Clients : sfd[c] = sfd[d] /\ sfd[c] # None => c = d
    /\ Live => \A e \in batch : e.fd # Listener => \E c \in Clients : sfd[c] = e.fd

\* No handler works on a Client that an earlier branch for the same event has
\* closed and freed, as long as clients wait for their replies.  (One that
\* leaves before does make the server free its Client twice.)
NoUseAfterFree == \A c \in freedUse : GaveUp(c)

\* The echo: from a client's send to the end of its recv its request is in
\* exactly one place (on the way in, in write_buffer, on the way back), so that
\* no reply is overwritten, doubled or left over from an earlier turn.
EchoIsRequest == \A c \in Clients \ shut :
                   up[c] \o wbuf[c] \o down[c]
                     = IF cpc[c] = "recv" \/ GaveUp(c) THEN <<request[c]>> ELSE <<>>

\* The accept loop takes all pending connections: when the server waits, a
\* connection in the backlog is still to be reported, unless the last accept
\* loop was ended by an error of accept, which loses the edge.
NoStuckBacklog == spc = "wait" /\ running /\ backlog # <<>> => Listener \in ready \/ missed

\* Without failures and with room for all, no edge is lost: every client that
\* connects gets the replies to all its requests.
ClientsServed ==
    \A c \in Clients :
      (/\ cpc[c] = "send" /\ ~faults
       /\ NUM_CLIENTS <= MAX_CLIENTS /\ 2 * NUM_CLIENTS <= FdLimit)
        ~> cpc[c] = "done" /\ request[c] = MAX_REQUESTS_PER_CLIENT

\* Whatever else fails and whenever a signal comes, the program ends, and a
\* server thread that ended has closed every socket it accepted.  The one
\* exception is an error of accept with nobody to connect after it: the
\* connections left in the backlog are not accepted, and main waits for ever.
ProgramEnds ==
    <>[](\/ ~Live /\ (mpc = "exited" => \A c \in Clients : sfd[c] = None)
         \/ missed /\ running /\ backlog # <<>>)
=============================================================================
