-------------------------- MODULE EventServerProofs --------------------------
(***************************************************************************)
(* What EventServer guarantees for every number of clients, slots,         *)
(* requests and descriptors, whatever fails: the table of clients agrees   *)
(* with the open sockets, no handler uses the freed Client of a client     *)
(* that waits for its reply, every reply is the echo of the request, and   *)
(* no connection is forgotten except by a failing accept.                  *)
(***************************************************************************)
EXTENDS EventServer, FiniteSetTheorems, WellFoundedInduction, TLAPS

\* A connection that was made and not accepted yet.
Waiting(c) == \E k \in 1 .. Len(backlog) : backlog[k] = c

\* The types the argument needs.
ServerShape ==
    /\ next \in Nat
    /\ clients \in [Slots -> Clients \cup {None}]
    /\ sfd \in [Clients -> Fds \cup {None}] /\ cfd \in [Clients -> Fds \cup {None}]
    /\ interest \in [Clients -> Masks]
    /\ wbuf \in [Clients -> Seq(Nat)] /\ up \in [Clients -> Seq(Nat)]
    /\ down \in [Clients -> Seq(Nat)]
    /\ backlog \in Seq(Clients) /\ rearm \in Clients \cup {None}
    /\ shut \subseteq Clients /\ fin \subseteq Clients
    /\ DOMAIN cpc = Clients /\ request \in [Clients -> Nat]

\* A connection goes from its client to the backlog, once, from there to the
\* table or away, and never comes back; only a client that is done is gone.
Lifecycle ==
    /\ \A c \in Clients : c >= next => cpc[c] = "unborn"
    /\ \A c \in Clients : cpc[c] \in {"unborn", "failed", "start"} =>
                            sfd[c] = None /\ c \notin shut /\ ~Waiting(c)
    /\ \A c \in fin : cpc[c] \in {"done", "gone"}
    /\ \A c \in Clients : Waiting(c) => sfd[c] = None /\ c \notin shut
    /\ \A j, k \in 1 .. Len(backlog) : backlog[j] = backlog[k] => j = k
    /\ \A c \in Clients : sfd[c] # None => c \notin shut

\* The table in terms of its slots.
TableInv ==
    /\ \A i \in Slots : clients[i] # None => sfd[clients[i]] # None
    /\ \A i, j \in Slots : clients[i] = clients[j] /\ clients[i] # None => i = j
    /\ \A c \in Clients : sfd[c] # None => \E i \in Slots : clients[i] = c
    /\ \A c, d \in Clients : sfd[c] = sfd[d] /\ sfd[c] # None => c = d

\* EPOLLOUT is registered only while a reply waits to be written, so that only
\* the event of a client that gave up can have both flags; a reset is reported
\* together with EPOLLIN, when nothing is left to read.
EventInv ==
    /\ rearm # None => spc = "events" /\ sfd[rearm] # None
    /\ \A c \in Clients : "out" \in interest[c] => wbuf[c] # <<>> \/ rearm = c
    /\ \A c \in Clients : wbuf[c] # <<>> => sfd[c] # None
    /\ \A c \in Clients : "err" \notin interest[c]
    /\ \A c \in Clients : sfd[c] # None => "in" \in interest[c]
    /\ \A e \in batch, c \in Clients : sfd[c] = e.fd /\ e.fd # Listener =>
          /\ e.mask \subseteq {"in", "out", "err"} /\ e.mask # {}
          /\ {"in", "out"} \subseteq e.mask => GaveUp(c)
          /\ "err" \in e.mask => "in" \in e.mask /\ c \in fin /\ GaveUp(c) /\ up[c] = <<>>
    /\ freedUse \subseteq Clients /\ \A c \in freedUse : GaveUp(c)

\* Every event that is still to be handled is for the listener or for a
\* connection of the table, one event for each, and not for the one whose
\* write was just completed.
BatchInv ==
    /\ spc \notin {"events", "accept"} => batch = {}
    /\ Live => \A e \in batch : e.fd # Listener => \E c \in Clients : sfd[c] = e.fd
    /\ Live => \A e, f \in batch : e.fd = f.fd => e = f
    /\ Live /\ rearm # None => \A e \in batch : e.fd # sfd[rearm]

\* The request of a client that waits, or gave up waiting, is in one of three
\* places.
Echo(c) == IF cpc[c] = "recv" \/ GaveUp(c)
             THEN \/ up[c] = <<request[c]>> /\ wbuf[c] = <<>> /\ down[c] = <<>>
                  \/ up[c] = <<>> /\ wbuf[c] = <<request[c]>> /\ down[c] = <<>>
                  \/ up[c] = <<>> /\ wbuf[c] = <<>> /\ down[c] = <<request[c]>>
             ELSE up[c] = <<>> /\ wbuf[c] = <<>> /\ down[c] = <<>>

EchoInv == \A c \in Clients \ shut : Echo(c)

ServerInv == ServerShape /\ Lifecycle /\ TableInv /\ EventInv /\ BatchInv /\ EchoInv

\* What the backlog needs: it is reported, about to be, or being emptied.
ListenInv ==
    /\ spc \in {"setup", "loop", "wait"} => batch = {}
    /\ spc = "setup" => backlog = <<>>
    /\ running /\ backlog # <<>> => \/ Listener \in ready
                                    \/ [fd |-> Listener, mask |-> {"in"}] \in batch
                                    \/ spc = "accept" \/ missed
-----------------------------------------------------------------------------
\* Clients, slots and descriptors are numbers, and 0 is none of them.
LEMMA Names == /\ Clients \subseteq Nat /\ Slots \subseteq Nat /\ Fds \subseteq Nat
               /\ None \notin Clients /\ None \notin Fds /\ Listener = None
  BY ServerAssumption DEF Clients, Slots, Fds, None, Listener

\* The search of the code for the lowest free slot or descriptor finds one,
\* if there is one.
LEMMA LowestIn ==
    ASSUME NEW S, S \subseteq Nat, S # {}
    PROVE  Lowest(S) \in S
<1> DEFINE R == OpToRel(<, Nat)
<1>1. IsWellFoundedOn(R, Nat)
  BY NatLessThanWellFounded
<1>2. PICK x \in S : \A y \in S : ~ (<<y, x>> \in R)
  BY <1>1, WFMin
<1>3. \A y \in S : ~(y < x)
  BY <1>2 DEF OpToRel
<1>4. \A y \in S : x <= y
  BY <1>3
<1>. QED
  BY <1>4 DEF Lowest

\* A connection at the end of the backlog.
LEMMA AppendWaiting ==
    ASSUME backlog \in Seq(Clients), NEW c \in Clients, backlog' = Append(backlog, c),
           ~Waiting(c),
           \A j, k \in 1 .. Len(backlog) : backlog[j] = backlog[k] => j = k
    PROVE  /\ backlog' \in Seq(Clients)
           /\ \A d : Waiting(d)' <=> Waiting(d) \/ d = c
           /\ \A j, k \in 1 .. Len(backlog') : backlog'[j] = backlog'[k] => j = k
<1> DEFINE n == Len(backlog)
<1>1. n \in Nat /\ Len(backlog') = n + 1 /\ backlog'[n + 1] = c /\ backlog' \in Seq(Clients)
  OBVIOUS
<1>2. \A k \in 1 .. n : backlog'[k] = backlog[k] /\ backlog[k] # c
  BY DEF Waiting
<1>3. \A k \in 1 .. n + 1 : k \in 1 .. n \/ k = n + 1
  BY <1>1
<1>4. 1 .. n \subseteq 1 .. n + 1 /\ n + 1 \in 1 .. n + 1
  BY <1>1
<1>5. \A d : Waiting(d)' <=> Waiting(d) \/ d = c
  BY <1>1, <1>2, <1>3, <1>4 DEF Waiting
<1>6. \A j, k \in 1 .. n + 1 : backlog'[j] = backlog'[k] => j = k
  BY <1>1, <1>2, <1>3
<1>. QED
  BY <1>1, <1>5, <1>6

\* The connection at the head of the backlog leaves it.
LEMMA TailWaiting ==
    ASSUME backlog \in Seq(Clients), backlog # <<>>, backlog' = Tail(backlog),
           \A j, k \in 1 .. Len(backlog) : backlog[j] = backlog[k] => j = k
    PROVE  /\ backlog' \in Seq(Clients)
           /\ Head(backlog) \in Clients /\ Waiting(Head(backlog))
           /\ \A d : Waiting(d)' <=> Waiting(d) /\ d # Head(backlog)
           /\ \A j, k \in 1 .. Len(backlog') : backlog'[j] = backlog'[k] => j = k
<1> DEFINE n == Len(backlog)
<1>1. n \in Nat /\ n # 0 /\ Len(backlog') = n - 1 /\ backlog' \in Seq(Clients)
  OBVIOUS
<1>2. 1 \in 1 .. n /\ Head(backlog) = backlog[1] /\ backlog[1] \in Clients
  BY <1>1
<1>3. \A k \in 1 .. n - 1 : backlog'[k] = backlog[k + 1] /\ k + 1 \in 1 .. n
  BY <1>1
<1>4. \A d : Waiting(d) /\ d # Head(backlog) => Waiting(d)'
  <2>1. ASSUME NEW d, NEW k \in 1 .. n, backlog[k] = d, d # Head(backlog)
        PROVE  Waiting(d)'
    <3>1. k - 1 \in 1 .. n - 1 /\ (k - 1) + 1 = k
      BY <1>1, <1>2, <2>1
    <3>2. backlog'[k - 1] = d
      BY <1>3, <2>1, <3>1
    <3>. QED
      BY <1>1, <3>1, <3>2 DEF Waiting
  <2>. QED
    BY <2>1 DEF Waiting
<1>5. \A d : Waiting(d)' => Waiting(d) /\ d # Head(backlog)
  <2>1. ASSUME NEW d, NEW k \in 1 .. n - 1, backlog'[k] = d
        PROVE  Waiting(d) /\ d # Head(backlog)
    <3>1. backlog[k + 1] = d /\ k + 1 \in 1 .. n /\ k + 1 # 1
      BY <1>1, <1>3, <2>1
    <3>. QED
      BY <1>2, <3>1 DEF Waiting
  <2>. QED
    BY <1>1, <2>1 DEF Waiting
<1>6. \A j, k \in 1 .. n - 1 : backlog'[j] = backlog'[k] => j = k
  <2>1. ASSUME NEW j \in 1 .. n - 1, NEW k \in 1 .. n - 1, backlog'[j] = backlog'[k]
        PROVE  j = k
    <3>1. j + 1 = k + 1
      BY <1>3, <2>1
    <3>. QED
      BY <1>1, <3>1
  <2>. QED
    BY <2>1
<1>. QED
  BY <1>1, <1>2, <1>4, <1>5, <1>6 DEF Waiting

\* The search of the table finds the connection that has the descriptor.
LEMMA LookupFinds ==
    ASSUME ServerShape, NEW fd, Lookup(fd) # None
    PROVE  Lookup(fd) \in Clients /\ sfd[Lookup(fd)] = fd
<1> DEFINE found == {i \in Slots : clients[i] # None /\ sfd[clients[i]] = fd}
<1>1. found # {} /\ Lookup(fd) = clients[Lowest(found)]
  BY DEF Lookup
<1>2. Lowest(found) \in found
  BY <1>1, LowestIn, Names
<1>. QED
  BY <1>1, <1>2 DEF ServerShape

\* close_client clears exactly the slot of its Client.
LEMMA CloseClears ==
    ASSUME ServerShape, TableInv, NEW c \in Clients, sfd[c] # None, CloseClient(c)
    PROVE  /\ clients' \in [Slots -> Clients \cup {None}]
           /\ \A i \in Slots : clients'[i] = IF clients[i] = c THEN None ELSE clients[i]
<1> DEFINE mine == {i \in Slots : clients[i] # None /\ sfd[clients[i]] = sfd[c]}
<1>1. c # None
  BY Names
<1>2. \A i \in Slots : i \in mine <=> clients[i] = c
  BY <1>1 DEF ServerShape, TableInv
<1>3. mine # {}
  BY <1>2 DEF TableInv
<1>4. Lowest(mine) \in mine
  BY <1>3, LowestIn, Names
<1>5. clients' = [clients EXCEPT ![Lowest(mine)] = None]
  BY <1>3 DEF CloseClient
<1>6. \A i \in Slots : clients[i] = c => i = Lowest(mine)
  BY <1>1, <1>2, <1>4 DEF TableInv
<1>. QED
  BY <1>2, <1>4, <1>5, <1>6 DEF ServerShape

\* close_client, at the end of a read or after a write, keeps the invariant.
LEMMA CloseKeeps ==
    ASSUME ServerInv, NEW c \in Clients, sfd[c] # None, CloseClient(c),
           UNCHANGED <<next, cfd, backlog, down, fin, cpc, request, spc>>,
           up' = up \/ up' = [up EXCEPT ![c] = <<>>],
           rearm \in {None, c}, rearm' = None, spc = "events",
           \A e \in batch' : e \in batch \/ e.fd = sfd[c],
           Live' => Live /\ \A e \in batch' : e \in batch /\ e.fd # sfd[c],
           freedUse' \subseteq Clients, \A d \in freedUse' : GaveUp(d)
    PROVE  ServerInv'
<1> USE DEF ServerInv
<1>1. /\ clients' \in [Slots -> Clients \cup {None}]
      /\ \A i \in Slots : clients'[i] = IF clients[i] = c THEN None ELSE clients[i]
  BY CloseClears
<1>2. /\ sfd' = [sfd EXCEPT ![c] = None] /\ interest' = [interest EXCEPT ![c] = {}]
      /\ shut' = shut \cup {c} /\ wbuf' = [wbuf EXCEPT ![c] = <<>>]
  BY DEF CloseClient
<1>3. ServerShape'
  <2>1. <<>> \in Seq(Nat) /\ {} \in Masks
    BY DEF Masks
  <2>2. up' \in [Clients -> Seq(Nat)] /\ wbuf' \in [Clients -> Seq(Nat)]
    BY <1>2, <2>1 DEF ServerShape
  <2>3. interest' \in [Clients -> Masks] /\ sfd' \in [Clients -> Fds \cup {None}]
    BY <1>2, <2>1 DEF ServerShape
  <2>. QED
    BY <1>1, <1>2, <2>2, <2>3 DEF ServerShape
<1>4. \A d \in Clients : d # c => /\ sfd'[d] = sfd[d] /\ interest'[d] = interest[d]
                                  /\ wbuf'[d] = wbuf[d] /\ up'[d] = up[d]
  BY <1>2 DEF ServerShape
<1>5. sfd'[c] = None /\ interest'[c] = {} /\ wbuf'[c] = <<>>
  BY <1>2 DEF ServerShape
<1>6. Lifecycle'
  <2>1. \A d : Waiting(d)' <=> Waiting(d)
    BY DEF Waiting
  <2>2. cpc[c] \notin {"unborn", "failed", "start"} /\ ~Waiting(c)
    BY DEF Lifecycle
  <2>. QED
    BY <1>2, <1>4, <1>5, <2>1, <2>2 DEF Lifecycle
<1>7. TableInv'
  <2>1. \A i \in Slots : clients'[i] # None =>
            clients'[i] = clients[i] /\ clients[i] \in Clients /\ clients[i] # c
    BY <1>1 DEF ServerShape
  <2>2. \A i \in Slots : clients'[i] # None => sfd'[clients'[i]] # None
    BY <1>4, <2>1 DEF TableInv
  <2>3. \A i, j \in Slots : clients'[i] = clients'[j] /\ clients'[i] # None => i = j
    BY <2>1 DEF TableInv
  <2>4. \A d \in Clients : sfd'[d] # None => \E i \in Slots : clients'[i] = d
    BY <1>1, <1>4, <1>5 DEF TableInv
  <2>5. \A d, e \in Clients : sfd'[d] = sfd'[e] /\ sfd'[d] # None => d = e
    BY <1>4, <1>5 DEF TableInv
  <2>. QED
    BY <2>2, <2>3, <2>4, <2>5 DEF TableInv
<1>8. EventInv'
  <2>1. ASSUME NEW e \in batch', NEW d \in Clients, sfd'[d] = e.fd, e.fd # Listener
        PROVE  d # c /\ e \in batch /\ sfd[d] = e.fd /\ up'[d] = up[d]
    BY <1>4, <1>5, <2>1, Names DEF TableInv
  <2>2. \A e \in batch', d \in Clients : sfd'[d] = e.fd /\ e.fd # Listener =>
          /\ e.mask \subseteq {"in", "out", "err"} /\ e.mask # {}
          /\ {"in", "out"} \subseteq e.mask => GaveUp(d)
          /\ "err" \in e.mask =>
               "in" \in e.mask /\ d \in fin /\ GaveUp(d) /\ up'[d] = <<>>
    BY <2>1 DEF EventInv
  <2>3. \A d : GaveUp(d)' <=> GaveUp(d)
    BY DEF GaveUp
  <2>. QED
    BY <1>4, <1>5, <2>2, <2>3, Names DEF EventInv
<1>9. BatchInv'
  <2>1. Live' => \A e \in batch' : e.fd # Listener => \E d \in Clients : sfd'[d] = e.fd
    BY <1>4 DEF BatchInv
  <2>. QED
    BY <2>1 DEF BatchInv
<1>10. EchoInv'
  BY <1>2, <1>4 DEF EchoInv, Echo, GaveUp
<1>. QED
  BY <1>3, <1>6, <1>7, <1>8, <1>9, <1>10

\* A step that moves the server thread on, or takes an event from the batch,
\* and touches no connection.
LEMMA QuietKeeps ==
    ASSUME ServerInv,
           UNCHANGED <<next, clients, sfd, cfd, interest, wbuf, up, down, backlog, shut, fin,
                       cpc, request, rearm, freedUse>>,
           batch' \subseteq batch, rearm # None => spc' = "events", Live' => Live,
           spc' \notin {"events", "accept"} => batch' = {}
    PROVE  ServerInv'
<1> USE DEF ServerInv
<1>1. ServerShape'
  BY DEF ServerShape
<1>2. Lifecycle'
  BY DEF Lifecycle, Waiting
<1>3. TableInv'
  BY DEF TableInv
<1>4. EventInv'
  BY DEF EventInv, GaveUp
<1>5. BatchInv'
  BY DEF BatchInv
<1>6. EchoInv'
  BY DEF EchoInv, Echo, GaveUp
<1>. QED
  BY <1>1, <1>2, <1>3, <1>4, <1>5, <1>6

\* The steps of main and the signal handler.
LEMMA MainKeeps ==
    ASSUME ServerInv, MainStep \/ SignalHandler
    PROVE  ServerInv'
<1>1. CASE Spawn
  <2> USE DEF ServerInv
  <2>1. /\ UNCHANGED <<clients, sfd, cfd, interest, wbuf, up, down, backlog, shut, fin,
                       request, rearm, freedUse, batch, spc>>
        /\ next \in Clients /\ next' = next + 1
    BY <1>1 DEF Spawn, epoll, server, table, wire
  <2>2. PICK p \in {"start", "failed"} : cpc' = [cpc EXCEPT ![next] = p]
    BY <1>1 DEF Spawn
  <2>3. cpc[next] = "unborn"
    BY <2>1, Names DEF Lifecycle, ServerShape
  <2>4. DOMAIN cpc' = Clients /\ \A c \in Clients : c # next => cpc'[c] = cpc[c]
    BY <2>2 DEF ServerShape
  <2>5. cpc'[next] = p
    BY <2>1, <2>2 DEF ServerShape
  <2>6. ServerShape'
    <3>1. next' \in Nat
      BY <2>1 DEF ServerShape
    <3>2. DOMAIN cpc' = Clients
      BY <2>4
    <3>. QED
      BY <2>1, <3>1, <3>2, Zenon DEF ServerShape
  <2>7. Lifecycle'
    <3>1. \A d : Waiting(d)' <=> Waiting(d)
      BY <2>1 DEF Waiting
    <3>2. \A c \in Clients : c >= next' => c # next /\ c >= next
      BY <2>1, Names DEF ServerShape
    <3>3. fin' = fin /\ \A c \in fin : c \in Clients => cpc'[c] \in {"done", "gone"}
      BY <2>1, <2>3, <2>4 DEF Lifecycle
    <3>. QED
      BY <2>1, <2>2, <2>3, <2>4, <2>5, <3>1, <3>2, <3>3 DEF Lifecycle
  <2>8. TableInv'
    BY <2>1 DEF TableInv
  <2>9. EventInv'
    <3>1. \A c \in Clients : GaveUp(c)' <=> GaveUp(c)
      BY <2>3, <2>4, <2>5 DEF GaveUp
    <3>. QED
      BY <2>1, <3>1 DEF EventInv
  <2>10. BatchInv'
    BY <1>1, <2>1 DEF BatchInv, Spawn, Live
  <2>11. EchoInv'
    BY <2>1, <2>2, <2>3, <2>4, <2>5 DEF EchoInv, Echo, GaveUp
  <2>. QED
    BY <2>6, <2>7, <2>8, <2>9, <2>10, <2>11
<1>2. CASE JoinClients \/ JoinGarbage \/ JoinServer \/ SignalHandler
  <2>1. UNCHANGED <<next, clients, sfd, cfd, interest, wbuf, up, down, backlog, shut, fin,
                    cpc, request, rearm, freedUse, batch, spc>>
    BY <1>2 DEF JoinClients, JoinGarbage, JoinServer, SignalHandler, main, epoll, server,
                table, wire, client
  <2>2. rearm # None => spc' = "events"
    BY <2>1 DEF ServerInv, EventInv
  <2>3. Live' => Live
    BY <1>2 DEF JoinClients, JoinGarbage, JoinServer, SignalHandler, Live
  <2>4. spc' \notin {"events", "accept"} => batch' = {}
    BY <2>1 DEF ServerInv, BatchInv
  <2>. QED
    BY <2>1, <2>2, <2>3, <2>4, QuietKeeps
<1>. QED
  BY <1>1, <1>2 DEF MainStep

\* The steps of a client thread.
LEMMA ClientKeeps ==
    ASSUME ServerInv, NEW c \in Clients, ClientStep(c) \/ RecvFails(c)
    PROVE  ServerInv'
<1> USE DEF ServerInv
<1>1. /\ DOMAIN cpc = Clients /\ request \in [Clients -> Nat] /\ up \in [Clients -> Seq(Nat)]
      /\ down \in [Clients -> Seq(Nat)] /\ cfd \in [Clients -> Fds \cup {None}]
  BY DEF ServerShape
<1>2. /\ UNCHANGED <<next, mpc, clients, sfd, interest, wbuf, shut, rearm, freedUse, batch, spc>>
      /\ cpc[c] \in {"start", "send", "recv", "close", "giveUp"}
  BY DEF ClientStep, Connect, Send, Recv, RecvFails, Close, main, epoll, server, table, wire
<1>3. cpc[c] # "unborn"
  BY <1>2
<1>4. TableInv' /\ BatchInv'
  BY <1>2 DEF TableInv, BatchInv, Live
<1>5. ASSUME DOMAIN cpc' = Clients, \A d \in Clients : d # c => cpc'[d] = cpc[d],
             GaveUp(c) => GaveUp(c)', fin \subseteq fin',
             \A d \in fin : up'[d] = up[d]
      PROVE  EventInv'
  <2>1. \A d \in Clients : GaveUp(d) => GaveUp(d)'
    BY <1>5 DEF GaveUp
  <2>. QED
    BY <1>2, <1>5, <2>1 DEF EventInv
<1>6. CASE Connect(c)
  <2>1. /\ cpc[c] = "start" /\ UNCHANGED <<up, down, fin, request>>
        /\ \/ /\ FreeFds # {} /\ cfd' = [cfd EXCEPT ![c] = Lowest(FreeFds)]
              /\ backlog' = Append(backlog, c) /\ cpc' = [cpc EXCEPT ![c] = "send"]
           \/ UNCHANGED <<cfd, backlog>> /\ cpc' = [cpc EXCEPT ![c] = "done"]
    BY <1>6 DEF Connect
  <2>2. cfd' \in [Clients -> Fds \cup {None}]
    <3>1. FreeFds \subseteq Fds
      BY DEF FreeFds
    <3>2. FreeFds # {} => Lowest(FreeFds) \in Fds
      BY <3>1, LowestIn, Names
    <3>. QED
      BY <1>1, <2>1, <3>2
  <2>3. /\ backlog' \in Seq(Clients)
        /\ \A d : Waiting(d)' => Waiting(d) \/ d = c
        /\ \A j, k \in 1 .. Len(backlog') : backlog'[j] = backlog'[k] => j = k
    <3>1. ~Waiting(c) /\ backlog \in Seq(Clients)
      BY <2>1 DEF Lifecycle, ServerShape
    <3>2. \A j, k \in 1 .. Len(backlog) : backlog[j] = backlog[k] => j = k
      BY DEF Lifecycle
    <3>3. CASE backlog' = backlog
      BY <3>1, <3>2, <3>3 DEF Waiting
    <3>4. CASE backlog' = Append(backlog, c)
      BY <3>1, <3>2, <3>4, AppendWaiting
    <3>. QED
      BY <2>1, <3>3, <3>4
  <2>4. /\ DOMAIN cpc' = Clients /\ cpc'[c] \in {"send", "done"}
        /\ \A d \in Clients : d # c => cpc'[d] = cpc[d]
    BY <1>1, <2>1
  <2>5. ServerShape'
    BY <1>2, <2>1, <2>2, <2>3, <2>4 DEF ServerShape
  <2>6. Lifecycle'
    <3>1. sfd[c] = None /\ c \notin shut /\ c \notin fin /\ ~(c >= next)
      BY <1>3, <2>1 DEF Lifecycle
    <3>. QED
      BY <1>2, <2>1, <2>3, <2>4, <3>1 DEF Lifecycle, ServerShape
  <2>7. EchoInv'
    BY <1>2, <2>1, <2>4 DEF EchoInv, Echo, GaveUp
  <2>8. EventInv'
    BY <1>5, <2>1, <2>4 DEF GaveUp
  <2>. QED
    BY <1>4, <2>5, <2>6, <2>7, <2>8
<1>7. CASE Send(c)
  <2>1. /\ cpc[c] = "send" /\ UNCHANGED <<down, fin, request, cfd, backlog>>
        /\ \/ /\ c \notin shut /\ up' = [up EXCEPT ![c] = Append(@, request[c])]
              /\ cpc' = [cpc EXCEPT ![c] = "recv"]
           \/ cpc' = [cpc EXCEPT ![c] = "close"] /\ UNCHANGED up
    BY <1>7 DEF Send
  <2>2. /\ DOMAIN cpc' = Clients /\ cpc'[c] \in {"recv", "close"}
        /\ \A d \in Clients : d # c => cpc'[d] = cpc[d] /\ up'[d] = up[d]
    BY <1>1, <2>1
  <2>3. up' \in [Clients -> Seq(Nat)]
    <3>1. Append(up[c], request[c]) \in Seq(Nat)
      BY <1>1
    <3>2. \A q \in Seq(Nat) : [up EXCEPT ![c] = q] \in [Clients -> Seq(Nat)]
      BY <1>1
    <3>. QED
      BY <1>1, <2>1, <3>1, <3>2
  <2>4. ServerShape'
    BY <1>2, <2>1, <2>2, <2>3 DEF ServerShape
  <2>5. Lifecycle'
    <3>1. \A d : Waiting(d)' <=> Waiting(d)
      BY <2>1 DEF Waiting
    <3>2. c \notin fin /\ ~(c >= next)
      BY <1>3, <2>1 DEF Lifecycle
    <3>. QED
      BY <1>2, <2>1, <2>2, <3>1, <3>2 DEF Lifecycle, ServerShape
  <2>6. c \notin shut => Echo(c)'
    <3>1. SUFFICES ASSUME c \notin shut PROVE Echo(c)'
      OBVIOUS
    <3>2. up[c] = <<>> /\ wbuf[c] = <<>> /\ down[c] = <<>>
      BY <2>1, <3>1 DEF EchoInv, Echo, GaveUp
    <3>3. Append(<<>>, request[c]) = <<request[c]>>
      BY <1>1
    <3>4. CASE cpc' = [cpc EXCEPT ![c] = "recv"] /\ up' = [up EXCEPT ![c] = Append(@, request[c])]
      <4>1. up'[c] = <<request[c]>> /\ cpc'[c] = "recv"
        BY <1>1, <3>2, <3>3, <3>4
      <4>. QED
        BY <1>2, <2>1, <3>2, <4>1 DEF Echo
    <3>5. CASE cpc' = [cpc EXCEPT ![c] = "close"] /\ UNCHANGED up
      <4>1. cpc'[c] = "close"
        BY <1>1, <3>5
      <4>. QED
        BY <1>2, <2>1, <3>2, <3>5, <4>1 DEF Echo, GaveUp
    <3>. QED
      BY <2>1, <3>4, <3>5
  <2>7. \A d \in Clients : d # c => (Echo(d)' <=> Echo(d))
    BY <1>2, <2>1, <2>2 DEF Echo, GaveUp
  <2>8. EchoInv'
    BY <1>2, <2>6, <2>7 DEF EchoInv
  <2>9. EventInv'
    <3>1. c \notin fin
      BY <2>1 DEF Lifecycle
    <3>. QED
      BY <1>5, <2>1, <2>2, <3>1 DEF GaveUp, ServerShape
  <2>. QED
    BY <1>4, <2>4, <2>5, <2>8, <2>9
<1>8. CASE Recv(c)
  <2>1. /\ cpc[c] = "recv" /\ UNCHANGED <<up, fin, cfd, backlog>>
        /\ \/ /\ down[c] # <<>> /\ down' = [down EXCEPT ![c] = <<>>]
              /\ request' = [request EXCEPT ![c] = @ + 1]
              /\ cpc' = [cpc EXCEPT ![c] = "send"]
           \/ c \in shut /\ cpc' = [cpc EXCEPT ![c] = "close"] /\ UNCHANGED <<down, request>>
    BY <1>8 DEF Recv
  <2>2. /\ DOMAIN cpc' = Clients /\ cpc'[c] \in {"send", "close"}
        /\ \A d \in Clients : d # c => /\ cpc'[d] = cpc[d] /\ down'[d] = down[d]
                                       /\ request'[d] = request[d]
    BY <1>1, <2>1
  <2>3. down' \in [Clients -> Seq(Nat)] /\ request' \in [Clients -> Nat]
    <3>1. <<>> \in Seq(Nat) /\ request[c] + 1 \in Nat
      BY <1>1
    <3>2. [request EXCEPT ![c] = request[c] + 1] \in [Clients -> Nat]
      BY <1>1, <3>1
    <3>3. [down EXCEPT ![c] = <<>>] \in [Clients -> Seq(Nat)]
      BY <1>1, <3>1
    <3>. QED
      BY <1>1, <2>1, <3>2, <3>3
  <2>4. ServerShape'
    BY <1>2, <2>1, <2>2, <2>3 DEF ServerShape
  <2>5. Lifecycle'
    <3>1. \A d : Waiting(d)' <=> Waiting(d)
      BY <2>1 DEF Waiting
    <3>2. c \notin fin /\ ~(c >= next)
      BY <1>3, <2>1 DEF Lifecycle
    <3>. QED
      BY <1>2, <2>1, <2>2, <3>1, <3>2 DEF Lifecycle, ServerShape
  <2>6. c \notin shut => Echo(c)'
    <3>1. SUFFICES ASSUME c \notin shut PROVE Echo(c)'
      OBVIOUS
    <3>2. down[c] # <<>> /\ down'[c] = <<>> /\ cpc'[c] = "send"
      BY <1>1, <2>1, <3>1
    <3>3. up[c] = <<>> /\ wbuf[c] = <<>>
      BY <2>1, <3>1, <3>2 DEF EchoInv, Echo, GaveUp
    <3>. QED
      BY <1>2, <2>1, <3>2, <3>3 DEF Echo, GaveUp
  <2>7. \A d \in Clients : d # c => (Echo(d)' <=> Echo(d))
    BY <1>2, <2>1, <2>2 DEF Echo, GaveUp
  <2>8. EchoInv'
    BY <1>2, <2>6, <2>7 DEF EchoInv
  <2>9. EventInv'
    BY <1>5, <2>1, <2>2 DEF GaveUp
  <2>. QED
    BY <1>4, <2>4, <2>5, <2>8, <2>9
<1>9. CASE Close(c)
  <2>1. /\ cpc[c] \in {"close", "giveUp"} /\ UNCHANGED <<up, down, request, backlog>>
        /\ cpc' = [cpc EXCEPT ![c] = IF @ = "close" THEN "done" ELSE "gone"]
        /\ fin' = fin \cup {c} /\ cfd' = [cfd EXCEPT ![c] = None]
    BY <1>9 DEF Close
  <2>2. /\ DOMAIN cpc' = Clients /\ cpc'[c] \in {"done", "gone"}
        /\ cfd' \in [Clients -> Fds \cup {None}]
        /\ \A d \in Clients : d # c => cpc'[d] = cpc[d]
        /\ GaveUp(c)' <=> GaveUp(c)
    BY <1>1, <2>1 DEF GaveUp
  <2>3. ServerShape'
    BY <1>2, <2>1, <2>2 DEF ServerShape
  <2>4. Lifecycle'
    <3>1. \A d : Waiting(d)' <=> Waiting(d)
      BY <2>1 DEF Waiting
    <3>2. ~(c >= next)
      BY <1>3 DEF Lifecycle
    <3>. QED
      BY <1>2, <2>1, <2>2, <3>1, <3>2 DEF Lifecycle, ServerShape
  <2>5. EchoInv'
    <3>1. \A d \in Clients : (cpc'[d] = "recv" \/ GaveUp(d)') <=> (cpc[d] = "recv" \/ GaveUp(d))
      BY <2>1, <2>2 DEF GaveUp
    <3>2. \A d \in Clients : Echo(d)' <=> Echo(d)
      BY <1>2, <2>1, <3>1 DEF Echo
    <3>. QED
      BY <1>2, <3>2 DEF EchoInv
  <2>6. EventInv'
    BY <1>5, <2>1, <2>2
  <2>. QED
    BY <1>4, <2>3, <2>4, <2>5, <2>6
<1>10. CASE RecvFails(c)
  <2>1. /\ cpc[c] = "recv" /\ cpc' = [cpc EXCEPT ![c] = "giveUp"]
        /\ UNCHANGED <<up, down, request, backlog, cfd, fin>>
    BY <1>10 DEF RecvFails, wire
  <2>2. /\ DOMAIN cpc' = Clients /\ cpc'[c] = "giveUp"
        /\ \A d \in Clients : d # c => cpc'[d] = cpc[d]
    BY <1>1, <2>1
  <2>3. ServerShape'
    BY <1>2, <2>1, <2>2 DEF ServerShape
  <2>4. Lifecycle'
    <3>1. \A d : Waiting(d)' <=> Waiting(d)
      BY <2>1 DEF Waiting
    <3>2. c \notin fin /\ ~(c >= next)
      BY <1>3, <2>1 DEF Lifecycle
    <3>. QED
      BY <1>2, <2>1, <2>2, <3>1, <3>2 DEF Lifecycle, ServerShape
  <2>5. EchoInv'
    <3>1. \A d \in Clients : (cpc'[d] = "recv" \/ GaveUp(d)') <=> (cpc[d] = "recv" \/ GaveUp(d))
      BY <2>1, <2>2 DEF GaveUp
    <3>2. \A d \in Clients : Echo(d)' <=> Echo(d)
      BY <1>2, <2>1, <3>1 DEF Echo
    <3>. QED
      BY <1>2, <3>2 DEF EchoInv
  <2>6. EventInv'
    BY <1>5, <2>1, <2>2 DEF GaveUp
  <2>. QED
    BY <1>4, <2>3, <2>4, <2>5, <2>6
<1>. QED
  BY <1>6, <1>7, <1>8, <1>9, <1>10 DEF ClientStep

\* epoll_wait: a socket registered for writing has its reply still in the
\* buffer, so that its client waits and has sent nothing more, or has left.
LEMMA EpollKeeps ==
    ASSUME ServerInv, EpollWait
    PROVE  ServerInv'
<1> USE DEF ServerInv
<1>1. /\ UNCHANGED <<next, mpc, clients, sfd, cfd, interest, wbuf, up, down, backlog, shut, fin,
                     cpc, request, rearm, freedUse>>
      /\ spc = "wait" /\ spc' = "events" /\ rearm = None
  BY DEF EpollWait, main, table, wire, client, EventInv
<1>2. ASSUME NEW c \in Clients, sfd[c] # None
      PROVE  LET m == Poll(c, interest[c])
             IN  /\ m \subseteq {"in", "out", "err"}
                 /\ {"in", "out"} \subseteq m => GaveUp(c)
                 /\ "err" \in m => c \in fin /\ GaveUp(c) /\ up[c] = <<>>
  <2>1. Poll(c, interest[c]) \subseteq {"in", "out", "err"}
    <3>1. interest[c] \subseteq {"in", "out", "err"}
      BY DEF ServerShape, Masks
    <3>. QED
      BY <3>1 DEF Poll
  <2>2. c \notin shut /\ Echo(c)
    BY <1>2 DEF Lifecycle, EchoInv
  <2>3. ASSUME {"in", "out"} \subseteq Poll(c, interest[c])
        PROVE  GaveUp(c)
    <3>1. "out" \in interest[c] /\ (up[c] # <<>> \/ c \in fin)
      BY <2>3 DEF Poll
    <3>2. wbuf[c] # <<>>
      BY <1>1, <3>1, Names DEF EventInv
    <3>3. up[c] = <<>> /\ (cpc[c] = "recv" \/ GaveUp(c))
      BY <2>2, <3>2 DEF Echo
    <3>4. c \in fin /\ cpc[c] # "recv"
      BY <3>1, <3>3 DEF Lifecycle
    <3>. QED
      BY <3>3, <3>4
  <2>4. ASSUME "err" \in Poll(c, interest[c])
        PROVE  c \in fin /\ GaveUp(c) /\ up[c] = <<>>
    <3>1. CASE Reset(c)
      <4>1. c \in fin /\ down[c] # <<>> /\ cpc[c] # "recv"
        BY <3>1 DEF Reset, Lifecycle
      <4>. QED
        BY <2>2, <4>1 DEF Echo
    <3>2. CASE ~Reset(c)
      <4>1. "err" \in interest[c] /\ (up[c] # <<>> \/ c \in fin)
        BY <2>4, <3>2 DEF Poll
      <4>. QED
        BY <4>1 DEF EventInv
    <3>. QED
      BY <3>1, <3>2
  <2>. QED
    BY <2>1, <2>3, <2>4
<1>3. ASSUME NEW c \in Clients, sfd[c] # None, "err" \in Poll(c, interest[c])
      PROVE  "in" \in Poll(c, interest[c])
  <2>1. c \in fin /\ "in" \in interest[c]
    BY <1>2, <1>3 DEF EventInv
  <2>. QED
    BY <2>1 DEF Poll
<1>4. \A e \in batch' : \/ e.fd = Listener
                        \/ \E c \in Clients :
                             /\ e = [fd |-> sfd[c], mask |-> Poll(c, interest[c])]
                             /\ sfd[c] # None /\ e.mask # {}
  BY DEF EpollWait
<1>5. ASSUME NEW e \in batch', NEW c \in Clients, sfd[c] = e.fd, e.fd # Listener
      PROVE  e = [fd |-> sfd[c], mask |-> Poll(c, interest[c])] /\ sfd[c] # None /\ e.mask # {}
  BY <1>4, <1>5 DEF TableInv
<1>6. EventInv'
  <2>1. ASSUME NEW e \in batch', NEW c \in Clients, sfd[c] = e.fd, e.fd # Listener
        PROVE  /\ e.mask \subseteq {"in", "out", "err"} /\ e.mask # {}
               /\ {"in", "out"} \subseteq e.mask => GaveUp(c)
               /\ "err" \in e.mask => "in" \in e.mask /\ c \in fin /\ GaveUp(c) /\ up[c] = <<>>
    <3>1. e.mask = Poll(c, interest[c]) /\ sfd[c] # None /\ e.mask # {}
      BY <1>5, <2>1
    <3>. QED
      BY <1>2, <1>3, <3>1
  <2>2. \A c : GaveUp(c)' <=> GaveUp(c)
    BY <1>1 DEF GaveUp
  <2>. QED
    BY <1>1, <2>1, <2>2 DEF EventInv
<1>7. BatchInv'
  <2>1. \A e \in batch' : e.fd # Listener => \E c \in Clients : sfd[c] = e.fd
    BY <1>4
  <2>2. ASSUME NEW e \in batch', NEW f \in batch', e.fd = f.fd
        PROVE  e = f
    <3>1. CASE e.fd = Listener
      <4>1. \A g \in batch' : g.fd = Listener => g = [fd |-> Listener, mask |-> {"in"}]
        BY Names DEF EpollWait
      <4>. QED
        BY <2>2, <3>1, <4>1
    <3>2. CASE e.fd # Listener
      <4>1. PICK c \in Clients : sfd[c] = e.fd
        BY <2>1, <3>2
      <4>. QED
        BY <1>5, <2>2, <3>2, <4>1
    <3>. QED
      BY <3>1, <3>2
  <2>. QED
    BY <1>1, <2>1, <2>2 DEF BatchInv
<1>8. ServerShape' /\ TableInv'
  BY <1>1 DEF ServerShape, TableInv
<1>9. Lifecycle'
  BY <1>1 DEF Lifecycle, Waiting
<1>10. EchoInv'
  BY <1>1 DEF EchoInv, Echo, GaveUp
<1>. QED
  BY <1>6, <1>7, <1>8, <1>9, <1>10

\* One turn of the accept loop: the descriptor and the slot were free.
LEMMA AcceptKeeps ==
    ASSUME ServerInv, AcceptOne, Live
    PROVE  ServerInv'
<1> USE DEF ServerInv
<1> DEFINE c == Head(backlog)
           fd == Lowest(FreeFds)
           free == {i \in Slots : clients[i] = None}
<1>1. /\ UNCHANGED <<next, mpc, batch, spc, wbuf, rearm, freedUse, up, down, fin, cpc, cfd,
                     request>>
      /\ spc = "accept" /\ backlog # <<>> /\ FreeFds # {} /\ backlog' = Tail(backlog)
  BY DEF AcceptOne, main, client
<1>2. /\ backlog' \in Seq(Clients) /\ c \in Clients /\ Waiting(c)
      /\ \A d : Waiting(d)' <=> Waiting(d) /\ d # c
      /\ \A j, k \in 1 .. Len(backlog') : backlog'[j] = backlog'[k] => j = k
  BY <1>1, TailWaiting DEF ServerShape, Lifecycle
<1>3. sfd[c] = None /\ c \notin shut /\ cpc[c] \notin {"unborn", "failed", "start"} /\ c # None
  BY <1>2, Names DEF Lifecycle
<1>4. wbuf[c] = <<>>
  BY <1>2, <1>3 DEF EventInv
<1>5. rearm = None
  BY <1>1 DEF EventInv
<1>6. CASE UNCHANGED <<clients, sfd, interest>> /\ shut' = shut \cup {c}
  <2>1. ServerShape' /\ TableInv' /\ BatchInv'
    BY <1>1, <1>2, <1>6 DEF ServerShape, TableInv, BatchInv, Live
  <2>2. EventInv'
    BY <1>1, <1>6 DEF EventInv, GaveUp
  <2>3. Lifecycle'
    BY <1>1, <1>2, <1>3, <1>6 DEF Lifecycle
  <2>4. EchoInv'
    BY <1>1, <1>6 DEF EchoInv, Echo, GaveUp
  <2>. QED
    BY <2>1, <2>2, <2>3, <2>4
<1>7. CASE /\ free # {} /\ clients' = [clients EXCEPT ![Lowest(free)] = c]
           /\ sfd' = [sfd EXCEPT ![c] = fd]
           /\ interest' = [interest EXCEPT ![c] = {"in"}] /\ shut' = shut
  <2>1. fd \in Fds /\ fd # None /\ \A d \in Clients : sfd[d] # fd
    <3>1. FreeFds \subseteq Nat
      BY Names DEF FreeFds
    <3>2. fd \in FreeFds
      BY <1>1, <3>1, LowestIn
    <3>. QED
      BY <3>2, Names DEF FreeFds
  <2>2. PICK i \in Slots : /\ i = Lowest(free) /\ clients[i] = None
    <3>1. free \subseteq Nat
      BY Names
    <3>2. Lowest(free) \in free
      BY <1>7, <3>1, LowestIn
    <3>. QED
      BY <3>2
  <2>3. /\ clients' \in [Slots -> Clients \cup {None}] /\ clients'[i] = c
        /\ \A j \in Slots : j # i => clients'[j] = clients[j]
    BY <1>2, <1>7, <2>2 DEF ServerShape
  <2>4. /\ sfd' \in [Clients -> Fds \cup {None}] /\ sfd'[c] = fd
        /\ interest' \in [Clients -> Masks] /\ interest'[c] = {"in"}
        /\ \A d \in Clients : d # c => sfd'[d] = sfd[d] /\ interest'[d] = interest[d]
    <3>1. {"in"} \in Masks
      BY DEF Masks
    <3>. QED
      BY <1>2, <1>7, <2>1, <3>1 DEF ServerShape
  <2>5. ServerShape'
    BY <1>1, <1>2, <1>7, <2>3, <2>4 DEF ServerShape
  <2>6. Lifecycle'
    BY <1>1, <1>2, <1>3, <1>7, <2>4 DEF Lifecycle
  <2>7. TableInv'
    <3>1. \A j \in Slots : clients[j] # c
      BY <1>3 DEF TableInv
    <3>2. \A j \in Slots : clients'[j] # None => sfd'[clients'[j]] # None
      <4>1. ASSUME NEW j \in Slots, j # i, clients'[j] # None
            PROVE  sfd'[clients'[j]] # None
        <5>1. clients'[j] = clients[j] /\ clients[j] \in Clients /\ clients[j] # c
          BY <2>3, <3>1, <4>1 DEF ServerShape
        <5>. QED
          BY <2>4, <4>1, <5>1 DEF TableInv
      <4>. QED
        BY <2>1, <2>3, <2>4, <4>1
    <3>3. \A j, k \in Slots : clients'[j] = clients'[k] /\ clients'[j] # None => j = k
      BY <2>3, <3>1 DEF TableInv
    <3>4. \A d \in Clients : sfd'[d] # None => \E j \in Slots : clients'[j] = d
      <4>1. ASSUME NEW d \in Clients, d # c, sfd[d] # None
            PROVE  \E j \in Slots : clients'[j] = d
        <5>1. PICK j \in Slots : clients[j] = d
          BY <4>1 DEF TableInv
        <5>2. j # i
          BY <2>2, <4>1, <5>1, Names
        <5>. QED
          BY <2>3, <5>1, <5>2
      <4>. QED
        BY <2>3, <2>4, <4>1
    <3>5. \A d, e \in Clients : sfd'[d] = sfd'[e] /\ sfd'[d] # None => d = e
      BY <2>1, <2>4 DEF TableInv
    <3>. QED
      BY <3>2, <3>3, <3>4, <3>5 DEF TableInv
  <2>8. EventInv'
    <3>1. \A d \in Clients : "out" \in interest'[d] => d # c
      BY <2>4
    <3>2. \A d \in Clients : wbuf[d] # <<>> => d # c
      BY <1>4
    <3>3. \A e \in batch, d \in Clients : sfd'[d] = e.fd /\ e.fd # Listener => sfd[d] = e.fd
      BY <2>1, <2>4 DEF BatchInv
    <3>4. \A d : GaveUp(d)' <=> GaveUp(d)
      BY <1>1 DEF GaveUp
    <3>5. \A d \in Clients : "err" \notin interest'[d] /\ (sfd'[d] # None => "in" \in interest'[d])
      BY <2>4 DEF EventInv
    <3>. QED
      BY <1>1, <1>5, <2>4, <3>1, <3>2, <3>3, <3>4, <3>5 DEF EventInv
  <2>9. BatchInv'
    <3>1. \A e \in batch : e.fd # Listener => \E d \in Clients : sfd'[d] = e.fd
      BY <1>3, <2>4, Names DEF BatchInv
    <3>. QED
      BY <1>1, <1>5, <3>1 DEF BatchInv, Live
  <2>10. EchoInv'
    BY <1>1, <1>7 DEF EchoInv, Echo, GaveUp
  <2>. QED
    BY <2>5, <2>6, <2>7, <2>8, <2>9, <2>10
<1>. QED
  BY <1>6, <1>7 DEF AcceptOne

\* An event of a client: a Client closed by its read handler is touched again
\* only if its client gave up.
LEMMA EventKeeps ==
    ASSUME ServerInv, ClientEvent, Live
    PROVE  ServerInv'
<1> USE DEF ServerInv
<1> PICK e \in batch :
      LET c == Lookup(e.fd)
          rest == e.mask \ {"in"}
      IN /\ spc = "events" /\ rearm = None /\ e.fd # Listener /\ c # None
         /\ \/ /\ "in" \in e.mask
               /\ HandleReadEvent(c, rest)
               /\ batch' = (batch \ {e})
                             \cup {[fd |-> e.fd, mask |-> r] : r \in {rest} \ {{}}}
               /\ UNCHANGED <<down, rearm>>
            \/ /\ "in" \notin e.mask
               /\ HandleWriteEvent(c, rest \ {"out"})
               /\ batch' = batch \ {e}
               /\ UNCHANGED up
         /\ UNCHANGED <<faults, next, running, spc, missed, backlog, fin, client>>
  BY DEF ClientEvent
<1> DEFINE rest == e.mask \ {"in"}
<1> PICK c \in Clients : c = Lookup(e.fd)
  BY LookupFinds
<1>1. /\ c \in Clients /\ sfd[c] = e.fd /\ sfd[c] # None /\ c # None /\ c \notin shut
      /\ spc = "events" /\ rearm = None
      /\ UNCHANGED <<next, backlog, fin, cpc, cfd, request, spc>>
  BY LookupFinds, Names DEF client, Lifecycle
<1>2. /\ e.mask \subseteq {"in", "out", "err"} /\ e.mask # {}
      /\ {"in", "out"} \subseteq e.mask => GaveUp(c)
      /\ "err" \in e.mask => "in" \in e.mask /\ c \in fin /\ GaveUp(c) /\ up[c] = <<>>
  BY <1>1, Names DEF EventInv
<1>3. \A d : GaveUp(d)' <=> GaveUp(d)
  BY <1>1 DEF GaveUp
<1>4. \A f \in batch \ {e} : f.fd # e.fd
  BY DEF BatchInv
<1>5. ASSUME NEW left, Release(c, left), left # {} => GaveUp(c), UNCHANGED rearm,
             up' = up \/ up' = [up EXCEPT ![c] = <<>>], UNCHANGED down,
             \A f \in batch' : f \in batch \/ f.fd = e.fd,
             left = {} => batch' = batch \ {e}
      PROVE  ServerInv'
  <2>1. freedUse' \subseteq Clients /\ \A d \in freedUse' : GaveUp(d)
    BY <1>5 DEF Release, EventInv
  <2>2. Live' => Live /\ \A f \in batch' : f \in batch /\ f.fd # sfd[c]
    <3>1. SUFFICES ASSUME Live' PROVE \A f \in batch' : f \in batch /\ f.fd # sfd[c]
      OBVIOUS
    <3>2. left = {}
      BY <1>5, <3>1 DEF Release, Live
    <3>. QED
      BY <1>1, <1>4, <1>5, <3>2
  <2>3. CloseClient(c) /\ rearm' = None
    BY <1>1, <1>5 DEF Release
  <2>. QED
    BY <1>1, <1>5, <2>1, <2>2, <2>3, CloseKeeps
<1>6. CASE "in" \in e.mask /\ HandleReadEvent(c, rest) /\ UNCHANGED <<down, rearm>>
           /\ batch' = (batch \ {e}) \cup {[fd |-> e.fd, mask |-> r] : r \in {rest} \ {{}}}
  <2>1. rest # {} => GaveUp(c)
    BY <1>2, <1>6
  <2>2. \A f \in batch' : \/ f \in batch \ {e}
                          \/ f = [fd |-> e.fd, mask |-> rest] /\ rest # {}
    BY <1>6
  <2>3. CASE Release(c, rest) /\ up' = [up EXCEPT ![c] = <<>>]
    <3>1. \A f \in batch' : f \in batch \/ f.fd = e.fd
      BY <2>2
    <3>2. rest = {} => batch' = batch \ {e}
      BY <1>6
    <3>. QED
      BY <1>5, <1>6, <2>1, <2>3, <3>1, <3>2
  <2>4. CASE /\ up[c] # <<>> /\ wbuf' = [wbuf EXCEPT ![c] = up[c]]
             /\ up' = [up EXCEPT ![c] = <<>>]
             /\ interest' = [interest EXCEPT ![c] = {"in", "out"}]
             /\ UNCHANGED <<mpc, clients, sfd, shut, freedUse>>
    <3>1. <<>> \in Seq(Nat) /\ {"in", "out"} \in Masks
      BY DEF Masks
    <3>2. wbuf' \in [Clients -> Seq(Nat)] /\ up' \in [Clients -> Seq(Nat)]
      BY <1>1, <2>4, <3>1 DEF ServerShape
    <3>3. interest' \in [Clients -> Masks]
      BY <1>1, <2>4, <3>1 DEF ServerShape
    <3>4. wbuf'[c] = up[c] /\ up'[c] = <<>> /\ interest'[c] = {"in", "out"}
      BY <1>1, <2>4 DEF ServerShape
    <3>5. \A d \in Clients : d # c => /\ wbuf'[d] = wbuf[d] /\ up'[d] = up[d]
                                      /\ interest'[d] = interest[d]
      BY <1>1, <2>4 DEF ServerShape
    <3>6. ServerShape'
      BY <1>1, <1>6, <2>4, <3>2, <3>3 DEF ServerShape
    <3>7. Lifecycle'
      BY <1>1, <2>4 DEF Lifecycle, Waiting
    <3>8. TableInv'
      BY <2>4 DEF TableInv
    <3>9. EventInv'
      <4>1. "err" \notin rest /\ rest \subseteq {"out"}
        BY <1>2, <2>4
      <4>2. ASSUME NEW f \in batch', NEW d \in Clients, sfd[d] = f.fd, f.fd # Listener
            PROVE  /\ f.mask \subseteq {"in", "out", "err"} /\ f.mask # {}
                   /\ {"in", "out"} \subseteq f.mask => GaveUp(d)
                   /\ "err" \in f.mask =>
                        "in" \in f.mask /\ d \in fin /\ GaveUp(d) /\ up'[d] = <<>>
        <5>1. CASE f \in batch \ {e}
          BY <3>4, <3>5, <4>2, <5>1 DEF EventInv
        <5>2. CASE f = [fd |-> e.fd, mask |-> rest] /\ rest # {}
          BY <4>1, <5>2
        <5>. QED
          BY <2>2, <5>1, <5>2
      <4>3. \A d \in Clients : /\ "out" \in interest'[d] => wbuf'[d] # <<>> \/ rearm' = d
                               /\ wbuf'[d] # <<>> => sfd[d] # None
                               /\ "err" \notin interest'[d]
                               /\ sfd[d] # None => "in" \in interest'[d]
        BY <1>1, <1>6, <2>4, <3>4, <3>5 DEF EventInv
      <4>. QED
        BY <1>1, <1>3, <1>6, <2>4, <4>2, <4>3 DEF EventInv
    <3>10. BatchInv'
      <4>1. \A f \in batch' : f.fd # Listener => \E d \in Clients : sfd[d] = f.fd
        BY <1>1, <2>2 DEF BatchInv
      <4>2. ASSUME NEW f \in batch', NEW g \in batch', f.fd = g.fd
            PROVE  f = g
        <5>1. \A h1, h2 \in batch \ {e} : h1.fd = h2.fd => h1 = h2
          BY DEF BatchInv
        <5>2. \A h \in batch' : h \in batch \ {e} <=> h.fd # e.fd
          BY <1>4, <2>2
        <5>. QED
          BY <2>2, <4>2, <5>1, <5>2
      <4>. QED
        BY <1>1, <1>6, <2>4, <4>1, <4>2 DEF BatchInv
    <3>11. EchoInv'
      <4>1. Echo(c)
        BY <1>1 DEF EchoInv
      <4>2. Echo(c)'
        BY <1>1, <1>3, <1>6, <2>4, <3>4, <4>1 DEF Echo
      <4>3. \A d \in Clients : d # c => (Echo(d)' <=> Echo(d))
        BY <1>1, <1>3, <1>6, <3>5 DEF Echo
      <4>. QED
        BY <2>4, <4>2, <4>3 DEF EchoInv
    <3>. QED
      BY <3>6, <3>7, <3>8, <3>9, <3>10, <3>11
  <2>. QED
    BY <1>6, <2>3, <2>4 DEF HandleReadEvent
<1>7. CASE "in" \notin e.mask /\ HandleWriteEvent(c, rest \ {"out"}) /\ batch' = batch \ {e}
           /\ UNCHANGED up
  <2>1. CASE UNCHANGED <<mpc, interest, table, shut, down>>
    <3>1. Live' => Live
      OBVIOUS
    <3>. QED
      BY <1>1, <1>7, <2>1, <3>1, QuietKeeps DEF table
  <2>2. CASE /\ down' = [down EXCEPT ![c] = @ \o wbuf[c]] /\ wbuf[c] # <<>>
             /\ wbuf' = [wbuf EXCEPT ![c] = <<>>] /\ rearm' = c
             /\ UNCHANGED <<mpc, interest, clients, sfd, shut, freedUse>>
    <3>1. /\ down[c] \in Seq(Nat) /\ wbuf[c] \in Seq(Nat) /\ <<>> \in Seq(Nat)
          /\ down \in [Clients -> Seq(Nat)] /\ wbuf \in [Clients -> Seq(Nat)]
      BY <1>1 DEF ServerShape
    <3>2. down[c] \o wbuf[c] \in Seq(Nat)
      BY <3>1
    <3>3. /\ down' \in [Clients -> Seq(Nat)] /\ down'[c] = down[c] \o wbuf[c]
          /\ wbuf' \in [Clients -> Seq(Nat)] /\ wbuf'[c] = <<>>
      BY <1>1, <2>2, <3>1, <3>2
    <3>4. \A d \in Clients : d # c => wbuf'[d] = wbuf[d] /\ down'[d] = down[d]
      BY <2>2, <3>1
    <3>5. ServerShape'
      BY <1>1, <1>7, <2>2, <3>3 DEF ServerShape
    <3>6. Lifecycle'
      BY <1>1, <2>2 DEF Lifecycle, Waiting
    <3>7. TableInv'
      BY <2>2 DEF TableInv
    <3>8. EventInv'
      <4>1. \A f \in batch', d \in Clients : sfd[d] = f.fd /\ f.fd # Listener =>
              /\ f.mask \subseteq {"in", "out", "err"} /\ f.mask # {}
              /\ {"in", "out"} \subseteq f.mask => GaveUp(d)
              /\ "err" \in f.mask => "in" \in f.mask /\ d \in fin /\ GaveUp(d) /\ up[d] = <<>>
        BY <1>7 DEF EventInv
      <4>2. \A d \in Clients : /\ "out" \in interest[d] => wbuf'[d] # <<>> \/ d = c
                               /\ wbuf'[d] # <<>> => sfd[d] # None
        BY <1>1, <3>3, <3>4, Names DEF EventInv
      <4>. QED
        BY <1>1, <1>3, <1>7, <2>2, <4>1, <4>2 DEF EventInv
    <3>9. BatchInv'
      BY <1>1, <1>4, <1>7, <2>2 DEF BatchInv
    <3>10. EchoInv'
      <4>1. /\ cpc[c] = "recv" \/ GaveUp(c)
            /\ up[c] = <<>> /\ wbuf[c] = <<request[c]>> /\ down[c] = <<>>
        BY <1>1, <2>2 DEF EchoInv, Echo
      <4>2. down'[c] = <<request[c]>>
        BY <3>1, <3>3, <4>1
      <4>3. Echo(c)'
        BY <1>1, <1>3, <1>7, <3>3, <4>1, <4>2 DEF Echo
      <4>4. \A d \in Clients : d # c => (Echo(d)' <=> Echo(d))
        BY <1>1, <1>3, <1>7, <3>4 DEF Echo
      <4>. QED
        BY <2>2, <4>3, <4>4 DEF EchoInv
    <3>. QED
      BY <3>5, <3>6, <3>7, <3>8, <3>9, <3>10
  <2>3. CASE Release(c, rest \ {"out"}) /\ UNCHANGED <<down, rearm>>
    <3>1. rest \ {"out"} = {}
      BY <1>2, <1>7
    <3>2. \A f \in batch' : f \in batch
      BY <1>7
    <3>. QED
      BY <1>5, <1>7, <2>3, <3>1, <3>2
  <2>. QED
    BY <1>7, <2>1, <2>2, <2>3 DEF HandleWriteEvent
<1>. QED
  BY <1>6, <1>7

\* The MOD after a write, and the cleanup at the end of the server thread.
LEMMA RearmKeeps ==
    ASSUME ServerInv, Rearm \/ Cleanup, Live
    PROVE  ServerInv'
<1> USE DEF ServerInv
<1>1. CASE Rearm
  <2> DEFINE c == rearm
  <2>1. /\ c \in Clients /\ sfd[c] # None /\ rearm' = None /\ spc = "events"
        /\ freedUse \subseteq Clients /\ \A d \in freedUse : GaveUp(d)
        /\ UNCHANGED <<next, mpc, batch, spc, freedUse, backlog, up, down, fin, cpc, cfd,
                       request>>
    BY <1>1 DEF Rearm, main, client, ServerShape, EventInv
  <2>2. CASE /\ interest' = [interest EXCEPT ![c] = {"in"}]
             /\ UNCHANGED <<clients, sfd, shut, wbuf>>
    <3>1. /\ interest' \in [Clients -> Masks] /\ interest'[c] = {"in"}
          /\ \A d \in Clients : d # c => interest'[d] = interest[d]
      <4>1. {"in"} \in Masks
        BY DEF Masks
      <4>. QED
        BY <2>1, <2>2, <4>1 DEF ServerShape
    <3>2. ServerShape' /\ TableInv'
      BY <2>1, <2>2, <3>1 DEF ServerShape, TableInv
    <3>3. Lifecycle'
      BY <2>1, <2>2 DEF Lifecycle, Waiting
    <3>4. EventInv'
      BY <2>1, <2>2, <3>1 DEF EventInv, GaveUp
    <3>5. BatchInv'
      BY <2>1, <2>2 DEF BatchInv, Live
    <3>6. EchoInv'
      BY <2>1, <2>2 DEF EchoInv, Echo, GaveUp
    <3>. QED
      BY <3>2, <3>3, <3>4, <3>5, <3>6
  <2>3. CASE CloseClient(c)
    <3>1. Live' => Live /\ \A e \in batch' : e \in batch /\ e.fd # sfd[c]
      BY <1>1, <2>1 DEF Rearm, BatchInv
    <3>2. \A e \in batch' : e \in batch \/ e.fd = sfd[c]
      BY <2>1
    <3>. QED
      BY <2>1, <2>3, <3>1, <3>2, CloseKeeps
  <2>. QED
    BY <1>1, <2>2, <2>3 DEF Rearm
<1>2. CASE Cleanup
  <2>1. /\ UNCHANGED <<next, mpc, batch, rearm, freedUse, up, down, fin, cpc, cfd, request>>
        /\ spc = "cleanup" /\ spc' = "done" /\ backlog' = <<>>
        /\ clients' = [i \in Slots |-> None] /\ interest' = [c \in Clients |-> {}]
        /\ wbuf' = [c \in Clients |-> <<>>]
        /\ sfd' = [c \in Clients |-> IF \E i \in Slots : clients[i] = c THEN None ELSE sfd[c]]
        /\ shut' = shut \cup {c \in Clients : (\E i \in Slots : clients[i] = c) \/ Waiting(c)}
    BY <1>2 DEF Cleanup, main, client, Waiting
  <2>2. \A c \in Clients : sfd'[c] = None
    BY <2>1 DEF TableInv
  <2>3. ServerShape'
    <3>1. <<>> \in Seq(Nat) /\ {} \in Masks /\ <<>> \in Seq(Clients)
      BY DEF Masks
    <3>2. wbuf' \in [Clients -> Seq(Nat)] /\ interest' \in [Clients -> Masks]
      BY <2>1, <3>1
    <3>3. sfd' \in [Clients -> Fds \cup {None}] /\ clients' \in [Slots -> Clients \cup {None}]
      BY <2>1, <2>2
    <3>4. shut' \subseteq Clients
      BY <2>1 DEF ServerShape
    <3>. QED
      BY <2>1, <3>1, <3>2, <3>3, <3>4 DEF ServerShape
  <2>4. Lifecycle'
    <3>1. \A d : ~Waiting(d)'
      BY <2>1 DEF Waiting
    <3>2. \A j, k \in 1 .. Len(backlog') : backlog'[j] = backlog'[k] => j = k
      BY <2>1
    <3>3. ASSUME NEW d \in Clients, cpc[d] \in {"unborn", "failed", "start"}
          PROVE  d \notin shut'
      <4>1. sfd[d] = None /\ d \notin shut /\ ~Waiting(d)
        BY <3>3 DEF Lifecycle
      <4>2. \A i \in Slots : clients[i] # d
        BY <4>1, Names DEF TableInv
      <4>. QED
        BY <2>1, <4>1, <4>2
    <3>. QED
      BY <2>1, <2>2, <3>1, <3>2, <3>3 DEF Lifecycle
  <2>5. TableInv'
    BY <2>1, <2>2 DEF TableInv
  <2>6. EventInv'
    <3>1. rearm = None
      BY <2>1 DEF EventInv
    <3>2. \A d \in Clients : interest'[d] = {} /\ wbuf'[d] = <<>>
      BY <2>1
    <3>3. batch' = {}
      BY <2>1 DEF BatchInv
    <3>. QED
      BY <2>1, <2>2, <3>1, <3>2, <3>3 DEF EventInv, GaveUp
  <2>7. BatchInv'
    <3>1. batch' = {}
      BY <2>1 DEF BatchInv
    <3>. QED
      BY <3>1 DEF BatchInv
  <2>8. EchoInv'
    <3>1. ASSUME NEW d \in Clients, d \notin shut'
          PROVE  Echo(d)'
      <4>1. d \notin shut /\ ~\E i \in Slots : clients[i] = d
        BY <2>1, <3>1
      <4>2. sfd[d] = None
        BY <4>1 DEF TableInv
      <4>3. wbuf[d] = <<>> /\ wbuf'[d] = <<>>
        BY <2>1, <4>2 DEF EventInv
      <4>. QED
        BY <2>1, <4>1, <4>3 DEF EchoInv, Echo, GaveUp
    <3>. QED
      BY <3>1 DEF EchoInv
  <2>. QED
    BY <2>3, <2>4, <2>5, <2>6, <2>7, <2>8
<1>. QED
  BY <1>1, <1>2

\* The inductive invariant of the server.
LEMMA ServerCorrect == Spec => []ServerInv
<1>1. Init => ServerInv
  <2> SUFFICES ASSUME Init PROVE ServerInv
    OBVIOUS
  <2>1. ServerShape
    <3>1. <<>> \in Seq(Nat) /\ {} \in Masks /\ <<>> \in Seq(Clients) /\ 0 \in Nat /\ 1 \in Nat
      BY DEF Masks
    <3>. QED
      BY <3>1 DEF Init, ServerShape
  <2>2. Lifecycle
    BY DEF Init, Lifecycle, Waiting
  <2>3. TableInv /\ EventInv /\ BatchInv
    BY DEF Init, TableInv, EventInv, BatchInv
  <2>4. EchoInv
    BY DEF Init, EchoInv, Echo, GaveUp
  <2>. QED
    BY <2>1, <2>2, <2>3, <2>4 DEF ServerInv
<1>2. ASSUME ServerInv, [Next]_vars
      PROVE  ServerInv'
  <2>1. CASE UNCHANGED vars
    <3>1. UNCHANGED <<next, mpc, clients, sfd, cfd, interest, wbuf, up, down, backlog, shut, fin,
                      cpc, request, rearm, freedUse, batch, spc>>
      BY <2>1 DEF vars, main, epoll, server, table, wire, client
    <3>2. /\ rearm # None => spc' = "events"
          /\ spc' \notin {"events", "accept"} => batch' = {}
      BY <1>2, <3>1 DEF ServerInv, EventInv, BatchInv
    <3>3. Live' => Live
      BY <3>1 DEF Live
    <3>. QED
      BY <1>2, <3>1, <3>2, <3>3, QuietKeeps
  <2>2. ASSUME \/ Setup \/ TestRunning \/ EpollFails \/ StartAccept \/ EndOfBatch
               \/ AcceptEnds \/ AcceptFails
        PROVE  ServerInv'
    <3>1. /\ UNCHANGED <<next, mpc, clients, sfd, cfd, interest, wbuf, up, down, backlog, shut,
                         fin, cpc, request, rearm, freedUse>>
          /\ batch' \subseteq batch
      BY <2>2 DEF Setup, TestRunning, EpollFails, StartAccept, EndOfBatch, AcceptEnds,
                  AcceptFails, main, epoll, table, wire, client
    <3>2. rearm = None
      BY <1>2, <2>2 DEF Setup, TestRunning, EpollFails, StartAccept, EndOfBatch, AcceptEnds,
                        AcceptFails, ServerInv, EventInv
    <3>3. Live' => Live
      BY <3>1 DEF Live
    <3>4. spc' \notin {"events", "accept"} => batch' = {}
      BY <1>2, <2>2, <3>1 DEF Setup, TestRunning, EpollFails, StartAccept, EndOfBatch, AcceptEnds,
                              AcceptFails, ServerInv, BatchInv
    <3>. QED
      BY <1>2, <3>1, <3>2, <3>3, <3>4, QuietKeeps
  <2>. QED
    BY <1>2, <2>1, <2>2, MainKeeps, ClientKeeps, EpollKeeps, AcceptKeeps, EventKeeps,
       RearmKeeps DEF Next, ServerStep
<1>. QED
  BY <1>1, <1>2, PTL DEF Spec
-----------------------------------------------------------------------------
\* The table of clients and the open sockets agree, for any number of clients
\* and slots and whatever fails: no socket is leaked, no slot keeps a freed
\* Client, and no two connections share a descriptor.
THEOREM TableIsRight == Spec => []TableMatchesSockets
<1>1. ServerInv => TableMatchesSockets
  <2> SUFFICES ASSUME ServerInv
               PROVE  /\ \A c \in Clients : Cardinality({i \in Slots : clients[i] = c})
                                              = IF sfd[c] = None THEN 0 ELSE 1
                      /\ \A c, d \in Clients : sfd[c] = sfd[d] /\ sfd[c] # None => c = d
    BY DEF TableMatchesSockets, ServerInv, BatchInv
  <2> USE DEF ServerInv
  <2>1. ASSUME NEW c \in Clients
        PROVE  Cardinality({i \in Slots : clients[i] = c}) = IF sfd[c] = None THEN 0 ELSE 1
    <3> DEFINE S == {i \in Slots : clients[i] = c}
    <3>1. c # None
      BY Names
    <3>2. CASE sfd[c] = None
      <4>1. S = {}
        BY <3>1, <3>2 DEF TableInv
      <4>. QED
        BY <3>2, <4>1, FS_EmptySet
    <3>3. CASE sfd[c] # None
      <4>1. PICK i \in Slots : clients[i] = c
        BY <3>3 DEF TableInv
      <4>2. S = {i}
        BY <3>1, <4>1 DEF TableInv
      <4>. QED
        BY <3>3, <4>2, FS_Singleton
    <3>. QED
      BY <3>2, <3>3
  <2>2. \A c, d \in Clients : sfd[c] = sfd[d] /\ sfd[c] # None => c = d
    BY DEF TableInv
  <2>. QED
    BY <2>1, <2>2
<1>. QED
  BY <1>1, ServerCorrect, PTL

\* handle_read_event may free its Client, but then the event that is being
\* handled calls for nothing more, so that handle_write_event is not called
\* for it, unless the client left without waiting for its reply.
THEOREM FreedClientUnused == Spec => []NoUseAfterFree
<1>1. ServerInv => NoUseAfterFree
  BY DEF ServerInv, EventInv, NoUseAfterFree
<1>. QED
  BY <1>1, ServerCorrect, PTL

\* An error is reported together with EPOLLIN and when there is nothing to
\* read: handle_read_event has then freed the Client before the branch for
\* errors, which therefore always works on a freed one.
THEOREM ErrorsComeLast ==
    Spec => [](\A e \in batch, c \in Clients :
                 sfd[c] = e.fd /\ e.fd # Listener /\ "err" \in e.mask =>
                   "in" \in e.mask /\ up[c] = <<>>)
<1>1. ServerInv => \A e \in batch, c \in Clients :
                     sfd[c] = e.fd /\ e.fd # Listener /\ "err" \in e.mask =>
                       "in" \in e.mask /\ up[c] = <<>>
  BY DEF ServerInv, EventInv
<1>. QED
  BY <1>1, ServerCorrect, PTL

\* Every reply is the echo of the request under way, for any number of
\* clients and requests: none is overwritten, doubled or left over.
THEOREM RepliesAreEchoes == Spec => []EchoIsRequest
<1>1. ServerInv => EchoIsRequest
  <2> SUFFICES ASSUME ServerInv, NEW c \in Clients \ shut
               PROVE  up[c] \o wbuf[c] \o down[c]
                        = IF cpc[c] = "recv" \/ GaveUp(c) THEN <<request[c]>> ELSE <<>>
    BY DEF EchoIsRequest
  <2>1. Echo(c) /\ request[c] \in Nat
    BY DEF ServerInv, EchoInv, ServerShape
  <2>2. \A n \in Nat : /\ <<n>> \o <<>> = <<n>> /\ <<>> \o <<n>> = <<n>>
    OBVIOUS
  <2>3. <<>> \o <<>> = <<>>
    OBVIOUS
  <2>. QED
    BY <2>1, <2>2, <2>3 DEF Echo
<1>. QED
  BY <1>1, ServerCorrect, PTL
-----------------------------------------------------------------------------
\* One step keeps the backlog announced: the accept loop ends when nothing
\* is left or with an error, and a connection that comes later is reported anew.
LEMMA ListenStep ==
    ASSUME ServerInv, ListenInv, [Next]_vars
    PROVE  ListenInv'
<1> DEFINE event == [fd |-> Listener, mask |-> {"in"}]
<1>1. CASE UNCHANGED vars
  BY <1>1 DEF vars, epoll, server, wire, ListenInv
<1>2. CASE MainStep \/ SignalHandler
  <2>1. UNCHANGED <<ready, batch, spc, missed, backlog>> /\ (running' => running)
    BY <1>2 DEF MainStep, Spawn, JoinClients, JoinGarbage, JoinServer, SignalHandler,
                epoll, server, wire
  <2>. QED
    BY <2>1 DEF ListenInv
<1>3. ASSUME NEW c \in Clients, ClientStep(c) \/ RecvFails(c)
      PROVE  ListenInv'
  <2>1. UNCHANGED <<batch, spc, missed, running>> /\ ready \subseteq ready'
    BY <1>3 DEF ClientStep, Connect, Send, Recv, RecvFails, Close, epoll, server
  <2>2. \/ backlog' = backlog
        \/ Listener \in ready' /\ spc # "setup"
    BY <1>3 DEF ClientStep, Connect, Send, Recv, RecvFails, Close, wire
  <2>. QED
    BY <2>1, <2>2 DEF ListenInv
<1>4. CASE Setup \/ TestRunning \/ EpollFails \/ EndOfBatch
  <2>1. /\ UNCHANGED <<running, ready, batch, missed, backlog>>
        /\ spc \in {"setup", "loop", "wait", "events"} /\ spc' \notin {"setup"}
        /\ batch # {} => spc # "events"
    BY <1>4 DEF Setup, TestRunning, EpollFails, EndOfBatch, epoll, wire
  <2>. QED
    BY <2>1 DEF ListenInv
<1>5. CASE EpollWait
  <2>1. /\ spc = "wait" /\ spc' = "events" /\ UNCHANGED <<running, missed, backlog>>
        /\ batch = {}
    BY <1>5 DEF EpollWait, wire, ListenInv
  <2>2. Listener \in ready /\ backlog # <<>> => event \in batch'
    <3>1. SUFFICES ASSUME Listener \in ready, backlog # <<>> PROVE event \in batch'
      OBVIOUS
    <3>2. event.mask # {}
      OBVIOUS
    <3>. QED
      BY <1>5, <3>1, <3>2 DEF EpollWait
  <2>. QED
    BY <2>1, <2>2 DEF ListenInv
<1>6. CASE StartAccept
  BY <1>6 DEF StartAccept, wire, ListenInv
<1>7. CASE AcceptOne
  BY <1>7 DEF AcceptOne, ListenInv
<1>8. CASE AcceptEnds \/ AcceptFails
  BY <1>8 DEF AcceptEnds, AcceptFails, wire, ListenInv
<1>9. CASE ClientEvent
  <2>1. PICK e \in batch :
          /\ e.fd # Listener /\ spc = "events" /\ UNCHANGED <<spc, running, missed, backlog>>
          /\ batch \ {e} \subseteq batch'
          /\ Lookup(e.fd) # None
          /\ \/ HandleReadEvent(Lookup(e.fd), e.mask \ {"in"})
             \/ HandleWriteEvent(Lookup(e.fd), (e.mask \ {"in"}) \ {"out"})
    BY <1>9 DEF ClientEvent
  <2>2. sfd[Lookup(e.fd)] # Listener
    BY <2>1, LookupFinds DEF ServerInv
  <2>3. Listener \in ready => Listener \in ready'
    BY <2>1, <2>2 DEF HandleReadEvent, HandleWriteEvent, Release, CloseClient
  <2>4. event # e
    BY <2>1
  <2>5. event \in batch => event \in batch'
    BY <2>1, <2>4
  <2>. QED
    BY <2>1, <2>3, <2>5 DEF ListenInv
<1>10. CASE Rearm
  <2>1. spc = "events" /\ UNCHANGED <<batch, spc, running, missed, backlog>> /\ rearm # None
    BY <1>10 DEF Rearm
  <2>2. sfd[rearm] # Listener
    BY <2>1, Names DEF ServerInv, EventInv
  <2>3. Listener \in ready => Listener \in ready'
    BY <1>10, <2>2 DEF Rearm, CloseClient
  <2>. QED
    BY <2>1, <2>3 DEF ListenInv
<1>11. CASE Cleanup
  BY <1>11 DEF Cleanup, ListenInv
<1>. QED
  BY <1>1, <1>2, <1>3, <1>4, <1>5, <1>6, <1>7, <1>8, <1>9, <1>10, <1>11
     DEF Next, ServerStep

\* No connection is forgotten in the backlog by the edge-triggered loop, for
\* any number of clients, slots and descriptors and whatever else fails, except
\* after an error of accept itself: then the edge is lost.
THEOREM BacklogIsReported == Spec => []NoStuckBacklog
<1>1. Init => ListenInv
  BY DEF Init, ListenInv
<1>2. ServerInv /\ ListenInv /\ [Next]_vars => ListenInv'
  BY ListenStep
<1>3. ListenInv => NoStuckBacklog
  BY DEF ListenInv, NoStuckBacklog
<1>. QED
  BY <1>1, <1>2, <1>3, ServerCorrect, PTL DEF Spec
=============================================================================
