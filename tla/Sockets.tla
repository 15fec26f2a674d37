------------------------------ MODULE Sockets ------------------------------
(***************************************************************************)
(* The sockets behind the ring-3 socket calls (network/src/socket.rs and   *)
(* the dispatch_sys_* functions of scheduler/userspace.rs).  A stream      *)
(* connection is a pair of sockets that name each other as peer; sending   *)
(* appends to the peer's receive buffer.  connect makes the second socket  *)
(* itself and leaves it in the listener's accept queue.                    *)
(*                                                                         *)
(* Every call runs with interrupts masked and is one step.  Of an address  *)
(* only the port is compared; a byte is modelled by the socket it was sent *)
(* from.  The two stored options have no effect and are left out, and so   *)
(* is shut_rd, which decides only what recv answers when it finds nothing. *)
(***************************************************************************)
EXTENDS Integers, Sequences, FiniteSets

CONSTANTS
    MaxHandle,      \* bound on NEXT_HANDLE
    MaxCreated,     \* bound on the handles that socket(2) may take
    MaxCalls,       \* bound on the calls that Counted marks
    Ports,          \* ports that are bound or connected to
    Capacity,       \* SOCKET_BUF_CAP
    None

Handles == 1..MaxHandle
Types == {"stream", "datagram"}

VARIABLES
    socks,          \* SOCKETS
    queues,         \* ACCEPT_QUEUE
    nextHandle,     \* NEXT_HANDLE
    held,           \* handles in RING3_FD_TABLE
    orphans,        \* history: connections whose listener was closed before
                    \* they were accepted
    pairs,          \* history: the pairs of sockets that connect has joined
    calls           \* calls that Counted marks

vars == <<socks, queues, nextHandle, held, orphans, pairs, calls>>

Live == {h \in Handles : socks[h] # None}
InQueue(h) == IF queues[h] = None THEN <<>> ELSE queues[h]
Queued == {q \in Handles : \E h \in Handles : \E i \in DOMAIN InQueue(h) : InQueue(h)[i] = q}

Socket(type, state, port, peer) ==
    [type |-> type, state |-> state, port |-> port, peer |-> peer,
     buf |-> <<>>, shutWr |-> FALSE]

Init ==
    /\ socks = [h \in Handles |-> None]
    /\ queues = [h \in Handles |-> None]
    /\ nextHandle = 1
    /\ held = {}
    /\ orphans = {}
    /\ pairs = {}
    /\ calls = 0

\* Calls that could go on for ever without using up handles are bounded.
Counted == calls < MaxCalls /\ calls' = calls + 1

-----------------------------------------------------------------------------
(* Set-up *)

\* socket(2).  A socket that gets no descriptor (EMFILE) is closed again; its
\* number is then never seen, and the model hands it out again.
Create(type) ==
    /\ nextHandle <= MaxCreated
    /\ nextHandle' = nextHandle + 1
    /\ socks' = [socks EXCEPT ![nextHandle] = Socket(type, "closed", None, None)]
    /\ held' = held \cup {nextHandle}
    /\ UNCHANGED <<queues, orphans, pairs, calls>>

\* Whatever the socket was, and whether or not the port is taken.
Bind(h, p) ==
    /\ h \in held
    /\ socks' = [socks EXCEPT ![h].port = p, ![h].state = "bound"]
    /\ Counted
    /\ UNCHANGED <<queues, nextHandle, held, orphans, pairs>>

Listen(h) ==
    /\ h \in held
    /\ socks' = [socks EXCEPT ![h].state = "listening"]
    /\ queues' = [queues EXCEPT ![h] = InQueue(h)]
    /\ Counted
    /\ UNCHANGED <<nextHandle, held, orphans, pairs>>

Ephemeral(h) == 49152 + (h % 16384)

\* Listeners that h reaches at port p, once it is itself Connected.
Listeners(h, p) ==
    {l \in Live \ {h} : /\ socks[l].state = "listening"
                        /\ socks[l].type = socks[h].type
                        /\ socks[l].port = p}

\* The first match in the order of the map.
First(S) == CHOOSE l \in S : \A m \in S : l <= m

\* Fault: the accepted side is paired with the listener.
PairedWithListener(h, l) == l

\* peer_handle of the socket that connect makes for the accepted side.
PeerOfAccepted(h, l) == h

Connect(h, p) ==
    LET client == [socks[h] EXCEPT !.state = "connected",
                                   !.port = IF @ = None THEN Ephemeral(h) ELSE @]
        reached == Listeners(h, p)
        l == First(reached)
        peer == nextHandle
    IN
    /\ h \in held
    /\ \/ /\ reached = {}
          /\ socks' = [socks EXCEPT ![h] = client]
          /\ Counted
          /\ UNCHANGED <<queues, nextHandle, pairs>>
       \/ /\ reached # {}
          /\ peer \in Handles
          /\ nextHandle' = nextHandle + 1
          /\ socks' = [socks EXCEPT
               ![h] = [client EXCEPT !.peer = peer],
               ![peer] = Socket(client.type, "connected", socks[l].port,
                                PeerOfAccepted(h, l))]
          /\ queues' = [queues EXCEPT ![l] = Append(InQueue(l), peer)]
          /\ pairs' = pairs \cup {{h, peer}}
          /\ UNCHANGED calls
    /\ UNCHANGED <<held, orphans>>

\* Fault: the socket stays when there is no descriptor for it.
LeftOpen(h) == socks

\* What accept does with a connection that gets no descriptor.
Refused(h) == [socks EXCEPT ![h] = None]

\* The newest connection is taken from the queue.
Accept(h) ==
    LET q == InQueue(h)
        peer == q[Len(q)]
    IN
    /\ h \in held
    /\ q # <<>>
    /\ queues' = [queues EXCEPT ![h] = SubSeq(q, 1, Len(q) - 1)]
    /\ \/ held' = held \cup {peer} /\ UNCHANGED socks
       \/ socks' = Refused(peer) /\ UNCHANGED held
    /\ UNCHANGED <<nextHandle, orphans, pairs, calls>>

-----------------------------------------------------------------------------
(* Transfer *)

Min(m, n) == IF m <= n THEN m ELSE n

Room(h) == Capacity - Len(socks[h].buf)

\* n bytes of h at the end of the buffer of t.
Deposit(h, t, n) ==
    socks' = [socks EXCEPT ![t].buf = @ \o [i \in 1..Min(n, Room(t)) |-> h]]

\* send passes its checks on h; what is left to fail is the peer.
MaySend(h) ==
    /\ socks[h].state = "connected" /\ ~socks[h].shutWr
    /\ socks[h].peer # None /\ socks[h].peer \in Live

Send(h, n) ==
    /\ h \in held
    /\ MaySend(h)
    /\ Room(socks[h].peer) > 0
    /\ Deposit(h, socks[h].peer, n)
    /\ UNCHANGED <<queues, nextHandle, held, orphans, pairs, calls>>

\* sendto with an address: the first datagram socket at the port, from any
\* datagram socket.
SendTo(h, p, n) ==
    LET targets == {t \in Live : socks[t].type = "datagram" /\ socks[t].port = p} IN
    /\ h \in held /\ socks[h].type = "datagram"
    /\ targets # {}
    /\ Room(First(targets)) > 0
    /\ Deposit(h, First(targets), n)
    /\ UNCHANGED <<queues, nextHandle, held, orphans, pairs, calls>>

Recv(h, n) ==
    /\ h \in held
    /\ socks[h].buf # <<>>
    /\ socks' = [socks EXCEPT ![h].buf = SubSeq(@, Min(n, Len(@)) + 1, Len(@))]
    /\ UNCHANGED <<queues, nextHandle, held, orphans, pairs, calls>>

-----------------------------------------------------------------------------
(* The end *)

\* SHUT_WR or SHUT_RDWR.
Shutdown(h) ==
    /\ h \in held
    /\ socks' = [socks EXCEPT ![h].shutWr = TRUE]
    /\ Counted
    /\ UNCHANGED <<queues, nextHandle, held, orphans, pairs>>

\* The peer keeps its handle and is told nothing; connections that wait in the
\* queue of a listener stay in the table.
Close(h) ==
    /\ h \in held
    /\ held' = held \ {h}
    /\ socks' = [socks EXCEPT ![h] = None]
    /\ queues' = IF socks[h].state = "listening" THEN [queues EXCEPT ![h] = None] ELSE queues
    /\ orphans' = orphans \cup {InQueue(h)[i] : i \in DOMAIN InQueue(h)}
    /\ Counted
    /\ UNCHANGED <<nextHandle, pairs>>

Next ==
    \/ \E type \in Types : Create(type)
    \/ \E h \in Handles, p \in Ports : Bind(h, p) \/ Connect(h, p)
    \/ \E h \in Handles : Listen(h) \/ Accept(h) \/ Shutdown(h) \/ Close(h)
    \/ \E h \in Handles, n \in 1..Capacity : Send(h, n) \/ Recv(h, n)
    \/ \E h \in Handles, p \in Ports, n \in 1..Capacity : SendTo(h, p, n)

Spec == Init /\ [][Next]_vars

-----------------------------------------------------------------------------
(* Properties *)

\* Every socket in the table has a descriptor, waits in one accept queue, or
\* was left behind by a listener that was closed; it is never handed out twice,
\* and no descriptor or queue of an open listener names a socket that is gone.
\* So no call, and no accept that fails for want of a descriptor, loses one.
HandlesAccounted ==
    /\ held \subseteq Live
    /\ Queued \cap held = {}
    /\ Queued \subseteq Live
    /\ Live \subseteq held \cup Queued \cup orphans
    /\ \A h, g \in Handles : \A i \in DOMAIN InQueue(h), j \in DOMAIN InQueue(g) :
         InQueue(h)[i] = InQueue(g)[j] => h = g /\ i = j

\* The connections of one listener and port are never mixed: every byte in the
\* buffer of a stream socket was sent by a socket that connect has joined with
\* it, whatever was connected again, refused, left unaccepted or closed.
PairPrivate ==
    \A h \in Live :
      socks[h].type = "stream" =>
        \A i \in DOMAIN socks[h].buf : {h, socks[h].buf[i]} \in pairs
=============================================================================
