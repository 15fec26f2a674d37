-------------------------------- MODULE Dhcp --------------------------------
(***************************************************************************)
(* The DHCP client (net/dhcp.rs) over UDP port 68 (net/udp.rs).  Any reply *)
(* can come at any time: late, twice, for a request of an earlier attempt  *)
(* or of another host (every transaction has the same id, and neither the  *)
(* address nor the hardware address of a reply is compared).  A reply      *)
(* arrives when poll_rx hands it to process_incoming.  One call of         *)
(* discover_and_apply runs at a time.                                      *)
(***************************************************************************)
EXTENDS Naturals, Sequences

CONSTANTS
    Addresses,
    Static,         \* the address configured before DHCP
    MaxAttempts,    \* MAX_ATTEMPTS
    MaxRuns,        \* bound on discover_and_apply calls: at boot, from the terminal
    MaxQueue        \* 64

VARIABLES
    pc,             \* where the client is; "idle" between calls
    attempt, runs,
    port,           \* the receive queue of port 68
    bound,
    ip,             \* the configured address
    waits,          \* history: calls of wait_for_dhcp_reply
    taken,          \* history: the replies this attempt has taken
    lease           \* history: those of the attempt that configured ip

vars == <<pc, attempt, runs, port, bound, ip, waits, taken, lease>>

\* A reply and the wait in which it arrived.
Reply(t, a, w) == [type |-> t, addr |-> a, wait |-> w]

Init ==
    /\ pc = "idle" /\ attempt = 0 /\ runs = 0
    /\ port = <<>> /\ bound = FALSE
    /\ ip = Static
    /\ waits = 0 /\ taken = <<>> /\ lease = <<>>

-----------------------------------------------------------------------------
(* The client *)

Start ==
    /\ pc = "idle" /\ runs < MaxRuns
    /\ runs' = runs + 1
    /\ attempt' = 0
    /\ pc' = "discover"
    /\ UNCHANGED <<port, bound, ip, waits, taken, lease>>

\* bind: a queue that is there is kept.
Bind == bound' = TRUE /\ UNCHANGED port

\* DISCOVER goes out before the port is bound (wait_for_dhcp_reply).
SendDiscover ==
    /\ pc = "discover"
    /\ Bind
    /\ pc' = "offer"
    /\ waits' = waits + 1
    /\ taken' = <<>>
    /\ UNCHANGED <<attempt, runs, ip, lease>>

\* So does REQUEST, for the address of the offer.
SendRequest ==
    /\ pc = "request"
    /\ Bind
    /\ pc' = "ack"
    /\ waits' = waits + 1
    /\ UNCHANGED <<attempt, runs, ip, taken, lease>>

Waiting == pc \in {"offer", "ack"}

\* parse_dhcp_reply: the transaction id always matches.
Expected(m, expected) == m.type = expected

\* Fault: the queue stays for the next bind.
UnbindKeepsQueue == bound' = FALSE /\ UNCHANGED port

\* unbind drops what is queued.
Unbind == bound' = FALSE /\ port' = <<>>

\* recv takes the next datagram; parse_dhcp_reply may not want it.
Receive ==
    LET m == port[1] IN
    /\ Waiting /\ port # <<>>
    /\ \/ /\ ~Expected(m, pc)
          /\ port' = Tail(port)
          /\ UNCHANGED <<pc, bound, ip, taken, lease>>
       \/ /\ Expected(m, pc) /\ pc = "offer"
          /\ Unbind
          /\ taken' = Append(taken, m)
          /\ pc' = "request"
          /\ UNCHANGED <<ip, lease>>
       \/ /\ Expected(m, pc) /\ pc = "ack"
          /\ Unbind
          /\ taken' = Append(taken, m)
          /\ ip' = m.addr
          /\ lease' = taken'
          /\ pc' = "idle"
    /\ UNCHANGED <<attempt, runs, waits>>

\* The polls are used up: the whole cycle again, or the error.
Timeout ==
    /\ Waiting
    /\ Unbind
    /\ attempt' = attempt + 1
    /\ pc' = IF attempt + 1 < MaxAttempts THEN "discover" ELSE "idle"
    /\ UNCHANGED <<runs, ip, waits, taken, lease>>

-----------------------------------------------------------------------------
(* The network *)

\* poll_rx and process_incoming: the oldest datagram makes room.
Deliver(t, a) ==
    LET q == Append(port, Reply(t, a, waits)) IN
    /\ bound
    /\ port' = IF Len(q) > MaxQueue THEN Tail(q) ELSE q
    /\ UNCHANGED <<pc, attempt, runs, bound, ip, waits, taken, lease>>

Next ==
    \/ Start \/ SendDiscover \/ SendRequest \/ Receive \/ Timeout
    \/ \E t \in {"offer", "ack", "nak"}, a \in Addresses : Deliver(t, a)

Spec == Init /\ [][Next]_vars

-----------------------------------------------------------------------------
(* Properties *)

\* Nothing that arrived in one wait is read in another, through timeouts,
\* retries and new runs on the same port; and the configured address is the
\* static one or that of an acknowledgement that arrived after the REQUEST of
\* its attempt was sent, in the wait next to the one whose offer was requested
\* (wait_for_dhcp_reply, bind, unbind, discover_and_apply).
AddressAcknowledged ==
    /\ \A i \in DOMAIN port : port[i].wait = waits
    /\ ip # Static => \E a \in Addresses, w \in 1..waits :
                        lease = <<Reply("offer", a, w), Reply("ack", ip, w + 1)>>

\* Replies are queued only while the client waits (bind, unbind).
NothingLeftOver == ~Waiting => port = <<>>
=============================================================================
