-------------------------------- MODULE Tcp ---------------------------------
(***************************************************************************)
(* The TCP of the kernel (net/tcp.rs) between two hosts, Client connecting *)
(* and Server listening.  Both run it, or one is a foreign host, which     *)
(* numbers its bytes from iss + 1.  The network may lose, duplicate and    *)
(* reorder segments and may deliver a reset at any time.                   *)
(*                                                                         *)
(* A call or an incoming segment is handled under the table's lock and is  *)
(* one step; frames queued by process_segment leave in the same step.      *)
(* Sequence numbers keep their wrapping (SeqMod for 2^32); a payload is    *)
(* one byte, [life, n]: the n-th byte of the sender's connection number    *)
(* `life' for this pair of addresses.  Left out: retx_queue,               *)
(* snd_una and the window, which are written and never consulted, and the  *)
(* checksum.                                                               *)
(***************************************************************************)
EXTENDS Integers, Sequences, FiniteSets, Functions

CONSTANTS
    Client, Server,
    SeqMod,         \* 2^32
    Iss,            \* Iss[x][k]: initial sequence number of x's k-th connection;
                    \* generate_isn keeps them 64000 apart
    MaxSend         \* bound on the bytes the two send

Hosts == {Client, Server}
Peer(x) == IF x = Client THEN Server ELSE Client
Plus(a, b) == (a + b) % SeqMod

VARIABLES
    state,          \* of the connection, "None" without one in the table
    life,           \* connections x has had for this pair of addresses
    sndNxt, rcvNxt,
    got,            \* what has gone into recv_buf
    sent,           \* sent[x][k]: bytes x has sent on its k-th connection
    net,            \* segments in flight
    native          \* the hosts that run this TCP; it never changes

vars == <<state, life, sndNxt, rcvNxt, got, sent, net, native>>

Init ==
    /\ state = [x \in Hosts |-> "None"]
    /\ life = [x \in Hosts |-> 0]
    /\ sndNxt = [x \in Hosts |-> 0]
    /\ rcvNxt = [x \in Hosts |-> 0]
    /\ got = [x \in Hosts |-> <<>>]
    /\ sent = [x \in Hosts |-> [k \in DOMAIN Iss[x] |-> 0]]
    /\ net = {}
    /\ native \in SUBSET Hosts \ {{}}

-----------------------------------------------------------------------------
(* build_segment: SYN segments carry iss, all others snd_nxt, and SYN, FIN   *)
(* and each byte move snd_nxt on by one.                                     *)

Segment(x, flags, seq, ack, data) ==
    [to |-> Peer(x), flags |-> flags, seq |-> seq, ack |-> ack, data |-> data]

Advance(flags, data) ==
    Cardinality(data) + (IF flags \cap {"SYN", "FIN"} # {} THEN 1 ELSE 0)

\* x sends one segment and keeps the numbers nxt and rcv.
Send(x, flags, nxt, rcv, data) ==
    LET seq == IF "SYN" \in flags THEN Iss[x][life'[x]] ELSE nxt IN
    /\ sndNxt' = [sndNxt EXCEPT ![x] = Plus(nxt, Advance(flags, data))]
    /\ rcvNxt' = [rcvNxt EXCEPT ![x] = rcv]
    /\ net' = net \cup {Segment(x, flags, seq, rcv, data)}

SetState(x, s) == state' = [state EXCEPT ![x] = s]

-----------------------------------------------------------------------------
(* Calls *)

\* snd_nxt of a new connection: connect and process_incoming set it behind
\* the SYN, and build_segment moves it again.
FirstNxt(x, k) == IF x \in native THEN Plus(Iss[x][k], 1) ELSE Iss[x][k]

Connect ==
    /\ state[Client] = "None" /\ life[Client] = 0
    /\ life' = [life EXCEPT ![Client] = 1]
    /\ SetState(Client, "SynSent")
    /\ Send(Client, {"SYN"}, FirstNxt(Client, 1), 0, {})
    /\ UNCHANGED <<got, sent>>

AllSent == FoldFunction(LAMBDA f, n : n + FoldFunction(+, 0, f), 0, sent)

SendByte(x) ==
    /\ state[x] \in {"Established", "CloseWait"} /\ AllSent < MaxSend
    /\ UNCHANGED <<state, life, got>>
    /\ sent' = [sent EXCEPT ![x][life[x]] = @ + 1]
    /\ Send(x, {"PSH", "ACK"}, sndNxt[x], rcvNxt[x],
            {[life |-> life[x], n |-> sent[x][life[x]] + 1]})

Close(x) ==
    /\ state[x] # "None"
    /\ \/ /\ state[x] = "Established" /\ SetState(x, "FinWait1")
          /\ Send(x, {"FIN", "ACK"}, sndNxt[x], rcvNxt[x], {})
       \/ /\ state[x] = "CloseWait" /\ SetState(x, "LastAck")
          /\ Send(x, {"FIN", "ACK"}, sndNxt[x], rcvNxt[x], {})
       \/ /\ state[x] \notin {"Established", "CloseWait"} /\ SetState(x, "Closed")
          /\ UNCHANGED <<sndNxt, rcvNxt, net>>
    /\ UNCHANGED <<life, got, sent>>

\* destroy, in any state
Destroy(x) ==
    /\ state[x] # "None"
    /\ SetState(x, "None")
    /\ got' = [got EXCEPT ![x] = <<>>]
    /\ UNCHANGED <<life, sndNxt, rcvNxt, sent, net>>

-----------------------------------------------------------------------------
(* Incoming segments *)

\* A SYN for the listening port and no connection: a new one, for a SYN that
\* arrives late or again as well.
Accept(x, m) ==
    /\ x = Server /\ state[x] = "None" /\ "SYN" \in m.flags
    /\ life[x] + 1 \in DOMAIN Iss[x]
    /\ life' = [life EXCEPT ![x] = @ + 1]
    /\ SetState(x, "SynReceived")
    /\ Send(x, {"SYN", "ACK"}, FirstNxt(x, life[x] + 1), Plus(m.seq, 1), {})
    /\ got' = [got EXCEPT ![x] = <<>>]
    /\ UNCHANGED sent

\* Fault: data is taken whatever its number.
AnySeq(x, m) == m.data # {}

InOrder(x, m) == m.data # {} /\ m.seq = rcvNxt[x]
IsFin(m) == "FIN" \in m.flags

Received(x, m) == IF InOrder(x, m) THEN [got EXCEPT ![x] = Append(@, CHOOSE b \in m.data : TRUE)] ELSE got
Next1(x, m) == IF InOrder(x, m) THEN Plus(rcvNxt[x], 1) ELSE rcvNxt[x]

\* Nothing is sent; rcv_nxt becomes rcv.
Quiet(x, rcv) == rcvNxt' = [rcvNxt EXCEPT ![x] = rcv] /\ UNCHANGED <<sndNxt, net>>
Ack(x, rcv) == Send(x, {"ACK"}, sndNxt[x], rcv, {})

InSynSent(x, m) ==
    /\ state[x] = "SynSent" /\ {"SYN", "ACK"} \subseteq m.flags
    /\ SetState(x, "Established")
    /\ Ack(x, Plus(m.seq, 1))
    /\ UNCHANGED got

\* ack itself is not compared with anything.
HasAck(m) == "ACK" \in m.flags

InSynReceived(x, m) ==
    /\ state[x] = "SynReceived" /\ HasAck(m)
    /\ SetState(x, "Established")
    /\ Quiet(x, rcvNxt[x])
    /\ UNCHANGED got

\* The number of a FIN is not checked.
InEstablished(x, m) ==
    /\ state[x] = "Established"
    /\ got' = Received(x, m)
    /\ \/ /\ IsFin(m)
          /\ SetState(x, "CloseWait")
          /\ Ack(x, Plus(Next1(x, m), 1))
       \/ /\ ~IsFin(m) /\ InOrder(x, m)
          /\ Ack(x, Next1(x, m))
          /\ UNCHANGED state
       \/ /\ ~IsFin(m) /\ ~InOrder(x, m)
          /\ Quiet(x, rcvNxt[x])
          /\ UNCHANGED state

InFinWait1(x, m) ==
    /\ state[x] = "FinWait1" /\ HasAck(m)
    /\ \/ IsFin(m) /\ SetState(x, "TimeWait") /\ Ack(x, Plus(rcvNxt[x], 1))
       \/ ~IsFin(m) /\ SetState(x, "FinWait2") /\ Quiet(x, rcvNxt[x])
    /\ UNCHANGED got

InFinWait2(x, m) ==
    /\ state[x] = "FinWait2"
    /\ \/ /\ IsFin(m) /\ SetState(x, "TimeWait") /\ Ack(x, Plus(rcvNxt[x], 1))
          /\ UNCHANGED got
       \/ /\ ~IsFin(m) /\ got' = Received(x, m) /\ Quiet(x, Next1(x, m))
          /\ UNCHANGED state

InCloseWait(x, m) ==
    /\ state[x] = "CloseWait"
    /\ got' = Received(x, m) /\ Quiet(x, Next1(x, m))
    /\ UNCHANGED state

InLastAck(x, m) ==
    /\ state[x] = "LastAck" /\ HasAck(m)
    /\ SetState(x, "Closed")
    /\ Quiet(x, rcvNxt[x])
    /\ UNCHANGED got

\* process_incoming: a segment that is delivered may arrive again.
ProcessIncoming(m) ==
    \/ Accept(m.to, m)
    \/ /\ \/ InSynSent(m.to, m) \/ InSynReceived(m.to, m) \/ InEstablished(m.to, m)
          \/ InFinWait1(m.to, m) \/ InFinWait2(m.to, m) \/ InCloseWait(m.to, m)
          \/ InLastAck(m.to, m)
       /\ UNCHANGED <<life, sent>>

\* A segment with RST from elsewhere; the other states ignore it.
Reset(x) ==
    /\ state[x] \in {"SynSent", "Established"}
    /\ SetState(x, "Closed")
    /\ UNCHANGED <<life, sndNxt, rcvNxt, got, sent, net>>

Next ==
    /\ \/ Connect
       \/ \E x \in Hosts : SendByte(x) \/ Close(x) \/ Destroy(x) \/ Reset(x)
       \/ \E m \in net : ProcessIncoming(m)
    /\ UNCHANGED native

Spec == Init /\ [][Next]_vars

-----------------------------------------------------------------------------
(* Properties *)

\* The states in which a FIN, whose number is not checked, may have come early.
FinTaken(x) == state[x] \in {"CloseWait", "LastAck", "Closed"}

\* Whatever the network does, and across the wrap of the sequence numbers, the
\* bytes in recv_buf are the first bytes the peer sent on one connection, each
\* once and in order.  After a FIN that overtook data, which moves rcv_nxt past a
\* byte, that one byte can be missing; what follows it is still in order.
StreamFaithful ==
    \A x \in native : \E k \in DOMAIN Iss[Peer(x)] : \E j \in 0..Len(got[x]) :
      /\ \A i \in 1..Len(got[x]) :
            got[x][i] = [life |-> k, n |-> IF i <= j THEN i ELSE i + 1]
      /\ j < Len(got[x]) => FinTaken(x)

\* Once both ends are established and before either has sent anything, each
\* expects the number the other will use ("Our sequence number (next byte to
\* send)", "Next expected receive sequence number").
SequencesAgree ==
    (/\ state[Client] = "Established" /\ state[Server] = "Established"
     /\ \A x \in Hosts : sent[x][life[x]] = 0)
      => \A x \in Hosts : rcvNxt[Peer(x)] = sndNxt[x]
=============================================================================
