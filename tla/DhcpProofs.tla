----------------------------- MODULE DhcpProofs -----------------------------
(***************************************************************************)
(* Proofs about Dhcp for every set of addresses, every number of attempts  *)
(* and of runs, every length of the receive queue and any replies.         *)
(***************************************************************************)
EXTENDS Dhcp, SequenceTheorems, TLAPS

\* What can arrive in wait w.
Arriving(w) == [type : {"offer", "ack", "nak"}, addr : Addresses, wait : {w}]

\* The attempt has taken an offer, in wait w, and nothing else.
Offered(w) == w \in Nat \ {0} /\ \E a \in Addresses : taken = <<Reply("offer", a, w)>>

\* The attempt that configured the address.
Leased ==
    ip # Static => \E a \in Addresses, w \in 1..waits :
                     lease = <<Reply("offer", a, w), Reply("ack", ip, w + 1)>>

\* The port is open exactly while the client waits and holds what arrived in this
\* wait; before the request and before the acknowledgement the attempt has taken
\* the offer of the wait that just ended, or of the one before.
Inv ==
    /\ waits \in Nat
    /\ port \in Seq(Arriving(waits))
    /\ (bound <=> Waiting)
    /\ ~bound => port = <<>>
    /\ pc = "offer" => waits # 0 /\ taken = <<>>
    /\ pc = "request" => Offered(waits)
    /\ pc = "ack" => Offered(waits - 1)
    /\ Leased

LEMMA InitInv == Init => Inv
  <1> SUFFICES ASSUME Init PROVE Inv
    OBVIOUS
  <1>1. port \in Seq(Arriving(waits)) /\ (bound <=> Waiting)
    BY EmptySeq DEF Init, Waiting
  <1> QED BY <1>1 DEF Init, Inv, Leased

LEMMA StartInv == ASSUME Inv, Start PROVE Inv'
  BY DEF Start, Inv, Waiting, Leased, Offered

\* A configured address stays leased while waits are counted.
LEMMA LeaseKept ==
    ASSUME waits \in Nat, waits' \in {waits, waits + 1}, Leased, UNCHANGED <<ip, lease>>
    PROVE  Leased'
  <1> SUFFICES ASSUME ip # Static
               PROVE  \E a \in Addresses, w \in 1..waits' :
                        lease = <<Reply("offer", a, w), Reply("ack", ip, w + 1)>>
    BY DEF Leased
  <1>1. PICK a \in Addresses, w \in 1..waits :
               lease = <<Reply("offer", a, w), Reply("ack", ip, w + 1)>>
    BY DEF Leased
  <1>2. w \in 1..waits'
    OBVIOUS
  <1> QED BY <1>1, <1>2

\* The port is empty before it is bound: a wait begins with nothing queued.
LEMMA BindInv ==
    ASSUME Inv, ~Waiting, Bind, waits' = waits + 1, UNCHANGED <<ip, lease>>
    PROVE  /\ waits' \in Nat \ {0} /\ bound' = TRUE
           /\ port' \in Seq(Arriving(waits'))
           /\ Leased'
  <1>1. port' = <<>> /\ waits' \in Nat \ {0} /\ bound' = TRUE
    BY DEF Inv, Bind
  <1>2. Leased'
    BY LeaseKept DEF Inv
  <1>3. port' \in Seq(Arriving(waits'))
    BY <1>1, EmptySeq
  <1> QED BY <1>1, <1>2, <1>3

LEMMA SendDiscoverInv == ASSUME Inv, SendDiscover PROVE Inv'
  <1>1. /\ ~Waiting /\ Bind /\ waits' = waits + 1 /\ UNCHANGED <<ip, lease>>
        /\ pc' = "offer" /\ taken' = <<>>
    BY DEF SendDiscover, Waiting
  <1>2. /\ waits' \in Nat \ {0} /\ bound' = TRUE
        /\ port' \in Seq(Arriving(waits')) /\ Leased'
    BY <1>1, BindInv
  <1> QED BY <1>1, <1>2 DEF Inv, Waiting

LEMMA SendRequestInv == ASSUME Inv, SendRequest PROVE Inv'
  <1>1. /\ ~Waiting /\ Bind /\ waits' = waits + 1 /\ UNCHANGED <<ip, lease, taken>>
        /\ pc = "request" /\ pc' = "ack"
    BY DEF SendRequest, Waiting
  <1>2. /\ waits' \in Nat \ {0} /\ bound' = TRUE
        /\ port' \in Seq(Arriving(waits')) /\ Leased'
    BY <1>1, BindInv
  <1>3. Offered(waits) /\ waits' - 1 = waits
    BY <1>1 DEF Inv
  <1>4. Offered(waits - 1)'
    BY <1>1, <1>3 DEF Offered
  <1> QED BY <1>1, <1>2, <1>4 DEF Inv, Waiting

LEMMA AppendToOne == ASSUME NEW x, NEW y PROVE Append(<<x>>, y) = <<x, y>>
  <1> DEFINE S == {x, y}
             s == Append(<<x>>, y)
             t == <<x, y>>
  <1>1. <<x>> \in Seq(S) /\ Len(<<x>>) = 1 /\ <<x>>[1] = x
    OBVIOUS
  <1>2. s \in Seq(S) /\ Len(s) = 2 /\ s[1] = x /\ s[2] = y
    BY <1>1, AppendProperties
  <1>3. t \in Seq(S) /\ Len(t) = 2 /\ t[1] = x /\ t[2] = y
    OBVIOUS
  <1>4. \A i \in 1..Len(s) : s[i] = t[i]
    <2>1. \A i \in 1..2 : i = 1 \/ i = 2
      OBVIOUS
    <2> QED BY <1>2, <1>3, <2>1
  <1> HIDE DEF s, t
  <1>5. s = t
    BY <1>2, <1>3, <1>4, SeqEqual
  <1> QED BY <1>5 DEF s, t

\* The end of a wait leaves the port empty.
LEMMA ClosedInv ==
    ASSUME Inv, UNCHANGED waits, bound' = FALSE, port' = <<>>,
           pc' \in {"idle", "discover", "request"},
           pc' = "request" => Offered(waits)', Leased'
    PROVE  Inv'
  <1>1. port' \in Seq(Arriving(waits')) /\ (bound' <=> Waiting')
    BY EmptySeq DEF Waiting
  <1> QED BY <1>1 DEF Inv

\* The only step that takes a reply, and the only one that configures an address:
\* what it takes is the first in the port, of the type the client waits for.
LEMMA ReceiveInv == ASSUME Inv, Receive PROVE Inv'
  <1> DEFINE m == port[1]
  <1>1. /\ port # <<>> /\ Waiting /\ UNCHANGED waits
        /\ \/ port' = Tail(port) /\ UNCHANGED <<pc, bound, ip, taken, lease>>
           \/ /\ m.type = "offer" /\ pc = "offer" /\ pc' = "request"
              /\ bound' = FALSE /\ port' = <<>>
              /\ taken' = Append(taken, m) /\ UNCHANGED <<ip, lease>>
           \/ /\ m.type = "ack" /\ pc = "ack" /\ pc' = "idle"
              /\ bound' = FALSE /\ port' = <<>>
              /\ ip' = m.addr /\ lease' = Append(taken, m)
    BY DEF Receive, Unbind, Expected
  <1>2. m \in Arriving(waits)
    <2>1. port \in Seq(Arriving(waits)) /\ Len(port) \in Nat \ {0}
      BY <1>1, EmptySeq DEF Inv
    <2>2. 1 \in 1..Len(port)
      BY <2>1
    <2> QED BY <2>1, <2>2, ElementOfSeq
  <1>3. m = Reply(m.type, m.addr, waits) /\ m.addr \in Addresses
    BY <1>2 DEF Arriving, Reply
  <1> HIDE DEF m
  <1>4. CASE port' = Tail(port) /\ UNCHANGED <<pc, bound, ip, taken, lease>>
    <2>1. port' \in Seq(Arriving(waits))
      BY <1>1, <1>4, HeadTailProperties DEF Inv
    <2> QED BY <1>1, <1>4, <2>1 DEF Inv, Waiting, Leased, Offered
  <1>5. CASE /\ m.type = "offer" /\ pc = "offer" /\ pc' = "request"
             /\ bound' = FALSE /\ port' = <<>>
             /\ taken' = Append(taken, m) /\ UNCHANGED <<ip, lease>>
    <2>1. taken' = <<m>> /\ waits \in Nat \ {0}
      BY <1>5 DEF Inv
    <2>2. Offered(waits)'
      BY <1>1, <1>3, <1>5, <2>1 DEF Offered
    <2>3. Leased'
      BY <1>1, <1>5, LeaseKept DEF Inv
    <2> QED BY <1>1, <1>5, <2>2, <2>3, ClosedInv
  <1>6. CASE /\ m.type = "ack" /\ pc = "ack" /\ pc' = "idle"
             /\ bound' = FALSE /\ port' = <<>>
             /\ ip' = m.addr /\ lease' = Append(taken, m)
    <2>1. PICK a \in Addresses : taken = <<Reply("offer", a, waits - 1)>>
      BY <1>6 DEF Inv, Offered
    <2>2. waits \in Nat /\ waits - 1 \in Nat \ {0}
      BY <1>6 DEF Inv, Offered
    <2>3. waits - 1 \in 1..waits /\ (waits - 1) + 1 = waits
      BY <2>2
    <2>4. lease' = <<Reply("offer", a, waits - 1), Reply("ack", ip', (waits - 1) + 1)>>
      <3>1. m = Reply("ack", ip', (waits - 1) + 1)
        BY <1>3, <1>6, <2>3
      <3>2. lease' = Append(<<Reply("offer", a, waits - 1)>>, m)
        BY <1>6, <2>1
      <3> QED BY <3>1, <3>2, AppendToOne
    <2>5. Leased'
      BY <1>1, <2>3, <2>4 DEF Leased
    <2> QED BY <1>1, <1>6, <2>5, ClosedInv
  <1> QED BY <1>1, <1>4, <1>5, <1>6

LEMMA TimeoutInv == ASSUME Inv, Timeout PROVE Inv'
  <1>1. /\ pc' \in {"idle", "discover"} /\ bound' = FALSE /\ port' = <<>>
        /\ UNCHANGED <<ip, waits, lease>>
    BY DEF Timeout, Unbind
  <1>2. Leased'
    BY <1>1, LeaseKept DEF Inv
  <1> QED BY <1>1, <1>2, ClosedInv

LEMMA DeliverInv ==
    ASSUME Inv, NEW t \in {"offer", "ack", "nak"}, NEW a \in Addresses, Deliver(t, a)
    PROVE  Inv'
  <1> DEFINE m == Reply(t, a, waits)
             q == Append(port, m)
  <1>1. m \in Arriving(waits)
    BY DEF Arriving, Reply
  <1>2. q \in Seq(Arriving(waits)) /\ q # <<>>
    BY <1>1 DEF Inv
  <1>3. /\ bound /\ UNCHANGED <<pc, bound, ip, waits, taken, lease>>
        /\ port' = q \/ port' = Tail(q)
    BY DEF Deliver
  <1> HIDE DEF q, m
  <1>4. port' \in Seq(Arriving(waits))
    BY <1>2, <1>3, HeadTailProperties
  <1> QED BY <1>3, <1>4 DEF Inv, Waiting, Leased, Offered

\* The invariant of the client and its port.
THEOREM SpecInv == Spec => []Inv
  <1>1. ASSUME Inv, [Next]_vars PROVE Inv'
    <2>1. CASE Start \/ SendDiscover \/ SendRequest \/ Receive \/ Timeout
      BY <1>1, <2>1, StartInv, SendDiscoverInv, SendRequestInv, ReceiveInv, TimeoutInv
    <2>2. ASSUME NEW t \in {"offer", "ack", "nak"}, NEW a \in Addresses, Deliver(t, a)
          PROVE  Inv'
      BY <1>1, <2>2, DeliverInv
    <2>3. CASE UNCHANGED vars
      BY <1>1, <2>3 DEF vars, Inv, Waiting, Leased, Offered
    <2> QED BY <1>1, <2>1, <2>2, <2>3 DEF Next
  <1> QED BY <1>1, InitInv, PTL DEF Spec

\* Whatever replies come and when, an address is configured only from an
\* acknowledgement that arrived in the wait that followed the REQUEST, itself
\* made for an offer of the wait before (discover_and_apply).
THEOREM ConfiguredIsFresh == Spec => []AddressAcknowledged
  <1>1. ASSUME Inv PROVE AddressAcknowledged
    <2>1. ASSUME NEW i \in DOMAIN port PROVE port[i].wait = waits
      <3>1. port[i] \in Arriving(waits)
        BY <1>1, <2>1, ElementOfSeq DEF Inv
      <3> QED BY <3>1 DEF Arriving
    <2> QED BY <1>1, <2>1 DEF Inv, Leased, AddressAcknowledged
  <1> QED BY <1>1, SpecInv, PTL

\* No reply is queued while the client does not wait for one (bind, unbind).
THEOREM PortEmptyBetweenWaits == Spec => []NothingLeftOver
  <1>1. Inv => NothingLeftOver
    BY DEF Inv, NothingLeftOver
  <1> QED BY <1>1, SpecInv, PTL
=============================================================================
