-------------------------- MODULE MqttSystemProofs --------------------------
(***************************************************************************)
(* Proofs about MqttSystem, the client together with a broker, for every   *)
(* value of the constants: messages of the broker, then subscriptions,     *)
(* then messages of the application and their packet ids.                  *)
(***************************************************************************)
EXTENDS MqttSystem, MqttClientProofs

USE MaxPacketIdAssumption DEF Ids

-----------------------------------------------------------------------------
(* Packets under way.  The invariants say which kinds of packets are in a  *)
(* queue and in which order.                                               *)

Has(q, kind) == \E k \in 1..Len(q) : q[k].kind = kind

Single(q, kind) == \A j, k \in 1..Len(q) : q[j].kind = kind /\ q[k].kind = kind => j = k

Precede(q, first, last) ==
    \A j, k \in 1..Len(q) : q[j].kind = first /\ q[k].kind = last => j < k

\* What is left of a queue when its connection dies or its head is taken.
Rest(q) == {q, <<>>} \cup (IF q = <<>> THEN {} ELSE {Tail(q)})

\* What queue r, the rest of q, and queue a, q with p at its end, hold.
Shorter(q, r) ==
    /\ \A kind : (Has(r, kind) => Has(q, kind)) /\ (Single(q, kind) => Single(r, kind))
    /\ \A kind, last : Precede(q, kind, last) => Precede(r, kind, last)

Longer(q, p, a) ==
    /\ \A kind : /\ Has(a, kind) <=> Has(q, kind) \/ p.kind = kind
                 /\ Single(q, kind) /\ (p.kind = kind => ~Has(q, kind)) => Single(a, kind)
    /\ \A kind, last :
          kind # last /\ Precede(q, kind, last) /\ (p.kind = kind => ~Has(q, last))
             => Precede(a, kind, last)

\* The empty queue.
LEMMA NoPackets ==
    ASSUME NEW kind, NEW last
    PROVE  ~Has(<<>>, kind) /\ Single(<<>>, kind) /\ Precede(<<>>, kind, last)
BY DEF Has, Single, Precede

\* A queue of one packet.
LEMMA OnePacket ==
    ASSUME NEW p, NEW kind, NEW last, kind # last
    PROVE  /\ Has(<<p>>, kind) <=> p.kind = kind
           /\ Single(<<p>>, kind) /\ Precede(<<p>>, kind, last)
BY DEF Has, Single, Precede

\* The packets behind the head.
LEMMA TailPackets ==
    ASSUME NEW S, NEW q \in Seq(S), q # <<>>
    PROVE  /\ Tail(q) \in Seq(S) /\ Len(Tail(q)) = Len(q) - 1 /\ Len(q) \in Nat \ {0}
           /\ \A k \in 1..Len(Tail(q)) : k + 1 \in 1..Len(q) /\ Tail(q)[k] = q[k + 1]
           /\ Head(q) = q[1] /\ 1 \in 1..Len(q) /\ q[1] \in S
OBVIOUS

\* What is left of a queue holds and orders no more than the queue.
LEMMA RestPackets ==
    ASSUME NEW S, NEW q \in Seq(S), NEW r \in Rest(q)
    PROVE  r \in Seq(S) /\ Shorter(q, r)
<1>1. CASE r = q
  BY <1>1 DEF Shorter
<1>2. CASE r = <<>>
  BY <1>2, NoPackets DEF Shorter
<1>3. CASE q # <<>> /\ r = Tail(q)
  <2>1. /\ Tail(q) \in Seq(S) /\ Len(Tail(q)) = Len(q) - 1 /\ Len(q) \in Nat \ {0}
        /\ \A k \in 1..Len(Tail(q)) : k + 1 \in 1..Len(q) /\ Tail(q)[k] = q[k + 1]
    BY <1>3, TailPackets
  <2>2. ASSUME NEW kind, Has(r, kind) PROVE Has(q, kind)
    BY <1>3, <2>1, <2>2 DEF Has
  <2>3. ASSUME NEW kind, Single(q, kind) PROVE Single(r, kind)
    BY <1>3, <2>1, <2>3 DEF Single
  <2>4. ASSUME NEW kind, NEW last, Precede(q, kind, last) PROVE Precede(r, kind, last)
    BY <1>3, <2>1, <2>4 DEF Precede
  <2> QED
    BY <1>3, <2>1, <2>2, <2>3, <2>4 DEF Shorter
<1> QED
  BY <1>1, <1>2, <1>3 DEF Rest

\* A packet added at the end.
LEMMA AppendPackets ==
    ASSUME NEW S, NEW q \in Seq(S), NEW p \in S
    PROVE  Append(q, p) \in Seq(S) /\ Longer(q, p, Append(q, p))
<1> DEFINE a == Append(q, p)
<1>1. /\ a \in Seq(S) /\ Len(a) = Len(q) + 1 /\ Len(q) \in Nat
      /\ \A k \in 1..Len(q) : a[k] = q[k]
      /\ a[Len(q) + 1] = p
  OBVIOUS
<1> HIDE DEF a
<1>2. \A k \in 1..Len(a) : k \in 1..Len(q) \/ k = Len(q) + 1
  BY <1>1
<1>3. \A k \in 1..Len(q) : k \in 1..Len(a) /\ k < Len(q) + 1
  BY <1>1
<1>4. Len(q) + 1 \in 1..Len(a)
  BY <1>1
<1>5. ASSUME NEW kind PROVE Has(a, kind) <=> Has(q, kind) \/ p.kind = kind
  BY <1>1, <1>2, <1>3, <1>4 DEF Has
<1>6. ASSUME NEW kind, Single(q, kind), p.kind = kind => ~Has(q, kind) PROVE Single(a, kind)
  BY <1>1, <1>2, <1>6 DEF Has, Single
<1>7. ASSUME NEW kind, NEW last, kind # last, Precede(q, kind, last),
             p.kind = kind => ~Has(q, last)
      PROVE  Precede(a, kind, last)
  BY <1>1, <1>2, <1>3, <1>7 DEF Has, Precede
<1> QED
  BY <1>1, <1>5, <1>6, <1>7 DEF a, Longer

\* The head of a queue.
LEMMA HeadPackets ==
    ASSUME NEW S, NEW q \in Seq(S), q # <<>>, NEW kind, NEW first, first # kind,
           Head(q).kind = kind
    PROVE  /\ Has(q, kind)
           /\ Single(q, kind) => ~Has(Tail(q), kind)
           /\ Precede(q, first, kind) => ~Has(q, first)
<1>1. /\ Tail(q) \in Seq(S) /\ Len(Tail(q)) = Len(q) - 1 /\ Len(q) \in Nat \ {0}
      /\ \A k \in 1..Len(Tail(q)) : k + 1 \in 1..Len(q) /\ Tail(q)[k] = q[k + 1]
      /\ Head(q) = q[1] /\ 1 \in 1..Len(q)
  BY TailPackets
<1>2. \A k \in 1..Len(Tail(q)) : k + 1 # 1
  BY <1>1
<1>3. \A k \in 1..Len(q) : ~(k < 1)
  BY <1>1
<1>4. Has(q, kind)
  BY <1>1 DEF Has
<1>5. Single(q, kind) => ~Has(Tail(q), kind)
  BY <1>1, <1>2 DEF Single, Has
<1>6. Precede(q, first, kind) => ~Has(q, first)
  BY <1>1, <1>3 DEF Precede, Has
<1> QED
  BY <1>4, <1>5, <1>6
-----------------------------------------------------------------------------
(* An exchange that the broker starts, as its phase, its QoS, the number n *)
(* of deliveries and whether the client holds the id relate to the packets *)
(* under way: tb to the broker and tc to the client.                       *)

Exchange(tb, tc, phase, qos, n, held) ==
    /\ Single(tc, "PUBLISH") /\ Single(tb, "PUBACK")
    /\ phase = "idle" =>
          /\ ~held /\ ~Has(tc, "PUBLISH") /\ ~Has(tb, "PUBREC") /\ ~Has(tb, "PUBACK")
    /\ phase = "ack" /\ qos = 1 =>
          /\ ~held /\ ~Has(tb, "PUBREC")
          /\ Has(tb, "PUBACK") => n > 0 /\ ~Has(tc, "PUBLISH")
    /\ phase = "ack" /\ qos = 2 =>
          /\ ~Has(tb, "PUBACK")
          /\ \/ /\ n = 0 /\ ~held /\ ~Has(tb, "PUBREC")
                /\ Precede(tc, "PUBREL", "PUBLISH")
             \/ /\ n = 1 /\ held /\ ~Has(tc, "PUBREL")
                /\ Precede(tb, "PUBCOMP", "PUBREC")
    /\ phase = "release" =>
          /\ qos = 2 /\ n = 1 /\ ~Has(tb, "PUBACK")
          /\ Precede(tb, "PUBREC", "PUBCOMP")
          /\ IF held THEN ~Has(tb, "PUBCOMP") /\ Precede(tc, "PUBLISH", "PUBREL")
                     ELSE ~Has(tc, "PUBLISH")

\* Packets that are lost, or that say nothing of the exchange, do not matter.
LEMMA ExchangeRest ==
    ASSUME NEW S, NEW T, NEW tb \in Seq(S), NEW tc \in Seq(T),
           NEW phase, NEW qos, NEW n, NEW held, Exchange(tb, tc, phase, qos, n, held),
           NEW tb2 \in Rest(tb), NEW tc2 \in Rest(tc)
    PROVE  Exchange(tb2, tc2, phase, qos, n, held)
<1>1. Shorter(tb, tb2)
  BY RestPackets
<1>2. Shorter(tc, tc2)
  BY RestPackets
<1> QED
  BY <1>1, <1>2 DEF Exchange, Shorter, Longer

\* A packet of the client that is not an answer.
LEMMA ExchangeSend ==
    ASSUME NEW S, NEW tb \in Seq(S), NEW tc,
           NEW phase, NEW qos, NEW n, NEW held, Exchange(tb, tc, phase, qos, n, held),
           NEW p \in S, p.kind \notin {"PUBACK", "PUBREC", "PUBCOMP"}
    PROVE  Exchange(Append(tb, p), tc, phase, qos, n, held)
<1>1. Longer(tb, p, Append(tb, p))
  BY AppendPackets
<1> QED
  BY <1>1 DEF Exchange, Shorter, Longer

\* A PUBREC for an id that the client holds.
LEMMA ExchangeRepeat ==
    ASSUME NEW S, NEW tb \in Seq(S), NEW tc,
           NEW phase, NEW n, Exchange(tb, tc, phase, 2, n, TRUE),
           NEW p \in S, p.kind = "PUBREC"
    PROVE  Exchange(Append(tb, p), tc, phase, 2, n, TRUE)
<1>1. Longer(tb, p, Append(tb, p))
  BY AppendPackets
<1> QED
  BY <1>1 DEF Exchange, Shorter, Longer

\* The client takes a PUBREL and forgets the id; its PUBCOMP may fail.
LEMMA ExchangeReleased ==
    ASSUME NEW S, NEW T, NEW tb \in Seq(S), NEW tc \in Seq(T),
           NEW phase, NEW qos, NEW n, NEW held, Exchange(tb, tc, phase, qos, n, held),
           tc # <<>>, Head(tc).kind = "PUBREL", NEW tc2 \in Rest(tc),
           NEW tb2, NEW p \in S, p.kind = "PUBCOMP", tb2 \in {tb, Append(tb, p)}
    PROVE  Exchange(tb2, tc2, phase, qos, n, FALSE)
<1>1. Longer(tb, p, Append(tb, p))
  BY AppendPackets
<1>2. Shorter(tc, tc2)
  BY RestPackets
<1>3. Has(tc, "PUBREL") /\ (Precede(tc, "PUBLISH", "PUBREL") => ~Has(tc, "PUBLISH"))
  BY HeadPackets
<1>4. Exchange(tb, tc2, phase, qos, n, FALSE)
  BY <1>2, <1>3 DEF Exchange, Shorter, Longer
<1>5. Exchange(Append(tb, p), tc2, phase, qos, n, FALSE)
  BY <1>1, <1>2, <1>3 DEF Exchange, Shorter, Longer
<1> QED
  BY <1>4, <1>5

\* Nothing is out of order with a kind of packet that is not there.
LEMMA PrecedeNone ==
    ASSUME NEW q, NEW first, NEW last, ~Has(q, first) \/ ~Has(q, last)
    PROVE  Precede(q, first, last)
BY DEF Has, Precede

\* The client delivers a QoS 1 message and answers.
LEMMA ExchangeDeliver1 ==
    ASSUME NEW S, NEW T, NEW tb \in Seq(S), NEW tc \in Seq(T),
           NEW n, NEW held, Exchange(tb, tc, "ack", 1, n, held),
           tc # <<>>, Head(tc).kind = "PUBLISH", NEW tc2, tc2 \in {Tail(tc), <<>>},
           NEW p \in S, p.kind = "PUBACK", NEW m, m > 0
    PROVE  Exchange(tb, tc2, "ack", 1, m, held) /\ Exchange(Append(tb, p), tc2, "ack", 1, m, held)
<1>1. Longer(tb, p, Append(tb, p))
  BY AppendPackets
<1>2. Has(tc, "PUBLISH") /\ (Single(tc, "PUBLISH") => ~Has(Tail(tc), "PUBLISH"))
  BY HeadPackets
<1>3. Single(tc, "PUBLISH") => ~Has(tc2, "PUBLISH")
  BY <1>2, NoPackets
<1>4. Single(tc2, "PUBLISH")
  <2>1. tc2 \in Rest(tc)
    BY DEF Rest
  <2> QED
    BY <2>1, RestPackets DEF Exchange, Shorter, Longer
<1>5. Exchange(tb, tc2, "ack", 1, m, held)
  BY <1>2, <1>3, <1>4 DEF Exchange
<1>6. Exchange(Append(tb, p), tc2, "ack", 1, m, held)
  <2>1. Single(Append(tb, p), "PUBACK")
    BY <1>1, <1>2 DEF Exchange, Longer
  <2>2. ~Has(tb, "PUBREC") => ~Has(Append(tb, p), "PUBREC")
    BY <1>1 DEF Longer
  <2> QED
    BY <1>2, <1>3, <1>4, <2>1, <2>2 DEF Exchange
<1> QED
  BY <1>5, <1>6

\* The client answers a QoS 2 message, and delivers it unless it holds the id.
LEMMA ExchangeDeliver2 ==
    ASSUME NEW S, NEW T, NEW tb \in Seq(S), NEW tc \in Seq(T),
           NEW n, Exchange(tb, tc, "ack", 2, n, FALSE),
           tc # <<>>, Head(tc).kind = "PUBLISH", NEW tc2 \in Rest(tc),
           NEW p \in S, p.kind = "PUBREC"
    PROVE  /\ n = 0
           /\ Exchange(tb, tc2, "ack", 2, 1, TRUE)
           /\ Exchange(Append(tb, p), tc2, "ack", 2, 1, TRUE)
<1>1. Longer(tb, p, Append(tb, p))
  BY AppendPackets
<1>2. Shorter(tc, tc2)
  BY RestPackets
<1>3. Has(tc, "PUBLISH") /\ (Precede(tc, "PUBREL", "PUBLISH") => ~Has(tc, "PUBREL"))
  BY HeadPackets
<1>4. n = 0 /\ ~Has(tb, "PUBREC") /\ ~Has(tc, "PUBREL")
  BY <1>3 DEF Exchange
<1>5. Precede(tb, "PUBCOMP", "PUBREC")
  BY <1>4, PrecedeNone
<1>6. Exchange(tb, tc2, "ack", 2, 1, TRUE)
  BY <1>2, <1>4, <1>5 DEF Exchange, Shorter
<1>7. Exchange(Append(tb, p), tc2, "ack", 2, 1, TRUE)
  BY <1>1, <1>2, <1>4, <1>5 DEF Exchange, Shorter, Longer
<1> QED
  BY <1>4, <1>6, <1>7

\* The broker takes a PUBREC and sends PUBREL, when there is a connection.
LEMMA ExchangeRelease ==
    ASSUME NEW S, NEW T, NEW tb \in Seq(S), NEW tc \in Seq(T),
           NEW phase, NEW n, NEW held, Exchange(tb, tc, phase, 2, n, held),
           tb # <<>>, Head(tb).kind = "PUBREC", phase \in {"ack", "release"},
           NEW p \in T, p.kind = "PUBREL"
    PROVE  /\ Exchange(Tail(tb), tc, "release", 2, n, held)
           /\ Exchange(Tail(tb), Append(tc, p), "release", 2, n, held)
<1>1. Longer(tc, p, Append(tc, p))
  BY AppendPackets
<1>2. Tail(tb) \in Rest(tb)
  BY DEF Rest
<1>3. Shorter(tb, Tail(tb))
  BY <1>2, RestPackets
<1>4. Has(tb, "PUBREC") /\ (Precede(tb, "PUBCOMP", "PUBREC") => ~Has(tb, "PUBCOMP"))
  BY HeadPackets
<1>5. \A q, first, last : ~Has(q, first) \/ ~Has(q, last) => Precede(q, first, last)
  BY PrecedeNone
<1>6. n = 1 /\ ~Has(tb, "PUBACK") /\ Precede(tb, "PUBREC", "PUBCOMP")
  BY <1>4, <1>5 DEF Exchange, Shorter, Longer
<1>7. IF held THEN ~Has(tb, "PUBCOMP") /\ Precede(tc, "PUBLISH", "PUBREL")
              ELSE ~Has(tc, "PUBLISH")
  BY <1>4, <1>5 DEF Exchange, Shorter, Longer
<1>8. Single(tc, "PUBLISH") /\ Single(tb, "PUBACK")
  BY DEF Exchange, Shorter, Longer
<1>9. Exchange(Tail(tb), tc, "release", 2, n, held)
  BY <1>3, <1>6, <1>7, <1>8 DEF Exchange, Shorter, Longer
<1>10. Exchange(Tail(tb), Append(tc, p), "release", 2, n, held)
  BY <1>1, <1>3, <1>6, <1>7, <1>8 DEF Exchange, Shorter, Longer
<1> QED
  BY <1>9, <1>10

\* The broker takes the answer that ends the exchange: the client has
\* delivered the message, and nothing of it is under way.
LEMMA ExchangeEnd ==
    ASSUME NEW S, NEW tb \in Seq(S), NEW tc,
           NEW phase, NEW qos \in 1..2, NEW n, NEW held \in BOOLEAN,
           Exchange(tb, tc, phase, qos, n, held), tb # <<>>,
           <<Head(tb).kind, phase>> \in {<<"PUBACK", "ack">>, <<"PUBCOMP", "release">>}
    PROVE  n > 0 /\ \A q : Exchange(Tail(tb), tc, "idle", q, n, held)
<1>2. Tail(tb) \in Rest(tb)
  BY DEF Rest
<1>3. Shorter(tb, Tail(tb))
  BY <1>2, RestPackets
<1>4. CASE phase = "ack" /\ Head(tb).kind = "PUBACK"
  <2>1. Has(tb, "PUBACK") /\ (Single(tb, "PUBACK") => ~Has(Tail(tb), "PUBACK"))
    BY <1>4, HeadPackets
  <2> QED
    BY <1>3, <1>4, <2>1 DEF Exchange, Shorter, Longer
<1>5. CASE phase = "release" /\ Head(tb).kind = "PUBCOMP"
  <2>1. Has(tb, "PUBCOMP") /\ (Precede(tb, "PUBREC", "PUBCOMP") => ~Has(tb, "PUBREC"))
    BY <1>5, HeadPackets
  <2> QED
    BY <1>3, <1>5, <2>1 DEF Exchange, Shorter, Longer
<1> QED
  BY <1>4, <1>5

\* A packet of the broker that is not part of the exchange.
LEMMA ExchangeReply ==
    ASSUME NEW T, NEW tb, NEW tc \in Seq(T),
           NEW phase, NEW qos, NEW n, NEW held, Exchange(tb, tc, phase, qos, n, held),
           NEW p \in T, p.kind \notin {"PUBLISH", "PUBREL"}
    PROVE  Exchange(tb, Append(tc, p), phase, qos, n, held)
<1>1. Longer(tc, p, Append(tc, p))
  BY AppendPackets
<1> QED
  BY <1>1 DEF Exchange, Shorter, Longer

\* The broker starts an exchange.
LEMMA ExchangeStart ==
    ASSUME NEW T, NEW tb, NEW tc \in Seq(T), NEW qos, NEW q \in 1..2, NEW n, NEW held,
           Exchange(tb, tc, "idle", qos, n, held), NEW p \in T, p.kind = "PUBLISH"
    PROVE  Exchange(tb, Append(tc, p), "ack", q, 0, held)
<1>1. Longer(tc, p, Append(tc, p))
  BY AppendPackets
<1>2. ~Has(tc, "PUBLISH") => Precede(tc, "PUBREL", "PUBLISH")
  BY PrecedeNone
<1> QED
  BY <1>1, <1>2 DEF Exchange, Shorter, Longer

\* The broker takes an exchange up again on a new connection.
LEMMA ExchangeResume ==
    ASSUME NEW tb, NEW tc, NEW phase, NEW qos, NEW n, NEW held \in BOOLEAN,
           Exchange(tb, tc, phase, qos, n, held), NEW p, NEW tc2,
           \/ phase = "idle" /\ tc2 = <<>>
           \/ phase = "ack" /\ tc2 = <<p>> /\ p.kind = "PUBLISH"
           \/ phase = "release" /\ tc2 = <<p>> /\ p.kind = "PUBREL"
    PROVE  Exchange(<<>>, tc2, phase, qos, n, held)
<1>1. \A kind, last : ~Has(<<>>, kind) /\ Single(<<>>, kind) /\ Precede(<<>>, kind, last)
  BY NoPackets
<1>2. \A kind, last : kind # last =>
         /\ Has(<<p>>, kind) <=> p.kind = kind
         /\ Single(<<p>>, kind) /\ Precede(<<p>>, kind, last)
  BY OnePacket
<1>3. CASE phase = "idle"
  BY <1>1, <1>3 DEF Exchange, Shorter, Longer
<1>4. CASE phase = "ack" /\ tc2 = <<p>> /\ p.kind = "PUBLISH"
  BY <1>1, <1>2, <1>4 DEF Exchange, Shorter, Longer
<1>5. CASE phase = "release" /\ tc2 = <<p>> /\ p.kind = "PUBREL"
  BY <1>1, <1>2, <1>5 DEF Exchange, Shorter, Longer
<1> QED
  BY <1>3, <1>4, <1>5
-----------------------------------------------------------------------------
(* The packets themselves, and what the client keeps to send again.        *)

AnswerKinds == {"PUBACK", "PUBREC", "PUBCOMP"}

\* Packets of the client.
Outgoing ==
    {p \in Packets :
        /\ p.kind \in AnswerKinds => p.id = BrokerId
        /\ p.kind \in {"PUBREL", "SUBSCRIBE", "UNSUBSCRIBE"} => p.id \in Ids
        /\ p.kind = "PUBLISH" => p.body \in Msgs /\ (p.qos # 0 => p.id \in Ids)}

\* Packets of the broker.
Incoming ==
    {p \in [kind : AnswerKinds \cup {"PUBREL", "PUBLISH", "SUBACK", "UNSUBACK", "PINGRESP"},
            id : 0..MaxPacketId, qos : 0..2, dup : 0..1, body : Nat \cup {NULL}] :
        /\ p.kind # "PINGRESP" => p.id \in Ids
        /\ p.kind \in {"PUBREL", "PUBLISH"} => p.id = BrokerId
        /\ p.kind = "SUBACK" => p.body \in SubCodes
        /\ p.kind = "PUBLISH" => p.qos \in InQos}

\* A record for PUBREL repeats PUBREC, one of a publication its PUBLISH or
\* PUBREL, and one of a request would repeat the request.
RepeatOK(r) ==
    IF r.type = "PUBREL"
      THEN r = Ack("PUBREL", BrokerId, NULL, Pkt("PUBREC", BrokerId, NULL))
      ELSE /\ r.payload \in Outgoing
           /\ r.payload.kind \in IF r.type \in {"SUBACK", "UNSUBACK"}
                                  THEN {"SUBSCRIBE", "UNSUBSCRIBE"} ELSE {"PUBLISH", "PUBREL"}

RepeatInv == \A r \in acks : RepeatOK(r)

\* The client keeps the id of a QoS 2 message of the broker.
Held == \E r \in acks : r.type = "PUBREL"

\* A step that sends no answer and neither keeps nor forgets such an id.
Aside == /\ out' = NULL \/ (out' \in Outgoing /\ out'.kind \notin AnswerKinds)
         /\ RepeatInv'
         /\ Held' = Held

\* Records come and go, but not those for PUBREL.
LEMMA AsideRecords ==
    ASSUME RepeatInv, \A r \in acks' \ acks : r.type # "PUBREL" /\ RepeatOK(r),
           \A r \in acks \ acks' : r.type # "PUBREL"
    PROVE  RepeatInv' /\ Held' = Held
<1>1. RepeatInv'
  BY DEF RepeatInv, RepeatOK
<1>2. Held' = Held
  BY DEF Held
<1> QED
  BY <1>1, <1>2

\* The packet of a call is one the client sends.
LEMMA CallPacket ==
    ASSUME TypeInv, NEW i \in Users, u[i].pkt.kind \in {"PUBLISH", "SUBSCRIBE", "UNSUBSCRIBE"}
    PROVE  LET p == u[i].pkt
           IN  /\ \A id \in Ids : WithId(p, id) \in Outgoing /\ WithId(p, id).kind = p.kind
               /\ p.kind = "PUBLISH" /\ p.qos = 0 =>
                     WithId(p, 0) \in Outgoing /\ WithId(p, 0).kind = "PUBLISH"
               /\ u[i].pc = "record" => /\ p \in Outgoing
                                        /\ WithDup(p) \in Outgoing /\ WithDup(p).kind = p.kind
<1> DEFINE p == u[i].pkt
<1>1. p \in Packets /\ CallOK(u[i])
  BY DEF TypeInv, CallShape, CallOK, Calls
<1>2. ASSUME NEW id \in Ids PROVE WithId(p, id) \in Outgoing /\ WithId(p, id).kind = p.kind
  BY <1>1 DEF CallOK, WithId, Outgoing, Packets, AnswerKinds
<1>3. p.kind = "PUBLISH" /\ p.qos = 0 => WithId(p, 0) \in Outgoing /\ WithId(p, 0).kind = "PUBLISH"
  BY <1>1 DEF CallOK, WithId, Outgoing, Packets, AnswerKinds
<1>4. u[i].pc = "record" => p \in Outgoing
  BY <1>1 DEF CallOK, Outgoing, Packets, AnswerKinds
<1>5. u[i].pc = "record" => WithDup(p) \in Outgoing /\ WithDup(p).kind = p.kind
  BY <1>1 DEF CallOK, WithDup, Outgoing, Packets, AnswerKinds
<1> QED
  BY <1>2, <1>3, <1>4, <1>5
\* The end of mqtt_subscribe adds no more than the record of its SUBACK.
LEMMA AsideSubscribe ==
    ASSUME RepeatInv, NEW p \in Outgoing, p.kind = "SUBSCRIBE", NEW h, SubscribeRecord(p, h)
    PROVE  RepeatInv' /\ Held' = Held
<1> DEFINE r == Ack("SUBACK", p.id, h, p)
<1>1. r.type = "SUBACK" /\ r.payload = p
  BY AckFields
<1>2. r.type # "PUBREL" /\ RepeatOK(r)
  BY <1>1 DEF RepeatOK, AnswerKinds
<1> HIDE DEF r
<1>3. acks' = acks \/ acks' = acks \cup {r}
  BY DEF SubscribeRecord, AppendRecord, mqtt_ack_list_record, ackVars, r
<1> QED
  BY <1>2, <1>3, AsideRecords

\* The steps of an application call.
LEMMA AsideCall ==
    ASSUME TypeInv, RepeatInv, NEW i \in Users,
           \/ mqtt_request_send(i) \/ mqtt_subscribe_record(i) \/ mqtt_unsubscribe_record(i)
           \/ mqtt_publish_send(i) \/ mqtt_publish_record(i)
           \/ mqtt_publish_release(i) \/ mqtt_publish_disconnected(i)
    PROVE  Aside
<1> USE DEF Aside
<1>0. mqtt_get_next_packet_id \in Ids
  BY NextIdType DEF TypeInv
<1>1. CASE mqtt_request_send(i)
  <2> DEFINE sent == WithId(u[i].pkt, mqtt_get_next_packet_id)
  <2>1. sent.kind \in {"SUBSCRIBE", "UNSUBSCRIBE"} /\ sent.kind = u[i].pkt.kind
    BY <1>1 DEF mqtt_request_send, WithId
  <2>2. sent \in Outgoing /\ sent.kind \notin AnswerKinds
    BY <1>0, <2>1, CallPacket DEF AnswerKinds
  <2>3. out' \in {sent, NULL}
    BY <1>1 DEF mqtt_request_send, mqtt_send_packet
  <2>4. RepeatInv' /\ Held' = Held
    BY <1>1, AsideRecords DEF mqtt_request_send, ackVars
  <2> QED
    BY <2>2, <2>3, <2>4
<1>2. CASE mqtt_subscribe_record(i)
  <2>1. PICK h : SubscribeRecord(u[i].pkt, h)
    BY <1>2 DEF mqtt_subscribe_record
  <2>2. u[i].pkt \in Outgoing /\ u[i].pkt.kind = "SUBSCRIBE"
    BY <1>2, CallPacket DEF mqtt_subscribe_record
  <2>3. RepeatInv' /\ Held' = Held
    BY <2>1, <2>2, AsideSubscribe
  <2> QED
    BY <1>2, <2>3 DEF mqtt_subscribe_record
<1>3. CASE mqtt_unsubscribe_record(i)
  <2> DEFINE p == u[i].pkt
  <2>1. p \in Outgoing /\ p.kind = "UNSUBSCRIBE"
    BY <1>3, CallPacket DEF mqtt_unsubscribe_record
  <2>2. out' = NULL
    BY <1>3 DEF mqtt_unsubscribe_record
  <2>3. CASE acks' = acks
    BY <2>2, <2>3, AsideRecords
  <2>4. ASSUME NEW h, acks' = acks \cup {Ack("UNSUBACK", p.id, h, p)} PROVE Aside
    <3> DEFINE r == Ack("UNSUBACK", p.id, h, p)
    <3>1. r.type = "UNSUBACK" /\ r.payload = p
      BY AckFields
    <3>2. r.type # "PUBREL" /\ RepeatOK(r)
      BY <2>1, <3>1 DEF RepeatOK, AnswerKinds
    <3> QED
      BY <2>2, <2>4, <3>2, AsideRecords
  <2> QED
    BY <1>3, <2>3, <2>4 DEF mqtt_unsubscribe_record, AppendRecord, mqtt_ack_list_record, ackVars
<1>4. CASE mqtt_publish_send(i)
  <2> DEFINE p == u[i].pkt
             sent == WithId(p, IF p.qos = 0 THEN 0 ELSE mqtt_get_next_packet_id)
  <2>1. p.kind = "PUBLISH"
    BY <1>4 DEF mqtt_publish_send
  <2>2. sent \in Outgoing /\ sent.kind \notin AnswerKinds
    BY <1>0, <2>1, CallPacket DEF AnswerKinds
  <2>3. out' \in {sent, NULL}
    BY <1>4 DEF mqtt_publish_send, mqtt_send_packet
  <2>4. RepeatInv' /\ Held' = Held
    BY <1>4, AsideRecords DEF mqtt_publish_send, ackVars
  <2> QED
    BY <2>2, <2>3, <2>4
<1>5. CASE mqtt_publish_record(i)
  <2> DEFINE p == u[i].pkt
             type == IF p.qos = 1 THEN "PUBACK" ELSE "PUBREC"
             r == Ack(type, p.id, NULL, WithDup(p))
  <2>1. WithDup(p) \in Outgoing /\ WithDup(p).kind = "PUBLISH"
    BY <1>5, CallPacket DEF mqtt_publish_record
  <2>2. out' = NULL
    BY <1>5 DEF mqtt_publish_record
  <2>3. r.type = type /\ r.payload = WithDup(p)
    BY AckFields
  <2>4. r.type # "PUBREL" /\ RepeatOK(r)
    BY <2>1, <2>3 DEF RepeatOK, AnswerKinds
  <2>5. acks' = acks \/ acks' = acks \cup {r}
    BY <1>5 DEF mqtt_publish_record, AppendRecord, mqtt_ack_list_record, ackVars
  <2> QED
    BY <2>2, <2>4, <2>5, AsideRecords
<1>6. CASE mqtt_publish_release(i) \/ mqtt_publish_disconnected(i)
  BY <1>6, AsideRecords DEF mqtt_publish_release, mqtt_publish_disconnected, ackVars
<1> QED
  BY <1>1, <1>2, <1>3, <1>4, <1>5, <1>6

\* The steps of the yield thread that neither read a packet nor repeat PUBREC.
LEMMA AsideYield ==
    ASSUME TypeInv, RepeatInv,
           \/ nothing_read \/ mqtt_deliver_message \/ mqtt_keep_alive \/ mqtt_keep_alive_drop
           \/ mqtt_ack_list_scan_destroy \/ mqtt_ack_list_scan_end
           \/ mqtt_reconnect_done \/ mqtt_try_resubscribe \/ mqtt_resubscribed
    PROVE  Aside
<1> USE DEF Aside
<1>1. CASE \/ nothing_read \/ mqtt_deliver_message
           \/ mqtt_keep_alive_drop \/ mqtt_ack_list_scan_end
           \/ mqtt_reconnect_done \/ mqtt_resubscribed
  <2>1. acks' = acks /\ out' = NULL
    BY <1>1 DEF nothing_read, mqtt_deliver_message, mqtt_keep_alive_drop, mqtt_ack_list_scan_end,
       mqtt_reconnect_done, mqtt_resubscribed, ackVars
  <2> QED
    BY <2>1, AsideRecords
<1>2. CASE mqtt_keep_alive
  <2> DEFINE p == Pkt("PINGREQ", 0, NULL)
  <2>1. acks' = acks /\ out' \in {p, NULL}
    BY <1>2 DEF mqtt_keep_alive, mqtt_send_packet, ackVars
  <2>2. p \in Outgoing /\ p.kind \notin AnswerKinds
    BY DEF Pkt, Outgoing, Packets, Kinds, AnswerKinds
  <2> QED
    BY <2>1, <2>2, AsideRecords
<1>3. CASE mqtt_ack_list_scan_destroy
  <2>1. out' = NULL /\ \E r \in acks : acks' = acks \ {r} /\ r.type \in {"SUBACK", "UNSUBACK"}
    BY <1>3 DEF mqtt_ack_list_scan_destroy, TypeInv, TypeOK
  <2> QED
    BY <2>1, AsideRecords
<1>4. CASE mqtt_try_resubscribe
  <2>1. PICK h \in resub :
           LET p == Pkt("SUBSCRIBE", mqtt_get_next_packet_id, mem[h])
           IN  /\ out' \in {p, NULL} /\ y = "resub"
               /\ acks' = acks \/ \E g \in HandlerAlloc : SubscribeRecord(p, g)
    BY <1>4 DEF mqtt_try_resubscribe, mqtt_send_packet, ackVars
  <2> DEFINE p == Pkt("SUBSCRIBE", mqtt_get_next_packet_id, mem[h])
  <2>2. h \in Handlers /\ mem[h] \in Topics \cup {NULL}
    BY <2>1 DEF TypeInv, TypeOK
  <2>3. mqtt_get_next_packet_id \in Ids
    BY NextIdType DEF TypeInv
  <2>4. p \in Outgoing /\ p.kind = "SUBSCRIBE"
    BY <2>2, <2>3 DEF Pkt, Outgoing, Packets, Kinds, AnswerKinds
  <2>5. RepeatInv' /\ Held' = Held
    BY <2>1, <2>4, AsideSubscribe, AsideRecords
  <2> QED
    BY <2>1, <2>4, <2>5 DEF AnswerKinds
<1> QED
  BY <1>1, <1>2, <1>3, <1>4
-----------------------------------------------------------------------------
(* Every step of the system is a step of the client, or leaves it alone.   *)

\* What the application has got once mqtt_deliver_message returns.
Passed ==
    [n \in 1..BrokerMsgs |->
        IF n # hand THEN rcvd[n] ELSE IF rcvd[n] = 2 THEN 2 ELSE rcvd[n] + 1]

WireInv ==
    /\ ub = "none"
    /\ toBroker \in Seq(Outgoing) /\ toClient \in Seq(Incoming)
    /\ bQos \in Seq(InQos \ {0}) /\ Len(bQos) <= BrokerMsgs
    /\ bPhase \in {"idle", "ack", "release"} /\ (bPhase # "idle" => bQos # <<>>)
    /\ Passed \in [1..BrokerMsgs -> 0..2]

\* The packet a Read takes.
LEMMA HeadIncoming ==
    ASSUME WireInv, toClient # <<>>
    PROVE  Head(toClient) \in Incoming /\ Tail(toClient) \in Rest(toClient)
BY TailPackets DEF WireInv, Rest

\* A Read is a step of the client's packet handlers.
LEMMA ReadStep == ASSUME WireInv, Read PROVE mqtt_packet_handle
<1> DEFINE p == Head(toClient)
<1>1. p \in Incoming /\ Handle(p)
  BY HeadIncoming DEF Read
<1> HIDE DEF p
<1>2. CASE p.kind = "PINGRESP" /\ pingresp_packet_handle
  BY <1>2 DEF mqtt_packet_handle
<1>3. CASE p.kind # "PINGRESP"
  <2>1. p.id \in Ids
    BY <1>1, <1>3 DEF Incoming
  <2>2. p.kind = "SUBACK" => p.body \in SubCodes
    BY <1>1 DEF Incoming
  <2>3. p.kind = "PUBLISH" => p.qos \in InQos
    BY <1>1 DEF Incoming
  <2> QED
    BY <1>1, <1>3, <2>1, <2>2, <2>3 DEF Handle, mqtt_packet_handle
<1> QED
  BY <1>1, <1>2, <1>3 DEF Handle

\* Undefined behaviour is left out, so the client's invariants hold here too.
LEMMA ClientStep == WireInv /\ [SystemNext]_systemVars => [Next]_vars /\ ub' = "none"
<1> SUFFICES ASSUME WireInv, [SystemNext]_systemVars PROVE [Next]_vars /\ ub' = "none"
    OBVIOUS
<1>0. ub = "none"
  BY DEF WireInv
<1>1. CASE UNCHANGED systemVars \/ BrokerRead \/ BrokerSend \/ Cut
  BY <1>0, <1>1 DEF systemVars, BrokerRead, BrokerSend, Cut, vars
<1>2. CASE Read
  BY <1>0, <1>2, ReadStep DEF Read, Next, YieldStep
<1>3. CASE ReadNothing \/ Deliver
  BY <1>0, <1>3 DEF ReadNothing, nothing_read, Deliver, mqtt_deliver_message, Next, YieldStep,
     mqtt_packet_handle
<1>4. CASE KeepAlive
  BY <1>0, <1>4 DEF KeepAlive, mqtt_keep_alive, Next, YieldStep
<1>5. CASE Resend
  BY <1>0, <1>5 DEF Resend, mqtt_ack_handler_resend, mqtt_try_resubscribe, Next, YieldStep
<1>6. CASE Other
  BY <1>0, <1>6 DEF Other, Next, YieldStep
<1>7. CASE Reconnect \/ Handshake
  BY <1>0, <1>7 DEF Reconnect, Handshake, mqtt_try_reconnect, mqtt_reconnect_handshake,
     Next, YieldStep
<1>8. ASSUME NEW i \in Users, Connect(i) \/ Ask(i) \/ AskTopic(i) PROVE [Next]_vars /\ ub' = "none"
  <2>1. ApplicationStep(i)
    BY <1>8 DEF Connect, Ask, AskTopic, ApplicationStep
  <2>2. ub' = ub
    BY <1>8 DEF Connect, Ask, AskTopic, mqtt_connect, mqtt_publish, mqtt_subscribe,
       mqtt_unsubscribe, CheckConnected
  <2> QED
    BY <1>0, <2>1, <2>2 DEF Next
<1>9. ASSUME NEW i \in Users, InCall(i) PROVE [Next]_vars /\ ub' = "none"
  <2>1. ApplicationStep(i)
    BY <1>9 DEF InCall, ApplicationStep
  <2>2. ub' = ub
    BY <1>9 DEF InCall, mqtt_request_send, mqtt_subscribe_record, mqtt_unsubscribe_record,
       mqtt_publish_send, mqtt_publish_record, mqtt_publish_release, mqtt_publish_disconnected
  <2> QED
    BY <1>0, <2>1, <2>2 DEF Next
<1> QED
  BY <1>1, <1>2, <1>3, <1>4, <1>5, <1>6, <1>7, <1>8, <1>9 DEF SystemNext, YieldThread
-----------------------------------------------------------------------------
(* Messages of the broker.                                                 *)

\* QoS of the last message, and how often the client delivered it.
Level == IF bQos = <<>> THEN 1 ELSE bQos[Len(bQos)]
Count == IF bQos = <<>> THEN 0 ELSE Passed[Len(bQos)]

\* The PUBLISH packets in q carry message n with QoS l.
Announces(q, n, l) ==
    \A k \in 1..Len(q) : q[k].kind = "PUBLISH" => q[k].body = n /\ q[k].qos = l

InboundInv ==
    /\ Announces(toClient, Len(bQos), Level)
    /\ \A n \in 1..BrokerMsgs : n > Len(bQos) => Passed[n] = 0
    /\ Exchange(toBroker, toClient, bPhase, Level, Count, Held)

\* What is left of a queue announces the same message.
LEMMA AnnouncesRest ==
    ASSUME NEW S, NEW q \in Seq(S), NEW r \in Rest(q), NEW n, NEW l, Announces(q, n, l)
    PROVE  Announces(r, n, l)
<1>1. CASE r = q \/ r = <<>>
  BY <1>1 DEF Announces
<1>2. CASE q # <<>> /\ r = Tail(q)
  <2>1. \A k \in 1..Len(Tail(q)) : k + 1 \in 1..Len(q) /\ Tail(q)[k] = q[k + 1]
    BY <1>2, TailPackets
  <2> QED
    BY <1>2, <2>1 DEF Announces
<1> QED
  BY <1>1, <1>2 DEF Rest

\* Another packet does not matter; the first PUBLISH may announce anything.
LEMMA AnnouncesAppend ==
    ASSUME NEW S, NEW q \in Seq(S), NEW p \in S, NEW n, NEW l
    PROVE  /\ Announces(q, n, l) /\ p.kind # "PUBLISH" => Announces(Append(q, p), n, l)
           /\ ~Has(q, "PUBLISH") /\ p.body = n /\ p.qos = l => Announces(Append(q, p), n, l)
<1> DEFINE a == Append(q, p)
<1>0. /\ Len(a) = Len(q) + 1 /\ Len(q) \in Nat
      /\ \A k \in 1..Len(q) : a[k] = q[k]
      /\ a[Len(q) + 1] = p
  OBVIOUS
<1> HIDE DEF a
<1>1. \A k \in 1..Len(a) : (k \in 1..Len(q) /\ a[k] = q[k]) \/ a[k] = p
  BY <1>0
<1>2. Announces(q, n, l) /\ p.kind # "PUBLISH" => Announces(a, n, l)
  BY <1>1 DEF Announces
<1>3. ~Has(q, "PUBLISH") /\ p.body = n /\ p.qos = l => Announces(a, n, l)
  BY <1>1 DEF Announces, Has
<1> QED
  BY <1>2, <1>3 DEF a

\* The last message and its counter.
LEMMA LastMessage ==
    ASSUME WireInv
    PROVE  /\ Len(bQos) \in Nat /\ Level \in 1..2 /\ Count \in 0..2
           /\ bQos # <<>> => /\ Len(bQos) \in 1..BrokerMsgs
                             /\ Level = bQos[Len(bQos)] /\ Count = Passed[Len(bQos)]
<1>1. /\ bQos \in Seq(InQos \ {0}) /\ Len(bQos) <= BrokerMsgs /\ BrokerMsgs \in Nat
      /\ Passed \in [1..BrokerMsgs -> 0..2] /\ InQos \ {0} \subseteq 1..2
  BY QosAssumption, SystemAssumption DEF WireInv
<1>2. Len(bQos) \in Nat /\ (bQos # <<>> => Len(bQos) \in 1..BrokerMsgs)
  BY <1>1
<1>3. bQos # <<>> => bQos[Len(bQos)] \in 1..2 /\ Passed[Len(bQos)] \in 0..2
  BY <1>1, <1>2
<1> QED
  BY <1>2, <1>3 DEF Level, Count

\* Steps that have no part in the exchange.
LEMMA InboundAside ==
    ASSUME WireInv, InboundInv, ub' = "none", Held' = Held, UNCHANGED <<bQos, bPhase, Passed>>,
           toClient' \in Rest(toClient),
           \/ toBroker' \in Rest(toBroker)
           \/ \E p \in Outgoing : p.kind \notin AnswerKinds /\ toBroker' = Append(toBroker, p)
    PROVE  WireInv' /\ InboundInv'
<1>1. Level' = Level /\ Count' = Count
  BY DEF Level, Count
<1>2. toClient' \in Seq(Incoming) /\ Announces(toClient', Len(bQos), Level)
  BY RestPackets, AnnouncesRest DEF WireInv, InboundInv
<1>3. toBroker \in Seq(Outgoing) /\ toClient \in Seq(Incoming)
  BY DEF WireInv
<1>4. Exchange(toBroker, toClient, bPhase, Level, Count, Held)
  BY DEF InboundInv
<1>5. toBroker' \in Seq(Outgoing) /\ Exchange(toBroker', toClient', bPhase, Level, Count, Held)
  <2>1. CASE toBroker' \in Rest(toBroker)
    BY <1>3, <1>4, <2>1, RestPackets, ExchangeRest
  <2>2. ASSUME NEW p \in Outgoing, p.kind \notin AnswerKinds, toBroker' = Append(toBroker, p)
        PROVE  toBroker' \in Seq(Outgoing)
                  /\ Exchange(toBroker', toClient', bPhase, Level, Count, Held)
    <3>1. toBroker \in Rest(toBroker)
      BY DEF Rest
    <3>2. Exchange(toBroker, toClient', bPhase, Level, Count, Held)
      BY <1>3, <1>4, <3>1, ExchangeRest
    <3>3. Exchange(Append(toBroker, p), toClient', bPhase, Level, Count, Held)
      BY <1>3, <2>2, <3>2, ExchangeSend DEF AnswerKinds
    <3> QED
      BY <1>3, <2>2, <3>3, AppendPackets
  <2> QED
    BY <2>1, <2>2
<1>6. WireInv'
  BY <1>2, <1>5 DEF WireInv
<1>7. InboundInv'
  BY <1>1, <1>2, <1>5 DEF InboundInv
<1> QED
  BY <1>6, <1>7
\* A packet that is not part of an exchange of the broker is handled.
LEMMA AsideRead ==
    ASSUME RepeatInv, NEW p \in Incoming, Handle(p), p.kind \notin {"PUBLISH", "PUBREL"}
    PROVE  Aside
<1> USE DEF Aside
<1>1. CASE /\ p.kind \in {"PUBACK", "PUBCOMP"}
           /\ mqtt_puback_and_pubcomp_packet_handle(p.kind, p.id)
  BY <1>1, AsideRecords DEF mqtt_puback_and_pubcomp_packet_handle, mqtt_ack_list_unrecord,
     Matching
<1>2. CASE p.kind = "PUBREC" /\ mqtt_pubrec_packet_handle(p.id)
  <2> DEFINE pubrel == Pkt("PUBREL", p.id, NULL)
             r == Ack("PUBCOMP", p.id, NULL, pubrel)
  <2>1. p.id \in Ids
    BY <1>2 DEF Incoming
  <2>2. pubrel \in Outgoing /\ pubrel.kind = "PUBREL"
    BY <2>1 DEF Pkt, Outgoing, Packets, Kinds, AnswerKinds
  <2>3. r.type = "PUBCOMP" /\ r.payload = pubrel
    BY AckFields
  <2>4. r.type # "PUBREL" /\ RepeatOK(r)
    BY <2>2, <2>3 DEF RepeatOK, AnswerKinds
  <2>5. /\ out' \in {pubrel, NULL}
        /\ \/ acks' = acks \ Matching("PUBREC", p.id)
           \/ acks' = (acks \ Matching("PUBREC", p.id)) \cup {r}
    BY <1>2 DEF mqtt_pubrec_packet_handle, mqtt_ack_list_unrecord, mqtt_send_packet
  <2>6. RepeatInv' /\ Held' = Held
    BY <2>4, <2>5, AsideRecords DEF Matching
  <2> QED
    BY <2>2, <2>5, <2>6 DEF AnswerKinds
<1>3. CASE p.kind = "SUBACK" /\ mqtt_suback_packet_handle(p.id, p.body)
  BY <1>3, AsideRecords DEF mqtt_suback_packet_handle, mqtt_ack_list_unrecord, Matching
<1>4. CASE p.kind = "UNSUBACK" /\ mqtt_unsuback_packet_handle(p.id)
  BY <1>4, AsideRecords DEF mqtt_unsuback_packet_handle, mqtt_ack_list_unrecord, Matching
<1>5. CASE p.kind = "PINGRESP" /\ pingresp_packet_handle
  BY <1>5, AsideRecords DEF pingresp_packet_handle, ackVars
<1> QED
  BY <1>1, <1>2, <1>3, <1>4, <1>5 DEF Handle

\* What a step of the client does to the queues.
LEMMA WireQueues ==
    ASSUME NEW unread \in Rest(toClient), Wire(unread)
    PROVE  /\ toClient' \in {unread, <<>>} /\ toClient' \in Rest(toClient)
           /\ toBroker' = toBroker \/ (out' # NULL /\ toBroker' = Append(toBroker, out'))
BY DEF Wire, Rest

\* A client step of no concern to the exchange.
LEMMA InboundWire ==
    ASSUME WireInv, InboundInv, ub' = "none", Aside, UNCHANGED <<bQos, bPhase, Passed>>,
           NEW unread \in Rest(toClient), Wire(unread)
    PROVE  WireInv' /\ InboundInv' /\ RepeatInv'
<1>1. /\ toClient' \in Rest(toClient)
      /\ toBroker' = toBroker \/ (out' # NULL /\ toBroker' = Append(toBroker, out'))
  BY WireQueues
<1>2. toBroker \in Rest(toBroker)
  BY DEF Rest
<1>3. \/ toBroker' \in Rest(toBroker)
      \/ \E p \in Outgoing : p.kind \notin AnswerKinds /\ toBroker' = Append(toBroker, p)
  BY <1>1, <1>2 DEF Aside
<1> QED
  BY <1>1, <1>3, InboundAside DEF Aside
ExInv == WireInv /\ RepeatInv /\ InboundInv

\* The message in hand, with the thread in mqtt_deliver_message.  At QoS 1 the
\* broker may already be at the next one.
HandInv ==
    /\ rcvd \in [1..BrokerMsgs -> 0..2]
    /\ hand \in 0..Len(bQos)
    /\ hand # 0 <=> y = "deliver"
    /\ hand # 0 /\ bQos[hand] = 2 => rcvd[hand] = 0

InInv == ExInv /\ HandInv

\* Without a message in hand, or with the same one.
LEMMA PassedSame ==
    /\ UNCHANGED <<hand, rcvd>> => Passed' = Passed
    /\ HandInv /\ hand = 0 => Passed = rcvd
<1>1. UNCHANGED <<hand, rcvd>> => Passed' = Passed
  BY DEF Passed
<1>2. HandInv /\ hand = 0 => Passed = rcvd
  BY DEF Passed, HandInv
<1> QED
  BY <1>1, <1>2

\* A message is taken in hand.
LEMMA PassedTake ==
    ASSUME HandInv, hand = 0, rcvd' = rcvd, hand' \in 1..BrokerMsgs
    PROVE  Passed' = [Passed EXCEPT ![hand'] = IF @ = 2 THEN 2 ELSE @ + 1]
<1>1. Passed = rcvd /\ rcvd \in [1..BrokerMsgs -> 0..2]
  BY PassedSame DEF HandInv
<1> QED
  BY <1>1 DEF Passed

\* The application gets it.
LEMMA PassedGive ==
    ASSUME HandInv, hand # 0, Len(bQos) <= BrokerMsgs, Len(bQos) \in Nat, BrokerMsgs \in Nat,
           rcvd' = [rcvd EXCEPT ![hand] = IF @ = 2 THEN 2 ELSE @ + 1], hand' = 0
    PROVE  Passed' = Passed
<1>1. rcvd \in [1..BrokerMsgs -> 0..2] /\ hand \in 1..BrokerMsgs
  BY DEF HandInv
<1> QED
  BY <1>1 DEF Passed

\* The steps of the abstract specification, seen from the code.
Standing == UNCHANGED <<bQos, hand, rcvd>> /\ ((bPhase = "idle") <=> (bPhase' = "idle"))

Taking ==
    /\ bPhase # "idle" /\ (Level = 2 => Count = 0)
    /\ hand = 0 /\ hand' = Len(bQos)
    /\ UNCHANGED <<bQos, bPhase, rcvd>>

Giving ==
    /\ hand # 0 /\ hand' = 0
    /\ rcvd' = [rcvd EXCEPT ![hand] = IF @ = 2 THEN 2 ELSE @ + 1]
    /\ UNCHANGED <<bQos, bPhase>>

Confirming ==
    /\ bPhase # "idle" /\ bPhase' = "idle" /\ Count > 0
    /\ UNCHANGED <<bQos, hand, rcvd>>

Offering ==
    /\ bPhase = "idle" /\ bPhase' = "ack" /\ Len(bQos) < BrokerMsgs
    /\ \E q \in InQos \ {0} : bQos' = Append(bQos, q)
    /\ UNCHANGED <<hand, rcvd>>

\* Reading PUBREL: the client forgets the id.
LEMMA InboundPubrel ==
    ASSUME ExInv, Read, Head(toClient).kind = "PUBREL"
    PROVE  ExInv' /\ UNCHANGED <<bQos, bPhase, hand, rcvd>>
<1> DEFINE p == Head(toClient)
           c == Pkt("PUBCOMP", BrokerId, NULL)
<1>1. toClient # <<>> /\ p \in Incoming /\ Tail(toClient) \in Rest(toClient)
  BY HeadIncoming DEF ExInv, Read
<1>2. /\ \E ok \in BOOLEAN : mqtt_pubrel_packet_handle(BrokerId, ok)
      /\ UNCHANGED <<bQos, bPhase, hand, rcvd, Passed>>
      /\ ub' = "none" /\ Wire(Tail(toClient))
  <2>1. p.id = BrokerId
    BY <1>1 DEF Incoming
  <2>2. \E ok \in BOOLEAN : mqtt_pubrel_packet_handle(BrokerId, ok)
    BY <2>1 DEF Read, Handle
  <2>3. y' # "deliver"
    BY <2>2 DEF mqtt_pubrel_packet_handle, ThenKeepAlive
  <2>4. /\ UNCHANGED <<bQos, bPhase, hand, rcvd>>
        /\ ub' = "none" /\ Wire(Tail(toClient))
    BY <2>3 DEF Read, brokerVars
  <2> QED
    BY <2>2, <2>4, PassedSame
<1>3. out' \in {c, NULL} /\ acks' = acks \ Matching("PUBREL", BrokerId)
  BY <1>2 DEF mqtt_pubrel_packet_handle, mqtt_send_packet, mqtt_ack_list_unrecord
<1>4. ~Held' /\ RepeatInv'
  <2>1. \A r \in acks : r.type = "PUBREL" => r \in Matching("PUBREL", BrokerId)
    BY AckFields DEF ExInv, RepeatInv, RepeatOK, Matching
  <2>2. RepeatInv'
    BY <1>3 DEF ExInv, RepeatInv, RepeatOK
  <2> QED
    BY <1>3, <2>1, <2>2 DEF Held
<1>5. c \in Outgoing /\ c.kind = "PUBCOMP"
  BY DEF Pkt, Outgoing, Packets, Kinds, AnswerKinds, BrokerId
<1>6. toClient' \in Rest(toClient) /\ toBroker' \in {toBroker, Append(toBroker, c)}
  BY <1>1, <1>2, <1>3, WireQueues
<1> HIDE DEF c, p
<1>7. toBroker \in Seq(Outgoing) /\ toClient \in Seq(Incoming)
  BY DEF ExInv, WireInv
<1>8. Exchange(toBroker, toClient, bPhase, Level, Count, Held)
  BY DEF ExInv, InboundInv
<1>9. Exchange(toBroker', toClient', bPhase, Level, Count, FALSE)
  BY <1>1, <1>5, <1>6, <1>7, <1>8, ExchangeReleased
<1>10. toBroker' \in Seq(Outgoing)
  BY <1>5, <1>6, <1>7, AppendPackets
<1>11. toClient' \in Seq(Incoming) /\ Announces(toClient', Len(bQos), Level)
  BY <1>6, <1>7, RestPackets, AnnouncesRest DEF ExInv, InboundInv
<1>12. Level' = Level /\ Count' = Count
  BY <1>2 DEF Level, Count
<1>13. WireInv'
  BY <1>2, <1>10, <1>11 DEF ExInv, WireInv
<1>14. InboundInv'
  <2>1. Held' = FALSE
    BY <1>4 DEF Held
  <2> QED
    BY <1>2, <1>9, <1>11, <1>12, <2>1 DEF ExInv, InboundInv
<1> QED
  BY <1>2, <1>4, <1>13, <1>14 DEF ExInv

\* Reading PUBLISH: the message is delivered when its answer is sent and the
\* id is not held.
LEMMA InboundPublish ==
    ASSUME ~AllocMayFail, TypeInv, ExInv, HandInv, Read, Head(toClient).kind = "PUBLISH"
    PROVE  ExInv' /\ (UNCHANGED <<bQos, bPhase, hand, rcvd>> \/ Taking)
<1> DEFINE p == Head(toClient)
           a == Pkt(IF Level = 1 THEN "PUBACK" ELSE "PUBREC", BrokerId, NULL)
           r == Ack("PUBREL", BrokerId, NULL, a)
<1>1. toClient # <<>> /\ p \in Incoming /\ Tail(toClient) \in Rest(toClient)
  BY HeadIncoming DEF ExInv, Read
<1>2. toBroker \in Seq(Outgoing) /\ toClient \in Seq(Incoming)
  BY DEF ExInv, WireInv
<1>3. Exchange(toBroker, toClient, bPhase, Level, Count, Held)
  BY DEF ExInv, InboundInv
<1>4. p.id = BrokerId /\ p.qos = Level /\ p.body = Len(bQos)
  <2>1. p = toClient[1] /\ 1 \in 1..Len(toClient)
    BY <1>1, <1>2, TailPackets
  <2>2. p.qos = Level /\ p.body = Len(bQos)
    BY <2>1 DEF ExInv, InboundInv, Announces
  <2> QED
    BY <1>1, <2>2 DEF Incoming
<1>5. Has(toClient, "PUBLISH")
  BY <1>1, <1>2, HeadPackets
<1>6. /\ bQos # <<>> /\ Level \in 1..2 /\ Len(bQos) \in 1..BrokerMsgs
      /\ Level = bQos[Len(bQos)] /\ Count = Passed[Len(bQos)] /\ Count \in 0..2
      /\ Passed \in [1..BrokerMsgs -> 0..2] /\ bPhase \in {"ack", "release"}
  <2>1. bPhase # "idle"
    BY <1>3, <1>5 DEF Exchange
  <2>2. bQos # <<>>
    BY <2>1 DEF ExInv, WireInv
  <2> QED
    BY <2>1, <2>2, LastMessage DEF ExInv, WireInv
<1>7. PICK ok \in BOOLEAN : mqtt_publish_packet_handle(BrokerId, Level, ok)
  BY <1>4 DEF Read, Handle
<1>s. /\ UNCHANGED <<bQos, bPhase, rcvd>> /\ ub' = "none" /\ Wire(Tail(toClient))
      /\ hand' = IF y' = "deliver" THEN Len(bQos) ELSE hand
  BY <1>4 DEF Read, brokerVars
<1>h. hand = 0
  BY <1>7 DEF mqtt_publish_packet_handle, CanRead, HandInv
<1>8. /\ UNCHANGED <<bQos, bPhase>> /\ ub' = "none" /\ Wire(Tail(toClient))
      /\ Passed' = IF y' = "deliver"
                     THEN [Passed EXCEPT ![Len(bQos)] = IF @ = 2 THEN 2 ELSE @ + 1]
                     ELSE Passed
  <2>1. CASE y' = "deliver"
    BY <1>6, <1>s, <1>h, <2>1, PassedTake
  <2>2. CASE y' # "deliver"
    BY <1>s, <2>2, PassedSame
  <2> QED
    BY <1>s, <2>1, <2>2
<1>9. net = "up" /\ out' = (IF ok THEN a ELSE NULL) /\ net' = net
  BY <1>6, <1>7 DEF mqtt_publish_packet_handle, mqtt_send_packet, CanRead, connVars
<1>10. a \in Outgoing /\ a.kind = (IF Level = 1 THEN "PUBACK" ELSE "PUBREC") /\ a # NULL
  BY <1>6, PacketsAssumption DEF Pkt, Outgoing, Packets, Kinds, AnswerKinds, BrokerId
<1>11. /\ toClient' \in Rest(toClient) /\ toClient' \in {Tail(toClient), <<>>}
       /\ toBroker' = toBroker \/ (ok /\ toBroker' = Append(toBroker, a))
  BY <1>1, <1>8, <1>9, WireQueues
<1> HIDE DEF a, p
<1>12. toBroker' \in Seq(Outgoing)
  BY <1>2, <1>10, <1>11, AppendPackets
<1>13. toClient' \in Seq(Incoming) /\ Announces(toClient', Len(bQos), Level)
  BY <1>2, <1>11, RestPackets, AnnouncesRest DEF ExInv, InboundInv
<1>14. Level' = Level /\ Count' = Passed'[Len(bQos)] /\ Len(bQos') = Len(bQos)
  BY <1>6, <1>8 DEF Level, Count
<1>15. Passed' \in [1..BrokerMsgs -> 0..2]
  BY <1>6, <1>8
<1>16. WireInv'
  BY <1>8, <1>12, <1>13, <1>15 DEF ExInv, WireInv
<1>17. \A n \in 1..BrokerMsgs : n > Len(bQos) => Passed'[n] = 0
  BY <1>6, <1>8 DEF ExInv, InboundInv
<1>18. ASSUME Exchange(toBroker', toClient', bPhase, Level, Passed'[Len(bQos)], Held')
       PROVE  InboundInv'
  BY <1>8, <1>13, <1>14, <1>17, <1>18 DEF InboundInv
<1>19. CASE ~ok \/ (Level = 2 /\ Held)
  <2>1. UNCHANGED acks /\ y' # "deliver"
    <3>1. Held => mqtt_ack_list_node_is_exist("PUBREL", BrokerId)
      BY AckFields DEF ExInv, RepeatInv, RepeatOK, Held, mqtt_ack_list_node_is_exist, Matching
    <3>2. UNCHANGED acks
      BY <1>7, <1>19, <3>1 DEF mqtt_publish_packet_handle, ackVars
    <3>3. Level # 0 /\ ~(ok /\ (Level = 2 => ~mqtt_ack_list_node_is_exist("PUBREL", BrokerId)))
      BY <1>6, <1>19, <3>1
    <3>4. y' = "keep"
      BY <1>7, <3>3 DEF mqtt_publish_packet_handle
    <3> QED
      BY <3>2, <3>4
  <2>2. UNCHANGED <<hand, rcvd>>
    BY <1>s, <2>1
  <2>3. Passed' = Passed /\ Held' = Held /\ RepeatInv'
    BY <1>8, <2>1 DEF Held, ExInv, RepeatInv, RepeatOK
  <2>4. Exchange(toBroker', toClient', bPhase, Level, Count, Held)
    <3>1. CASE ~ok
      <4>1. toBroker' \in Rest(toBroker)
        BY <1>11, <3>1 DEF Rest
      <4> QED
        BY <1>2, <1>3, <1>11, <4>1, ExchangeRest
    <3>2. CASE Level = 2 /\ Held
      <4>1. /\ toBroker' \in {toBroker, Append(toBroker, a)}
            /\ a \in Outgoing /\ a.kind = "PUBREC"
        BY <1>10, <1>11, <3>2
      <4> QED
        <5>1. Held = TRUE
          BY <3>2 DEF Held
        <5>2. Exchange(toBroker, toClient, bPhase, 2, Count, TRUE)
          BY <1>3, <3>2, <5>1
        <5>3. toBroker \in Rest(toBroker)
          BY DEF Rest
        <5>4. Exchange(toBroker, toClient', bPhase, 2, Count, TRUE)
          BY <1>2, <1>11, <5>2, <5>3, ExchangeRest
        <5>5. Exchange(Append(toBroker, a), toClient', bPhase, 2, Count, TRUE)
          BY <1>2, <4>1, <5>4, ExchangeRepeat
        <5> QED
          BY <3>2, <4>1, <5>1, <5>4, <5>5
    <3> QED
      BY <1>19, <3>1, <3>2
  <2> QED
    BY <1>6, <1>8, <1>16, <1>18, <2>2, <2>3, <2>4 DEF ExInv
<1>20. CASE ok /\ Level = 1
  <2>1. UNCHANGED acks /\ y' = "deliver"
    BY <1>7, <1>20 DEF mqtt_publish_packet_handle, ackVars
  <2>2. Held' = Held /\ RepeatInv'
    BY <2>1 DEF Held, ExInv, RepeatInv, RepeatOK
  <2>3. Passed'[Len(bQos)] > 0
    BY <1>6, <1>8, <2>1
  <2>4. toBroker' \in {toBroker, Append(toBroker, a)} /\ a.kind = "PUBACK"
    BY <1>10, <1>11, <1>20
  <2>5. Exchange(toBroker', toClient', bPhase, 1, Passed'[Len(bQos)], Held)
    <3>1. Exchange(toBroker, toClient, bPhase, 1, Count, Held)
      BY <1>3, <1>20
    <3>2. toClient # <<>> /\ toClient' \in {Tail(toClient), <<>>} /\ a \in Outgoing
      BY <1>1, <1>10, <1>11
    <3>3. bPhase = "ack"
      BY <1>5, <1>6, <3>1 DEF Exchange
    <3>4. Exchange(toBroker, toClient, "ack", 1, Count, Held)
      BY <3>1, <3>3
    <3>5. ASSUME NEW count, count > 0
          PROVE  /\ Exchange(toBroker, toClient', "ack", 1, count, Held)
                 /\ Exchange(Append(toBroker, a), toClient', "ack", 1, count, Held)
      BY <1>2, <2>4, <3>2, <3>4, <3>5, ExchangeDeliver1
    <3>6. /\ Exchange(toBroker, toClient', "ack", 1, Passed'[Len(bQos)], Held)
          /\ Exchange(Append(toBroker, a), toClient', "ack", 1, Passed'[Len(bQos)], Held)
      BY <2>3, <3>5
    <3> QED
      BY <2>4, <3>3, <3>6
  <2>6. Taking
    BY <1>6, <1>s, <1>h, <1>20, <2>1 DEF Taking
  <2> QED
    BY <1>16, <1>18, <1>20, <2>2, <2>5, <2>6 DEF ExInv
<1>21. CASE ok /\ Level = 2 /\ ~Held
  <2>1. mqtt_ack_list_record(r) /\ y' = "deliver"
    <3>1. ~mqtt_ack_list_node_is_exist("PUBREL", BrokerId)
      BY <1>21 DEF Held, mqtt_ack_list_node_is_exist, Matching
    <3>2. FALSE \notin AckAlloc
      BY DEF AckAlloc
    <3> QED
      BY <1>7, <1>21, <3>1, <3>2 DEF mqtt_publish_packet_handle, ackVars, a
  <2>2. acks' = acks \cup {r}
    BY <2>1 DEF mqtt_ack_list_record
  <2>3. r.type = "PUBREL" /\ RepeatOK(r)
    BY <1>21, AckFields DEF RepeatOK, a
  <2>4. Held' = TRUE /\ RepeatInv'
    <3>1. Held'
      BY <2>2, <2>3 DEF Held
    <3>2. RepeatInv'
      BY <2>2, <2>3 DEF ExInv, RepeatInv, RepeatOK
    <3> QED
      BY <3>1, <3>2 DEF Held
  <2>6. toBroker' \in {toBroker, Append(toBroker, a)} /\ a.kind = "PUBREC"
    BY <1>10, <1>11, <1>21
  <2>7. Count = 0 /\ Exchange(toBroker', toClient', bPhase, 2, 1, TRUE)
    <3>1. Exchange(toBroker, toClient, bPhase, 2, Count, FALSE)
      <4>1. Held = FALSE
        BY <1>21 DEF Held
      <4> QED
        BY <1>3, <1>21, <4>1
    <3>2. toClient # <<>> /\ toClient' \in Rest(toClient) /\ a \in Outgoing
      BY <1>1, <1>10, <1>11
    <3>3. bPhase = "ack"
      BY <1>5, <1>6, <3>1 DEF Exchange
    <3>4. /\ Count = 0
          /\ Exchange(toBroker, toClient', "ack", 2, 1, TRUE)
          /\ Exchange(Append(toBroker, a), toClient', "ack", 2, 1, TRUE)
      BY <1>2, <2>6, <3>1, <3>2, <3>3, ExchangeDeliver2
    <3> QED
      BY <2>6, <3>3, <3>4
  <2>8. Passed'[Len(bQos)] = 1
    BY <1>6, <1>8, <2>1, <2>7
  <2>9. Taking
    BY <1>6, <1>s, <1>h, <2>1, <2>7 DEF Taking
  <2> QED
    BY <1>16, <1>18, <1>21, <2>4, <2>7, <2>8, <2>9 DEF ExInv
<1> QED
  BY <1>6, <1>19, <1>20, <1>21
\* Reading any packet.
LEMMA InboundRead ==
    ASSUME ~AllocMayFail, TypeInv, ExInv, HandInv, Read
    PROVE  ExInv' /\ (UNCHANGED <<bQos, bPhase, hand, rcvd>> \/ Taking)
<1> DEFINE p == Head(toClient)
<1>1. p \in Incoming /\ Tail(toClient) \in Rest(toClient)
  BY HeadIncoming DEF ExInv, Read
<1>2. CASE p.kind \notin {"PUBLISH", "PUBREL"}
  <2>1. Aside
    BY <1>1, <1>2, AsideRead DEF ExInv, Read
  <2>2. y' # "deliver"
    BY <1>2 DEF Read, Handle, mqtt_puback_and_pubcomp_packet_handle, mqtt_pubrec_packet_handle,
       mqtt_suback_packet_handle, mqtt_unsuback_packet_handle, pingresp_packet_handle,
       ThenKeepAlive
  <2>3. UNCHANGED <<bQos, bPhase, hand, rcvd>> /\ ub' = "none" /\ Wire(Tail(toClient))
    BY <2>2 DEF Read, brokerVars
  <2> QED
    BY <1>1, <2>1, <2>3, PassedSame, InboundWire DEF ExInv
<1> QED
  BY <1>2, InboundPubrel, InboundPublish

\* A scan repeats a packet: a PUBREC only while the id is held.
LEMMA InboundResend ==
    ASSUME TypeInv, ExInv, Resend
    PROVE  ExInv' /\ UNCHANGED <<bQos, bPhase, hand, rcvd>>
<1>1. /\ UNCHANGED <<bQos, bPhase, hand, rcvd, Passed>>
      /\ Wire(toClient) /\ toClient \in Rest(toClient)
      /\ ub = "none"
  BY PassedSame DEF Resend, brokerVars, Rest, ExInv, WireInv
<1>2. CASE mqtt_try_resubscribe
  <2>1. Aside /\ ub' = "none"
    BY <1>1, <1>2, AsideYield DEF ExInv, mqtt_try_resubscribe
  <2> QED
    BY <1>1, <2>1, InboundWire DEF ExInv
<1>3. CASE mqtt_ack_handler_resend
  <2>1. PICK r \in todo : /\ out' \in {r.payload, NULL} /\ acks' = acks /\ ub' = ub
    BY <1>3 DEF mqtt_ack_handler_resend, mqtt_send_packet, ackVars
  <2>2. r \in acks /\ RepeatOK(r)
    BY DEF TypeInv, TypeOK, ExInv, RepeatInv
  <2>3. RepeatInv' /\ Held' = Held
    BY <2>1 DEF ExInv, RepeatInv, RepeatOK, Held
  <2>4. CASE r.type # "PUBREL"
    <3>1. Aside
      BY <2>1, <2>2, <2>3, <2>4 DEF Aside, RepeatOK, AnswerKinds
    <3> QED
      BY <1>1, <2>1, <3>1, InboundWire DEF ExInv
  <2>5. CASE r.type = "PUBREL"
    <3> DEFINE a == Pkt("PUBREC", BrokerId, NULL)
    <3>1. r.payload = a /\ Held = TRUE
      BY <2>2, <2>5, AckFields DEF RepeatOK, Held
    <3>2. a \in Outgoing /\ a.kind = "PUBREC"
      BY DEF Pkt, Outgoing, Packets, Kinds, AnswerKinds, BrokerId
    <3>3. toClient' \in Rest(toClient) /\ toBroker' \in {toBroker, Append(toBroker, a)}
      BY <1>1, <2>1, <3>1, WireQueues
    <3> HIDE DEF a
    <3>4. CASE toBroker' = toBroker
      <4>1. toBroker' \in Rest(toBroker)
        BY <3>4 DEF Rest
      <4> QED
        BY <1>1, <2>1, <2>3, <3>3, <4>1, InboundAside DEF ExInv
    <3>5. CASE toBroker' = Append(toBroker, a)
      <4>1. toBroker \in Seq(Outgoing) /\ toClient \in Seq(Incoming)
        BY DEF ExInv, WireInv
      <4>2. Exchange(toBroker, toClient, bPhase, Level, Count, TRUE)
        BY <3>1 DEF ExInv, InboundInv
      <4>3. toBroker \in Rest(toBroker)
        BY DEF Rest
      <4>4. Exchange(toBroker, toClient', bPhase, Level, Count, TRUE)
        BY <3>3, <4>1, <4>2, <4>3, ExchangeRest
      <4>5. Exchange(Append(toBroker, a), toClient', bPhase, Level, Count, TRUE)
        <5>1. Level \in 1..2 /\ bPhase \in {"idle", "ack", "release"}
          BY LastMessage DEF ExInv, WireInv
        <5>2. Level = 2
          BY <4>4, <5>1 DEF Exchange
        <5>3. Exchange(toBroker, toClient', bPhase, 2, Count, TRUE)
          BY <4>4, <5>2
        <5>4. Exchange(Append(toBroker, a), toClient', bPhase, 2, Count, TRUE)
          BY <3>2, <4>1, <5>3, ExchangeRepeat
        <5> QED
          BY <5>2, <5>4
      <4>6. toBroker' \in Seq(Outgoing)
        BY <3>2, <3>5, <4>1, AppendPackets
      <4>7. toClient' \in Seq(Incoming) /\ Announces(toClient', Len(bQos), Level)
        BY <3>3, <4>1, RestPackets, AnnouncesRest DEF ExInv, InboundInv
      <4>8. Level' = Level /\ Count' = Count
        BY <1>1 DEF Level, Count
      <4>9. WireInv'
        BY <1>1, <2>1, <4>6, <4>7 DEF ExInv, WireInv
      <4>10. InboundInv'
        BY <1>1, <2>3, <3>1, <3>5, <4>5, <4>7, <4>8 DEF ExInv, InboundInv
      <4> QED
        BY <1>1, <2>3, <4>9, <4>10 DEF ExInv
    <3> QED
      BY <3>3, <3>4, <3>5
  <2> QED
    BY <2>4, <2>5
<1> QED
  BY <1>2, <1>3 DEF Resend
\* The packet a BrokerRead takes.
LEMMA HeadOutgoing ==
    ASSUME WireInv, toBroker # <<>>
    PROVE  /\ Head(toBroker) \in Outgoing /\ Tail(toBroker) \in Rest(toBroker)
           /\ Tail(toBroker) \in Seq(Outgoing)
BY TailPackets DEF WireInv, Rest

\* The answers of the broker.
LEMMA ReplyPacket ==
    ASSUME NEW id \in Ids
    PROVE  /\ \A kind \in {"PUBACK", "PUBREC", "PUBCOMP", "UNSUBACK"} :
                 Pkt(kind, id, NULL) \in Incoming /\ Pkt(kind, id, NULL).kind = kind
           /\ \A code \in SubCodes :
                 Pkt("SUBACK", id, code) \in Incoming /\ Pkt("SUBACK", id, code).kind = "SUBACK"
           /\ Pkt("PINGRESP", 0, NULL) \in Incoming
           /\ Pkt("PINGRESP", 0, NULL).kind = "PINGRESP"
           /\ Pkt("PUBREL", BrokerId, NULL) \in Incoming
           /\ Pkt("PUBREL", BrokerId, NULL).kind = "PUBREL"
BY SubCodesAssumption DEF Pkt, Incoming, AnswerKinds, BrokerId

\* A packet of the client that the broker answers outside the exchange.
LEMMA InboundReply ==
    ASSUME ExInv, ub' = "none", acks' = acks, UNCHANGED <<bQos, bPhase, Passed>>,
           toBroker # <<>>, toBroker' = Tail(toBroker),
           \/ toClient' = toClient
           \/ \E p \in Incoming : /\ p.kind \notin {"PUBLISH", "PUBREL"}
                                  /\ toClient' = Append(toClient, p)
    PROVE  ExInv'
<1>1. Level' = Level /\ Count' = Count /\ Held' = Held /\ RepeatInv'
  BY DEF Level, Count, Held, ExInv, RepeatInv, RepeatOK
<1>2. toBroker' \in Rest(toBroker) /\ toBroker' \in Seq(Outgoing) /\ toClient \in Rest(toClient)
  BY HeadOutgoing DEF ExInv, Rest
<1>3. toBroker \in Seq(Outgoing) /\ toClient \in Seq(Incoming)
  BY DEF ExInv, WireInv
<1>4. Announces(toClient, Len(bQos), Level)
  BY DEF ExInv, InboundInv
<1>5. Exchange(toBroker', toClient, bPhase, Level, Count, Held)
  BY <1>2, <1>3, ExchangeRest DEF ExInv, InboundInv
<1>6. /\ toClient' \in Seq(Incoming) /\ Announces(toClient', Len(bQos), Level)
      /\ Exchange(toBroker', toClient', bPhase, Level, Count, Held)
  <2>1. CASE toClient' = toClient
    BY <1>3, <1>4, <1>5, <2>1
  <2>2. ASSUME NEW p \in Incoming, p.kind \notin {"PUBLISH", "PUBREL"},
               toClient' = Append(toClient, p)
        PROVE  /\ toClient' \in Seq(Incoming) /\ Announces(toClient', Len(bQos), Level)
               /\ Exchange(toBroker', toClient', bPhase, Level, Count, Held)
    <3>1. Exchange(toBroker', Append(toClient, p), bPhase, Level, Count, Held)
      BY <1>3, <1>5, <2>2, ExchangeReply
    <3>2. Announces(Append(toClient, p), Len(bQos), Level)
      BY <1>3, <1>4, <2>2, AnnouncesAppend
    <3>3. Append(toClient, p) \in Seq(Incoming)
      BY <1>3, AppendPackets
    <3> QED
      BY <2>2, <3>1, <3>2, <3>3
  <2> QED
    BY <2>1, <2>2
<1>7. WireInv'
  BY <1>2, <1>6 DEF ExInv, WireInv
<1>8. InboundInv'
  BY <1>1, <1>6 DEF ExInv, InboundInv
<1> QED
  BY <1>1, <1>7, <1>8 DEF ExInv

\* The broker takes a packet of the client.
LEMMA InboundBrokerRead ==
    ASSUME ExInv, BrokerRead
    PROVE  ExInv' /\ (Standing \/ Confirming)
<1> DEFINE p == Head(toBroker)
<1>1. /\ toBroker # <<>> /\ toBroker' = Tail(toBroker) /\ BrokerReceive(p)
      /\ acks' = acks /\ ub' = "none" /\ UNCHANGED <<bQos, hand, rcvd, Passed>>
  BY PassedSame DEF BrokerRead, vars, ExInv, WireInv
<1>2. p \in Outgoing /\ toBroker' \in Rest(toBroker) /\ toBroker' \in Seq(Outgoing)
  BY <1>1, HeadOutgoing DEF ExInv
<1>3. toBroker \in Seq(Outgoing) /\ toClient \in Seq(Incoming)
  BY DEF ExInv, WireInv
<1>4. Exchange(toBroker, toClient, bPhase, Level, Count, Held)
  BY DEF ExInv, InboundInv
<1>5. Level' = Level /\ Count' = Count /\ Held' = Held /\ RepeatInv'
  BY <1>1 DEF Level, Count, Held, ExInv, RepeatInv, RepeatOK
<1>6. /\ Level \in 1..2 /\ Count \in 0..2 /\ bPhase \in {"idle", "ack", "release"}
      /\ Held \in BOOLEAN /\ Announces(toClient, Len(bQos), Level)
  BY LastMessage DEF ExInv, WireInv, InboundInv, Held
<1> HIDE DEF p
<1>7. ASSUME NEW q \in Incoming, q.kind \notin {"PUBLISH", "PUBREL"}, bPhase' = bPhase,
             toClient' \in {toClient, Append(toClient, q)}
      PROVE  ExInv' /\ (Standing \/ Confirming)
  <2>1. ExInv'
    BY <1>1, <1>7, InboundReply
  <2> QED
    BY <1>1, <1>7, <2>1 DEF Standing
<1>8. CASE p.kind = "PUBLISH" /\ BrokerPublish(p) /\ UNCHANGED <<bPhase, bSubs>>
  <2>1. p.id \in Ids
    BY <1>2, <1>8 DEF Outgoing, BrokerPublish
  <2>2. \E kind \in {"PUBACK", "PUBREC"} : toClient' \in {toClient, Append(toClient, Pkt(kind, p.id, NULL))}
    BY <1>8 DEF BrokerPublish, Reply, ReplyWith
  <2> QED
    BY <1>7, <1>8, <2>1, <2>2, ReplyPacket
<1>9. CASE p.kind = "PUBREL" /\ Reply("PUBCOMP", p.id) /\ UNCHANGED bPhase
  <2>1. p.id \in Ids
    BY <1>2, <1>9 DEF Outgoing
  <2> QED
    BY <1>7, <1>9, <2>1, ReplyPacket DEF Reply, ReplyWith
<1>10. CASE /\ p.kind = "PUBREC" /\ bPhase # "idle" /\ bPhase' = "release"
            /\ Reply("PUBREL", p.id)
  <2> DEFINE q == Pkt("PUBREL", BrokerId, NULL)
  <2>1. q \in Incoming /\ q.kind = "PUBREL"
    <3>1. BrokerId \in Ids
      BY DEF BrokerId
    <3> QED
      BY <3>1, ReplyPacket
  <2>2. toClient' \in {toClient, Append(toClient, q)}
    <3>1. p.id = BrokerId
      BY <1>2, <1>10 DEF Outgoing, AnswerKinds
    <3> QED
      BY <1>10, <3>1 DEF Reply, ReplyWith
  <2> HIDE DEF q
  <2>3. Exchange(Tail(toBroker), toClient', "release", Level, Count, Held)
    <3>1. bPhase \in {"ack", "release"} /\ Head(toBroker).kind = "PUBREC"
      BY <1>6, <1>10 DEF p
    <3>2. Has(toBroker, "PUBREC")
      BY <1>1, <1>3, <3>1, HeadPackets
    <3>3. Level = 2
      BY <1>4, <1>6, <3>1, <3>2 DEF Exchange
    <3>4. Exchange(toBroker, toClient, bPhase, 2, Count, Held)
      BY <1>4, <3>3
    <3>5. /\ Exchange(Tail(toBroker), toClient, "release", 2, Count, Held)
          /\ Exchange(Tail(toBroker), Append(toClient, q), "release", 2, Count, Held)
      BY <1>1, <1>3, <2>1, <3>1, <3>4, ExchangeRelease
    <3> QED
      BY <2>2, <3>3, <3>5
  <2>4. toClient' \in Seq(Incoming)
    BY <1>3, <2>1, <2>2, AppendPackets
  <2>5. Announces(toClient', Len(bQos), Level)
    BY <1>3, <1>6, <2>1, <2>2, AnnouncesAppend
  <2>6. WireInv'
    BY <1>1, <1>2, <1>10, <2>4 DEF ExInv, WireInv
  <2>7. InboundInv'
    BY <1>1, <1>5, <1>10, <2>3, <2>5 DEF ExInv, InboundInv
  <2> QED
    BY <1>1, <1>5, <1>10, <2>6, <2>7 DEF ExInv, Standing
<1>11. CASE Ends(p) /\ bPhase' = "idle" /\ UNCHANGED toClient
  <2>1. Count > 0 /\ \A q : Exchange(Tail(toBroker), toClient, "idle", q, Count, Held)
    BY <1>1, <1>3, <1>4, <1>6, <1>11, ExchangeEnd DEF Ends, p
  <2>2. bPhase # "idle"
    BY <1>11 DEF Ends
  <2>3. WireInv'
    BY <1>1, <1>2, <1>3, <1>11 DEF ExInv, WireInv
  <2>4. InboundInv'
    BY <1>1, <1>5, <1>11, <2>1 DEF ExInv, InboundInv
  <2> QED
    BY <1>1, <1>5, <1>11, <2>1, <2>2, <2>3, <2>4 DEF ExInv, Confirming
<1>12. CASE UNCHANGED <<toClient, bPhase>>
  <2>1. 1 \in Ids
    OBVIOUS
  <2> QED
    BY <1>7, <1>12, <2>1, ReplyPacket
<1>13. CASE p.kind = "PINGREQ" /\ Reply("PINGRESP", 0) /\ UNCHANGED bPhase
  <2>1. 1 \in Ids
    OBVIOUS
  <2> QED
    BY <1>7, <1>13, <2>1, ReplyPacket DEF Reply, ReplyWith
<1>14. CASE /\ p.kind = "SUBSCRIBE" /\ UNCHANGED bPhase
            /\ \E code \in SubCodes : ReplyWith("SUBACK", p.id, code)
  <2>1. p.id \in Ids
    BY <1>2, <1>14 DEF Outgoing
  <2> QED
    BY <1>7, <1>14, <2>1, ReplyPacket DEF ReplyWith
<1>15. CASE p.kind = "UNSUBSCRIBE" /\ Reply("UNSUBACK", p.id) /\ UNCHANGED bPhase
  <2>1. p.id \in Ids
    BY <1>2, <1>15 DEF Outgoing
  <2> QED
    BY <1>7, <1>15, <2>1, ReplyPacket DEF Reply, ReplyWith
<1> QED
  BY <1>1, <1>8, <1>9, <1>10, <1>11, <1>12, <1>13, <1>14, <1>15 DEF BrokerReceive
\* The broker sends the next message.
LEMMA InboundSend == ASSUME ExInv, BrokerSend PROVE ExInv' /\ Offering
<1>1. /\ bPhase = "idle" /\ bPhase' = "ack" /\ Len(bQos) < BrokerMsgs
      /\ acks' = acks /\ ub' = "none" /\ toBroker' = toBroker
      /\ UNCHANGED <<hand, rcvd, Passed>>
  BY PassedSame DEF BrokerSend, vars, ExInv, WireInv
<1>2. PICK q \in InQos \ {0} :
         /\ bQos' = Append(bQos, q)
         /\ toClient' = Append(toClient, Publish(BrokerId, q, 0, Len(bQos) + 1))
  BY DEF BrokerSend
<1>3. Offering
  BY <1>1, <1>2 DEF Offering
<1> DEFINE p == Publish(BrokerId, q, 0, Len(bQos) + 1)
<1>4. q \in 1..2 /\ BrokerMsgs \in Nat
  BY QosAssumption, SystemAssumption
<1>5. bQos \in Seq(InQos \ {0}) /\ Len(bQos) \in Nat
  BY DEF ExInv, WireInv
<1>6. p \in Incoming /\ p.kind = "PUBLISH" /\ p.body = Len(bQos) + 1 /\ p.qos = q
  BY <1>4, <1>5 DEF Publish, Incoming, AnswerKinds, BrokerId
<1> HIDE DEF p
<1>7. /\ bQos' \in Seq(InQos \ {0}) /\ Len(bQos') = Len(bQos) + 1
      /\ bQos'[Len(bQos) + 1] = q /\ bQos' # <<>>
  BY <1>2, <1>5
<1>8. Level' = q
  BY <1>7 DEF Level
<1>9. Count' = 0
  <2>1. Len(bQos) + 1 \in 1..BrokerMsgs /\ Len(bQos) + 1 > Len(bQos)
    BY <1>1, <1>4, <1>5
  <2>2. Passed[Len(bQos) + 1] = 0
    BY <2>1 DEF ExInv, InboundInv
  <2> QED
    BY <1>1, <1>7, <2>2 DEF Count
<1>10. Held' = Held /\ RepeatInv'
  BY <1>1 DEF Held, ExInv, RepeatInv, RepeatOK
<1>11. toClient \in Seq(Incoming) /\ toBroker \in Seq(Outgoing)
  BY DEF ExInv, WireInv
<1>12. Exchange(toBroker, toClient, "idle", Level, Count, Held)
  BY <1>1 DEF ExInv, InboundInv
<1>13. toClient' = Append(toClient, p)
  BY <1>2 DEF p
<1>14. toClient' \in Seq(Incoming)
  BY <1>6, <1>11, <1>13, AppendPackets
<1>15. Exchange(toBroker, Append(toClient, p), "ack", q, 0, Held)
  BY <1>4, <1>6, <1>11, <1>12, ExchangeStart
<1>16. Announces(Append(toClient, p), Len(bQos) + 1, q)
  <2>1. ~Has(toClient, "PUBLISH")
    BY <1>12 DEF Exchange
  <2> QED
    BY <1>6, <1>11, <2>1, AnnouncesAppend
<1>17. \A n \in 1..BrokerMsgs : n > Len(bQos') => Passed'[n] = 0
  BY <1>1, <1>4, <1>5, <1>7 DEF ExInv, InboundInv
<1>18. WireInv'
  <2>1. Len(bQos') <= BrokerMsgs
    BY <1>1, <1>4, <1>5, <1>7
  <2> QED
    BY <1>1, <1>7, <1>11, <1>14, <2>1 DEF ExInv, WireInv
<1>19. InboundInv'
  BY <1>1, <1>7, <1>8, <1>9, <1>10, <1>13, <1>15, <1>16, <1>17 DEF InboundInv
<1> QED
  BY <1>3, <1>10, <1>18, <1>19 DEF ExInv

\* A new connection of the same session.
LEMMA InboundConnected ==
    ASSUME ~CleanSession, ExInv, Connected, acks' = acks, ub' = "none"
    PROVE  ExInv' /\ UNCHANGED <<bQos, bPhase, hand, rcvd>>
<1>1. /\ UNCHANGED <<bQos, bPhase, hand, rcvd, Passed>>
      /\ toBroker' = <<>> /\ toClient' = Resume
  BY PassedSame DEF Connected
<1>2. Level' = Level /\ Count' = Count /\ Held' = Held /\ RepeatInv'
  BY <1>1 DEF Level, Count, Held, ExInv, RepeatInv, RepeatOK
<1>3. Held \in BOOLEAN
  BY DEF Held
<1>4. Exchange(toBroker, toClient, bPhase, Level, Count, Held)
  BY DEF ExInv, InboundInv
<1>5. /\ Level \in 1..2 /\ Len(bQos) \in Nat /\ bPhase \in {"idle", "ack", "release"}
      /\ bQos \in Seq(InQos \ {0})
      /\ bPhase # "idle" => Level = bQos[Len(bQos)] /\ bQos # <<>>
  BY LastMessage DEF ExInv, WireInv
<1>6. /\ toClient' \in Seq(Incoming) /\ Announces(toClient', Len(bQos), Level)
      /\ Exchange(<<>>, toClient', bPhase, Level, Count, Held)
  <2>1. CASE bPhase = "idle"
    <3>1. toClient' = <<>>
      BY <1>1, <2>1 DEF Resume
    <3>2. Exchange(<<>>, <<>>, bPhase, Level, Count, Held)
      BY <1>3, <1>4, <2>1, ExchangeResume
    <3> QED
      BY <3>1, <3>2 DEF Announces
  <2>2. CASE bPhase = "ack"
    <3> DEFINE p == Publish(BrokerId, bQos[Len(bQos)], 1, Len(bQos))
    <3>1. toClient' = <<p>>
      BY <1>1, <2>2 DEF Resume
    <3>2. bQos[Len(bQos)] \in InQos \ {0} /\ Level = bQos[Len(bQos)]
      BY <1>5, <2>2
    <3>3. p \in Incoming /\ p.kind = "PUBLISH" /\ p.body = Len(bQos) /\ p.qos = Level
      BY <1>5, <3>2 DEF Publish, Incoming, AnswerKinds, BrokerId
    <3> HIDE DEF p
    <3>4. Exchange(<<>>, <<p>>, bPhase, Level, Count, Held)
      BY <1>3, <1>4, <2>2, <3>3, ExchangeResume
    <3>5. Announces(<<p>>, Len(bQos), Level) /\ <<p>> \in Seq(Incoming)
      BY <3>3 DEF Announces
    <3> QED
      BY <3>1, <3>4, <3>5
  <2>3. CASE bPhase = "release"
    <3> DEFINE p == Pkt("PUBREL", BrokerId, NULL)
    <3>1. toClient' = <<p>>
      BY <1>1, <2>3 DEF Resume
    <3>2. p \in Incoming /\ p.kind = "PUBREL"
      BY DEF Pkt, Incoming, AnswerKinds, BrokerId
    <3> HIDE DEF p
    <3>3. Exchange(<<>>, <<p>>, bPhase, Level, Count, Held)
      BY <1>3, <1>4, <2>3, <3>2, ExchangeResume
    <3>4. Announces(<<p>>, Len(bQos), Level) /\ <<p>> \in Seq(Incoming)
      BY <3>2 DEF Announces
    <3> QED
      BY <3>1, <3>3, <3>4
  <2> QED
    BY <1>5, <2>1, <2>2, <2>3
<1>7. WireInv'
  BY <1>1, <1>6 DEF ExInv, WireInv
<1>8. InboundInv'
  BY <1>1, <1>2, <1>6 DEF ExInv, InboundInv
<1> QED
  BY <1>1, <1>2, <1>7, <1>8 DEF ExInv

\* Every step of the system keeps the invariant and is a step of Delivery.
LEMMA InboundStep ==
    ASSUME ~AllocMayFail, ~CleanSession, TypeInv, ExInv, HandInv, [SystemNext]_systemVars
    PROVE  ExInv' /\ (Standing \/ Taking \/ Giving \/ Confirming \/ Offering)
<1>0. ub' = "none"
  BY ClientStep DEF ExInv
<1>1. ASSUME UNCHANGED <<acks, bQos, bPhase, hand, rcvd>>, toClient' \in {toClient, <<>>},
             toBroker' \in {toBroker, <<>>}
      PROVE  ExInv' /\ Standing
  <2>1. Held' = Held /\ RepeatInv'
    BY <1>1 DEF Held, ExInv, RepeatInv, RepeatOK
  <2>2. toClient' \in Rest(toClient) /\ toBroker' \in Rest(toBroker)
    BY <1>1 DEF Rest
  <2> QED
    BY <1>0, <1>1, <2>1, <2>2, PassedSame, InboundAside DEF ExInv, Standing
<1>2. ASSUME Aside, Wire(toClient), UNCHANGED <<bQos, bPhase, hand, rcvd>>
      PROVE  ExInv' /\ Standing
  <2>1. toClient \in Rest(toClient)
    BY DEF Rest
  <2> QED
    BY <1>0, <1>2, <2>1, PassedSame, InboundWire DEF ExInv, Standing
<1>3. CASE UNCHANGED systemVars \/ Cut \/ Reconnect
  <2>1. UNCHANGED <<acks, bQos, bPhase, hand, rcvd>>
    BY <1>3 DEF systemVars, Cut, Reconnect, vars, brokerVars, mqtt_try_reconnect, ackVars
  <2>2. toClient' \in {toClient, <<>>} /\ toBroker' \in {toBroker, <<>>}
    BY <1>3 DEF systemVars, Cut, Reconnect, wireVars
  <2> QED
    BY <1>1, <2>1, <2>2
<1>4. CASE Read
  BY <1>4, InboundRead DEF Standing
<1>5. CASE Resend
  BY <1>5, InboundResend DEF Standing, ExInv
<1>6. CASE ReadNothing
  BY <1>2, <1>6, AsideYield DEF ReadNothing, brokerVars, ExInv
<1>7. CASE KeepAlive
  BY <1>2, <1>7, AsideYield DEF KeepAlive, brokerVars, ExInv
<1>8. CASE Other
  BY <1>2, <1>8, AsideYield DEF Other, brokerVars, ExInv
<1>9. CASE Handshake
  <2>1. acks' = acks
    BY <1>9 DEF Handshake, mqtt_reconnect_handshake, ackVars
  <2>2. CASE Connected
    BY <1>0, <2>1, <2>2, InboundConnected DEF Standing
  <2>3. CASE toClient' = <<>> /\ UNCHANGED <<toBroker, brokerVars, hand, rcvd>>
    BY <1>1, <2>1, <2>3 DEF brokerVars
  <2> QED
    BY <1>9, <2>2, <2>3 DEF Handshake
<1>10. CASE BrokerRead
  BY <1>10, InboundBrokerRead
<1>11. CASE BrokerSend
  BY <1>11, InboundSend
<1>12. ASSUME NEW i \in Users, Connect(i) PROVE ExInv' /\ Standing
  <2>1. acks' = acks
    BY <1>12 DEF Connect, mqtt_connect, ackVars
  <2>2. CASE Connected
    BY <1>0, <2>1, <2>2, InboundConnected DEF Standing
  <2>3. CASE UNCHANGED <<wireVars, brokerVars, hand, rcvd>>
    BY <1>1, <2>1, <2>3 DEF brokerVars, wireVars
  <2> QED
    BY <1>12, <2>2, <2>3 DEF Connect
<1>13. ASSUME NEW i \in Users, Ask(i) \/ AskTopic(i) PROVE ExInv' /\ Standing
  <2>1. acks' = acks
    BY <1>13 DEF Ask, AskTopic, mqtt_publish, mqtt_subscribe, mqtt_unsubscribe, CheckConnected,
       ackVars
  <2>2. UNCHANGED <<wireVars, brokerVars, hand, rcvd>>
    BY <1>13 DEF Ask, AskTopic
  <2> QED
    BY <1>1, <2>1, <2>2 DEF brokerVars, wireVars
<1>15. CASE Deliver
  <2>1. Aside /\ Wire(toClient) /\ toClient \in Rest(toClient) /\ UNCHANGED <<bQos, bPhase>>
    BY <1>15, AsideYield DEF Deliver, brokerVars, ExInv, Rest
  <2>2. hand # 0
    BY <1>15 DEF Deliver, mqtt_deliver_message, HandInv
  <2>3. Giving
    BY <1>15, <2>1, <2>2 DEF Deliver, Giving
  <2>4. Len(bQos) \in Nat /\ Len(bQos) <= BrokerMsgs /\ BrokerMsgs \in Nat
    BY SystemAssumption DEF ExInv, WireInv
  <2>5. Passed' = Passed
    BY <2>2, <2>3, <2>4, PassedGive DEF Giving
  <2> QED
    BY <1>0, <2>1, <2>3, <2>5, InboundWire DEF ExInv
<1>14. ASSUME NEW i \in Users, InCall(i) PROVE ExInv' /\ Standing
  BY <1>2, <1>14, AsideCall DEF InCall, brokerVars, ExInv
<1> QED
  BY <1>3, <1>4, <1>5, <1>6, <1>7, <1>8, <1>9, <1>10, <1>11, <1>12, <1>13, <1>14,
     <1>15      DEF SystemNext, YieldThread
\* The message in hand, through every step.
LEMMA HandStep ==
    ASSUME TypeInv, ExInv, HandInv, [SystemNext]_systemVars,
           Standing \/ Taking \/ Giving \/ Confirming \/ Offering
    PROVE  HandInv'
<1>1. /\ bQos \in Seq(InQos \ {0}) /\ Len(bQos) \in Nat /\ Len(bQos) <= BrokerMsgs
      /\ BrokerMsgs \in Nat /\ (bPhase # "idle" => bQos # <<>>)
      /\ rcvd \in [1..BrokerMsgs -> 0..2] /\ hand \in 0..Len(bQos)
  BY SystemAssumption DEF ExInv, WireInv, HandInv
<1>2. ASSUME hand' # 0 <=> y' = "deliver" PROVE HandInv'
  <2>1. CASE Taking
    <3>1. /\ Len(bQos) \in 1..BrokerMsgs /\ Level = bQos[Len(bQos)]
          /\ Count = Passed[Len(bQos)]
      BY <1>1, <2>1, LastMessage DEF Taking, ExInv
    <3>2. Passed = rcvd
      BY <2>1, PassedSame DEF Taking
    <3> QED
      BY <1>1, <1>2, <2>1, <3>1, <3>2 DEF Taking, HandInv
  <2>2. CASE Giving
    BY <1>1, <1>2, <2>2 DEF Giving, HandInv
  <2>3. CASE Standing \/ Confirming
    BY <1>1, <1>2, <2>3 DEF Standing, Confirming, HandInv
  <2>4. CASE Offering
    <3>1. PICK q \in InQos \ {0} : bQos' = Append(bQos, q)
      BY <2>4 DEF Offering
    <3>2. /\ Len(bQos') = Len(bQos) + 1
          /\ \A n \in 1..Len(bQos) : bQos'[n] = bQos[n]
      BY <1>1, <3>1
    <3>3. UNCHANGED <<hand, rcvd>>
      BY <2>4 DEF Offering
    <3> QED
      BY <1>1, <1>2, <3>2, <3>3 DEF HandInv
  <2> QED
    BY <2>1, <2>2, <2>3, <2>4
<1>3. ASSUME y # "deliver", y' # "deliver", UNCHANGED hand PROVE HandInv'
  BY <1>2, <1>3 DEF HandInv
<1>4. ASSUME UNCHANGED <<y, hand>> PROVE HandInv'
  BY <1>2, <1>4 DEF HandInv
<1>5. CASE UNCHANGED systemVars \/ Cut \/ BrokerRead \/ BrokerSend
  BY <1>4, <1>5 DEF systemVars, Cut, BrokerRead, BrokerSend, vars
<1>6. CASE Read
  <2>1. y = "loop"
    BY <1>6, ReadStep DEF ExInv, mqtt_packet_handle, mqtt_puback_and_pubcomp_packet_handle,
       mqtt_suback_packet_handle, mqtt_unsuback_packet_handle, mqtt_publish_packet_handle,
       mqtt_pubrec_packet_handle, mqtt_pubrel_packet_handle, pingresp_packet_handle,
       nothing_read, ignored_packet, CanRead
  <2>2. CASE y' # "deliver"
    BY <1>3, <1>6, <2>1, <2>2 DEF Read
  <2>3. CASE y' = "deliver"
    <3> DEFINE p == Head(toClient)
    <3>1. p \in Incoming /\ toClient # <<>> /\ hand' = p.body
      BY <1>6, <2>3, HeadIncoming DEF Read, ExInv
    <3>2. p.kind = "PUBLISH"
      BY <1>6, <2>3 DEF Read, Handle, mqtt_puback_and_pubcomp_packet_handle,
         mqtt_pubrec_packet_handle, mqtt_pubrel_packet_handle, mqtt_suback_packet_handle,
         mqtt_unsuback_packet_handle, pingresp_packet_handle, ThenKeepAlive
    <3>3. toClient \in Seq(Incoming)
      BY DEF ExInv, WireInv
    <3>a. p = toClient[1] /\ 1 \in 1..Len(toClient)
      BY <3>1, <3>3, TailPackets
    <3>4. p = toClient[1] /\ 1 \in 1..Len(toClient) /\ Has(toClient, "PUBLISH")
      BY <3>2, <3>a DEF Has
    <3>5. p.body = Len(bQos)
      BY <3>2, <3>4 DEF ExInv, InboundInv, Announces
    <3>6. bPhase # "idle"
      BY <3>4 DEF ExInv, InboundInv, Exchange
    <3>7. Len(bQos) # 0
      BY <1>1, <3>6
    <3> QED
      BY <1>2, <2>3, <3>1, <3>5, <3>7
  <2> QED
    BY <2>2, <2>3
<1>7. CASE Deliver
  BY <1>2, <1>7 DEF Deliver, mqtt_deliver_message, ThenKeepAlive
<1>8. CASE ReadNothing \/ KeepAlive \/ Resend \/ Other
  <2>1. y # "deliver" /\ y' # "deliver"
    BY <1>8 DEF ReadNothing, KeepAlive, Resend, Other, nothing_read, ThenKeepAlive,
       mqtt_keep_alive, StartScan, mqtt_ack_handler_resend, mqtt_try_resubscribe, Scanning,
       mqtt_keep_alive_drop, mqtt_ack_list_scan_destroy, mqtt_ack_list_scan_end,
       mqtt_reconnect_done, mqtt_resubscribed
  <2>2. UNCHANGED hand
    BY <1>8 DEF ReadNothing, KeepAlive, Resend, Other
  <2> QED
    BY <1>3, <2>1, <2>2
<1>9. CASE Reconnect \/ Handshake
  <2>1. y # "deliver" /\ y' # "deliver"
    BY <1>9 DEF Reconnect, Handshake, mqtt_try_reconnect, mqtt_reconnect_handshake
  <2>2. UNCHANGED hand
    BY <1>9 DEF Reconnect, Handshake, Connected
  <2> QED
    BY <1>3, <2>1, <2>2
<1>10. ASSUME NEW i \in Users, Connect(i) PROVE HandInv'
  <2>1. y # "deliver" /\ y' # "deliver"
    BY <1>10 DEF Connect, mqtt_connect
  <2>2. UNCHANGED hand
    BY <1>10 DEF Connect, Connected
  <2> QED
    BY <1>3, <2>1, <2>2
<1>11. ASSUME NEW i \in Users, Ask(i) \/ AskTopic(i) \/ InCall(i) PROVE HandInv'
  <2>1. y' = y
    BY <1>11 DEF Ask, AskTopic, InCall, mqtt_publish, mqtt_subscribe, mqtt_unsubscribe,
       CheckConnected, mqtt_request_send, mqtt_subscribe_record, mqtt_unsubscribe_record,
       mqtt_publish_send, mqtt_publish_record, mqtt_publish_release,
       mqtt_publish_disconnected, yieldVars
  <2>2. UNCHANGED hand
    BY <1>11 DEF Ask, AskTopic, InCall
  <2> QED
    BY <1>4, <2>1, <2>2
<1> QED
  BY <1>5, <1>6, <1>7, <1>8, <1>9, <1>10, <1>11 DEF SystemNext, YieldThread

\* The abstract steps.
LEMMA InboundDelivers ==
    ASSUME ExInv, HandInv, Standing \/ Taking \/ Giving \/ Confirming \/ Offering
    PROVE  [In!Next]_(In!deliveryVars)
<1> DEFINE level == [n \in 1..BrokerMsgs |-> IF n <= Len(bQos) THEN bQos[n] ELSE 0]
           done == (1..BrokerDone) \ {hand}
<1>1. /\ bQos \in Seq(InQos \ {0}) /\ Len(bQos) \in Nat /\ Len(bQos) <= BrokerMsgs
      /\ BrokerMsgs \in Nat /\ InQos \ {0} \subseteq 1..2
      /\ bPhase # "idle" => bQos # <<>>
      /\ rcvd \in [1..BrokerMsgs -> 0..2] /\ hand \in 0..Len(bQos)
      /\ BrokerDone \in Int /\ BrokerDone <= Len(bQos)
  BY QosAssumption, SystemAssumption DEF ExInv, WireInv, HandInv, BrokerDone
<1>2. CASE Standing
  BY <1>2 DEF Standing, In!deliveryVars, BrokerDone
<1>3. CASE Taking
  <2>1. BrokerDone = Len(bQos) - 1 /\ BrokerDone' = BrokerDone /\ hand = 0 /\ hand' = Len(bQos)
    BY <1>3 DEF Taking, BrokerDone
  <2>2. done' = done
    BY <1>1, <2>1
  <2> QED
    BY <1>3, <2>2 DEF Taking, In!deliveryVars
<1>4. CASE Giving
  <2>0. PICK m \in 1..BrokerMsgs : m = hand
    BY <1>1, <1>4 DEF Giving
  <2>1. /\ m \in 1..Len(bQos) /\ bQos[m] \in 1..2 /\ (bQos[m] = 2 => rcvd[m] = 0)
        /\ BrokerDone' = BrokerDone /\ UNCHANGED bQos /\ hand' = 0
        /\ rcvd' = [rcvd EXCEPT ![m] = IF @ = 2 THEN 2 ELSE @ + 1]
    BY <1>1, <1>4, <2>0 DEF Giving, HandInv, BrokerDone
  <2>2. level[m] = bQos[m]
    BY <1>1, <2>1
  <2>3. done' \in {done, done \cup ({m} \cap (1..Len(bQos)))}
    <3>1. CASE m \in 1..BrokerDone
      BY <1>1, <2>0, <2>1, <3>1
    <3>2. CASE m \notin 1..BrokerDone
      BY <1>1, <2>0, <2>1, <3>2
    <3> QED
      BY <3>1, <3>2
  <2>4. UNCHANGED <<level, Len(bQos)>>
    BY <2>1
  <2> HIDE DEF level, done
  <2>5. In!Deliver(m)
    BY <2>1, <2>2, <2>3, <2>4 DEF In!Deliver, level, done
  <2> QED
    BY <2>0, <2>5 DEF In!Next
<1>5. CASE Confirming
  <2>1. Len(bQos) \in 1..BrokerMsgs /\ Count = Passed[Len(bQos)]
    BY <1>1, <1>5, LastMessage DEF Confirming, ExInv
  <2>2. /\ BrokerDone = Len(bQos) - 1 /\ BrokerDone' = Len(bQos)
        /\ UNCHANGED <<bQos, hand, rcvd>> /\ Count > 0
    BY <1>5 DEF Confirming, BrokerDone
  <2>3. CASE hand = Len(bQos)
    <3>1. done' = done
      BY <1>1, <2>1, <2>2, <2>3
    <3> QED
      BY <2>2, <3>1 DEF In!deliveryVars
  <2>4. CASE hand # Len(bQos)
    <3>1. rcvd[Len(bQos)] > 0
      BY <2>1, <2>2, <2>4 DEF Passed
    <3>2. Len(bQos) \in (1..Len(bQos)) \ done
      BY <1>1, <2>1, <2>2
    <3>3. done' = done \cup {Len(bQos)}
      BY <1>1, <2>1, <2>2, <2>4
    <3>4. In!Confirm(Len(bQos))
      BY <2>2, <3>1, <3>2, <3>3 DEF In!Confirm
    <3> QED
      BY <2>1, <3>4 DEF In!Next
  <2> QED
    BY <2>3, <2>4
<1>6. CASE Offering
  <2>1. PICK q \in InQos \ {0} : bQos' = Append(bQos, q)
    BY <1>6 DEF Offering
  <2>2. /\ Len(bQos') = Len(bQos) + 1 /\ q \in 1..2 /\ Len(bQos) < BrokerMsgs
        /\ \A n \in 1..Len(bQos) : bQos'[n] = bQos[n]
        /\ bQos'[Len(bQos) + 1] = q
    BY <1>1, <1>6, <2>1 DEF Offering
  <2>3. BrokerDone' = BrokerDone /\ UNCHANGED <<hand, rcvd>>
    BY <1>1, <1>6, <2>2 DEF Offering, BrokerDone
  <2>0. PICK m \in 1..BrokerMsgs : m = Len(bQos) + 1
    BY <1>1, <2>2
  <2>4. level[m] = 0
    BY <1>1, <2>0
  <2>5. level' = [level EXCEPT ![m] = q]
    <3>1. ASSUME NEW n \in 1..BrokerMsgs, n # m
          PROVE  (IF n <= Len(bQos') THEN bQos'[n] ELSE 0) = IF n <= Len(bQos) THEN bQos[n] ELSE 0
      BY <1>1, <2>0, <2>2, <3>1
    <3>2. (IF m <= Len(bQos') THEN bQos'[m] ELSE 0) = q
      BY <1>1, <2>0, <2>2
    <3> QED
      BY <2>0, <3>1, <3>2
  <2>6. 1..Len(bQos') = (1..Len(bQos)) \cup {m}
    BY <1>1, <2>0, <2>2
  <2>7. In!Offer(m)
    BY <2>2, <2>3, <2>4, <2>5, <2>6 DEF In!Offer
  <2> HIDE DEF level
  <2> QED
    BY <2>0, <2>7 DEF In!Next
<1> QED
  BY <1>2, <1>3, <1>4, <1>5, <1>6

\* No message is under way at the start.
LEMMA InboundInit == SystemInit => InInv /\ In!Init
<1> SUFFICES ASSUME SystemInit PROVE InInv /\ In!Init
    OBVIOUS
<1> USE DEF SystemInit, Init
<1>0. HandInv
  BY SystemAssumption DEF HandInv
<1>p. Passed = rcvd
  BY <1>0, PassedSame
<1>1. WireInv /\ RepeatInv
  BY <1>p, SystemAssumption DEF WireInv, RepeatInv
<1>2. ~Held /\ Announces(toClient, Len(bQos), Level)
  BY DEF Held, Announces
<1>3. Exchange(toBroker, toClient, bPhase, Level, Count, Held)
  BY <1>2, NoPackets DEF Exchange
<1>4. InboundInv
  BY <1>2, <1>3, <1>p DEF InboundInv
<1>5. In!Init
  BY SystemAssumption DEF In!Init, BrokerDone
<1> QED
  BY <1>0, <1>1, <1>4, <1>5 DEF InInv, ExInv

\* Both together.
LEMMA InStep ==
    ASSUME ~AllocMayFail, ~CleanSession
    PROVE  TypeInv /\ InInv /\ [SystemNext]_systemVars => InInv' /\ [In!Next]_(In!deliveryVars)
<1> SUFFICES ASSUME TypeInv, InInv, [SystemNext]_systemVars
             PROVE  InInv' /\ [In!Next]_(In!deliveryVars)
    OBVIOUS
<1>1. ExInv' /\ (Standing \/ Taking \/ Giving \/ Confirming \/ Offering)
  BY InboundStep DEF InInv
<1>2. HandInv'
  BY <1>1, HandStep DEF InInv
<1>3. [In!Next]_(In!deliveryVars)
  BY <1>1, InboundDelivers DEF InInv
<1> QED
  BY <1>1, <1>2, <1>3 DEF InInv

\* In a session that is kept, with a client whose allocations succeed, every
\* message of the broker is delivered as MQTT promises.  The broker forgets a
\* message only when the application got it or the yield thread is inside
\* mqtt_deliver_message with it, and at QoS 2 the application gets it exactly
\* once: however many messages there are, whatever fails, and although every
\* message uses the same packet id.
THEOREM InboundCorrect ==
    ASSUME ~AllocMayFail, ~CleanSession
    PROVE  SystemSpec => InboundDelivery
<1>1. SystemInit => Init
  BY DEF SystemInit
<1>2. InInv /\ [SystemNext]_systemVars => [Next]_vars
  BY ClientStep DEF InInv, ExInv
<1>3. TypeInv /\ InInv /\ [SystemNext]_systemVars => InInv' /\ [In!Next]_(In!deliveryVars)
  BY InStep
<1> QED
  BY <1>1, <1>2, <1>3, ListInit, ListStep, TypeInit, TypeStep, InboundInit, PTL
     DEF SystemSpec, InboundDelivery, In!SafeSpec
-----------------------------------------------------------------------------
(* Handlers and subscriptions.  asks are the SUBSCRIBE and UNSUBSCRIBE     *)
(* packets on their way, tells the SUBACK and UNSUBACK packets; going are  *)
(* the unsubscribes and coming the subscribes the client waits for, topics *)
(* those it has handlers for and subs those the broker knows.              *)

Agree(asks, tells, going, coming, topics, subs) ==
    /\ \A t \in topics : t \in subs \/ \E g \in going : g.body = t
    /\ \A p \in asks : p.kind = "UNSUBSCRIBE" =>
          \/ p \in going
          \/ p.body \notin topics /\ \A c \in coming : c.body = p.body => p.id < c.id
    /\ \A p \in asks, c \in coming : p.kind = "SUBSCRIBE" /\ c.id = p.id => c.body = p.body
    /\ \A p \in tells, c \in coming :
          p.kind = "SUBACK" /\ p.body # SUBFAIL /\ c.id = p.id =>
             c.body \in subs \/ \E g \in going : g.body = c.body /\ p.id < g.id

\* Answers come in the order of the requests, whose ids are at most n.
InTurn(asks, tells, n) ==
    /\ \A p \in asks : p.id \in Int /\ p.id <= n
    /\ \A p \in tells : p.id \in Int /\ p.id <= n
    /\ \A p \in asks, q \in tells : q.id < p.id

\* Packets lost, subscribes given up, handlers gone and subscriptions made.
LEMMA AgreeKeep ==
    ASSUME NEW asks, NEW tells, NEW going, NEW coming, NEW topics, NEW subs,
           Agree(asks, tells, going, coming, topics, subs),
           NEW asks2, asks2 \subseteq asks, NEW tells2, tells2 \subseteq tells,
           NEW going2, going \subseteq going2, NEW coming2, coming2 \subseteq coming,
           NEW topics2, topics2 \subseteq topics, NEW subs2, subs \subseteq subs2
    PROVE  Agree(asks2, tells2, going2, coming2, topics2, subs2)
BY DEF Agree

\* A subscribe is sent, with a new id.
LEMMA AgreeSubscribe ==
    ASSUME NEW asks, NEW tells, NEW going, NEW coming, NEW topics, NEW subs,
           Agree(asks, tells, going, coming, topics, subs),
           NEW n \in Int, InTurn(asks, tells, n), \A c \in coming : c.id \in Int /\ c.id <= n,
           NEW p, p.kind = "SUBSCRIBE", p.id = n + 1
    PROVE  Agree(asks \cup {p}, tells, going, coming \cup {p}, topics, subs)
BY DEF Agree, InTurn

\* An unsubscribe is sent, with a new id.
LEMMA AgreeUnsubscribe ==
    ASSUME NEW asks, NEW tells, NEW going, NEW coming, NEW topics, NEW subs,
           Agree(asks, tells, going, coming, topics, subs),
           NEW p, p.kind = "UNSUBSCRIBE"
    PROVE  Agree(asks \cup {p}, tells, going \cup {p}, coming, topics, subs)
BY DEF Agree

\* The broker answers a subscribe with a return code.
LEMMA AgreeSuback ==
    ASSUME NEW asks, NEW tells, NEW going, NEW coming, NEW topics, NEW subs,
           Agree(asks, tells, going, coming, topics, subs),
           NEW p \in asks, p.kind = "SUBSCRIBE", NEW q, q.id = p.id, NEW subs2,
           subs2 = IF q.body = SUBFAIL THEN subs ELSE subs \cup {p.body}
    PROVE  Agree(asks, tells \cup {q}, going, coming, topics, subs2)
BY DEF Agree

\* The broker answers an unsubscribe.
LEMMA AgreeUnsuback ==
    ASSUME NEW asks, NEW tells, NEW going, NEW coming, NEW topics, NEW subs,
           Agree(asks, tells, going, coming, topics, subs), NEW n \in Int,
           InTurn(asks, tells, n),
           NEW p \in asks, p.kind = "UNSUBSCRIBE", NEW q, q.kind = "UNSUBACK"
    PROVE  Agree(asks, tells \cup {q}, going, coming, topics, subs \ {p.body})
<1>1. \A t \in topics : t \in subs \ {p.body} \/ \E g \in going : g.body = t
  BY DEF Agree
<1>2. ASSUME NEW r \in tells, NEW c \in coming, r.kind = "SUBACK", r.body # SUBFAIL,
             c.id = r.id
      PROVE  c.body \in subs \ {p.body} \/ \E g \in going : g.body = c.body /\ r.id < g.id
  <2>1. CASE c.body # p.body
    BY <1>2, <2>1 DEF Agree
  <2>2. CASE c.body = p.body
    <3>1. r.id < p.id /\ p.id \in Int /\ r.id \in Int
      BY <1>2 DEF InTurn
    <3>2. p \in going
      BY <1>2, <2>2, <3>1 DEF Agree
    <3> QED
      BY <2>2, <3>1, <3>2
  <2> QED
    BY <2>1, <2>2
<1> QED
  BY <1>1, <1>2 DEF Agree

\* A granted subscribe installs its handler.
LEMMA AgreeInstall ==
    ASSUME NEW asks, NEW tells, NEW going, NEW coming, NEW topics, NEW subs,
           Agree(asks, tells, going, coming, topics, subs), NEW n \in Int,
           InTurn(asks, tells, n), NEW c \in coming,
           NEW q \in tells, q.kind = "SUBACK", q.body # SUBFAIL, q.id = c.id
    PROVE  Agree(asks, tells, going, coming, topics \cup {c.body}, subs)
<1>1. c.body \in subs \/ \E g \in going : g.body = c.body
  BY DEF Agree
<1>2. ASSUME NEW p \in asks, p.kind = "UNSUBSCRIBE", p.body = c.body PROVE p \in going
  <2>1. q.id < p.id /\ p.id \in Int /\ q.id \in Int
    BY DEF InTurn
  <2> QED
    BY <1>2, <2>1 DEF Agree
<1> QED
  BY <1>1, <1>2 DEF Agree

\* The handler of unsubscribe g goes, with its UNSUBACK or with the scan that
\* gives up g and every subscribe before it.
LEMMA AgreeGone ==
    ASSUME NEW asks, NEW tells, NEW going, NEW coming, NEW topics, NEW subs,
           Agree(asks, tells, going, coming, topics, subs), NEW g, g.id \in Int,
           \A p \in asks : p.id \in Int, \A p \in tells : p.id \in Int,
           \A c \in coming : c.id \in Int, 
           \/ (\A p \in asks : g.id < p.id) /\ (\A p \in tells : g.id < p.id)
           \/ \A c \in coming : g.id < c.id
    PROVE  Agree(asks, tells, going \ {g}, coming, topics \ {g.body}, subs)
<1>1. \A t \in topics \ {g.body} : t \in subs \/ \E e \in going \ {g} : e.body = t
  BY DEF Agree
<1>2. ASSUME NEW p \in asks, p.kind = "UNSUBSCRIBE"
      PROVE  \/ p \in going \ {g}
             \/ /\ p.body \notin topics \ {g.body}
                /\ \A c \in coming : c.body = p.body => p.id < c.id
  BY <1>2 DEF Agree
<1>3. ASSUME NEW p \in tells, NEW c \in coming, p.kind = "SUBACK", p.body # SUBFAIL, c.id = p.id
      PROVE  c.body \in subs \/ \E e \in going \ {g} : e.body = c.body /\ p.id < e.id
  BY <1>3 DEF Agree
<1> QED
  BY <1>1, <1>2, <1>3 DEF Agree

-----------------------------------------------------------------------------
(* The same on the queues: the packets of certain kinds, the order of      *)
(* their ids, and what both sides know of each other.                      *)

AskKinds == {"SUBSCRIBE", "UNSUBSCRIBE"}
TellKinds == {"SUBACK", "UNSUBACK"}

Of(q, kinds) == {q[k] : k \in {j \in 1..Len(q) : q[j].kind \in kinds}}

Rising(q, kinds) ==
    \A j, k \in 1..Len(q) : q[j].kind \in kinds /\ q[k].kind \in kinds /\ j < k => q[j].id < q[k].id

Talk(tb, tc, n, going, coming, topics, subs) ==
    /\ Agree(Of(tb, AskKinds), Of(tc, TellKinds), going, coming, topics, subs)
    /\ InTurn(Of(tb, AskKinds), Of(tc, TellKinds), n)
    /\ Rising(tb, AskKinds) /\ Rising(tc, TellKinds)

\* What is left of a queue.
LEMMA RestOf ==
    ASSUME NEW S, NEW q \in Seq(S), NEW r \in Rest(q), NEW kinds
    PROVE  /\ Of(r, kinds) \subseteq Of(q, kinds)
           /\ Rising(q, kinds) => Rising(r, kinds)
<1>1. CASE r = q
  BY <1>1
<1>2. CASE r = <<>>
  BY <1>2 DEF Of, Rising
<1>3. CASE q # <<>> /\ r = Tail(q)
  <2>1. /\ Tail(q) \in Seq(S) /\ Len(Tail(q)) = Len(q) - 1 /\ Len(q) \in Nat \ {0}
        /\ \A k \in 1..Len(Tail(q)) : k + 1 \in 1..Len(q) /\ Tail(q)[k] = q[k + 1]
    BY <1>3, TailPackets
  <2>2. Of(r, kinds) \subseteq Of(q, kinds)
    BY <1>3, <2>1 DEF Of
  <2>3. Rising(q, kinds) => Rising(r, kinds)
    BY <1>3, <2>1 DEF Rising
  <2> QED
    BY <2>2, <2>3
<1> QED
  BY <1>1, <1>2, <1>3 DEF Rest

\* The head comes before the rest.
LEMMA HeadOf ==
    ASSUME NEW S, NEW q \in Seq(S), q # <<>>, NEW kinds, Head(q).kind \in kinds
    PROVE  /\ Head(q) \in Of(q, kinds)
           /\ Rising(q, kinds) => \A p \in Of(Tail(q), kinds) : Head(q).id < p.id
<1>1. /\ Tail(q) \in Seq(S) /\ Len(Tail(q)) = Len(q) - 1 /\ Len(q) \in Nat \ {0}
      /\ \A k \in 1..Len(Tail(q)) : k + 1 \in 1..Len(q) /\ Tail(q)[k] = q[k + 1]
      /\ Head(q) = q[1] /\ 1 \in 1..Len(q)
  BY TailPackets
<1>2. Head(q) \in Of(q, kinds)
  BY <1>1 DEF Of
<1>3. ASSUME Rising(q, kinds), NEW p \in Of(Tail(q), kinds) PROVE Head(q).id < p.id
  <2>1. PICK k \in 1..Len(Tail(q)) : p = Tail(q)[k] /\ Tail(q)[k].kind \in kinds
    BY DEF Of
  <2>2. k + 1 \in 1..Len(q) /\ p = q[k + 1] /\ 1 < k + 1
    BY <1>1, <2>1
  <2> QED
    BY <1>1, <1>3, <2>1, <2>2 DEF Rising
<1> QED
  BY <1>2, <1>3

\* A packet at the end.
LEMMA AppendOf ==
    ASSUME NEW S, NEW q \in Seq(S), NEW p, NEW kinds
    PROVE  /\ p.kind \in kinds => Of(Append(q, p), kinds) = Of(q, kinds) \cup {p}
           /\ p.kind \notin kinds => Of(Append(q, p), kinds) = Of(q, kinds)
           /\ Rising(q, kinds) /\ (p.kind \in kinds => \A e \in Of(q, kinds) : e.id < p.id)
                 => Rising(Append(q, p), kinds)
<1> DEFINE a == Append(q, p)
<1>1. /\ Len(a) = Len(q) + 1 /\ Len(q) \in Nat
      /\ \A k \in 1..Len(q) : a[k] = q[k]
      /\ a[Len(q) + 1] = p
  OBVIOUS
<1> HIDE DEF a
<1>2. \A k \in 1..Len(a) : k \in 1..Len(q) \/ k = Len(q) + 1
  BY <1>1
<1>3. \A k \in 1..Len(q) : k \in 1..Len(a) /\ k < Len(q) + 1
  BY <1>1
<1>4. Len(q) + 1 \in 1..Len(a)
  BY <1>1
<1>5. /\ Of(a, kinds) \subseteq Of(q, kinds) \cup {p}
      /\ p.kind \notin kinds => Of(a, kinds) \subseteq Of(q, kinds)
  BY <1>1, <1>2 DEF Of
<1>6. Of(q, kinds) \subseteq Of(a, kinds)
  BY <1>1, <1>3 DEF Of
<1>7. p.kind \in kinds => p \in Of(a, kinds)
  BY <1>1, <1>4 DEF Of
<1>8. ASSUME Rising(q, kinds), p.kind \in kinds => \A e \in Of(q, kinds) : e.id < p.id
      PROVE  Rising(a, kinds)
  <2>1. \A k \in 1..Len(q) : q[k].kind \in kinds => q[k] \in Of(q, kinds)
    BY DEF Of
  <2>2. SUFFICES ASSUME NEW j \in 1..Len(a), NEW k \in 1..Len(a),
                        a[j].kind \in kinds, a[k].kind \in kinds, j < k
                 PROVE  a[j].id < a[k].id
    BY DEF Rising
  <2>3. j \in 1..Len(q) /\ a[j] = q[j]
    BY <1>1, <1>2, <2>2
  <2>4. CASE k \in 1..Len(q)
    BY <1>1, <1>8, <2>2, <2>3, <2>4 DEF Rising
  <2>5. CASE k = Len(q) + 1
    BY <1>1, <1>8, <2>1, <2>2, <2>3, <2>5
  <2> QED
    BY <1>2, <2>4, <2>5
<1> QED
  BY <1>5, <1>6, <1>7, <1>8 DEF a

\* Packets are lost or read, and what AgreeKeep allows.
LEMMA TalkKeep ==
    ASSUME NEW S, NEW tb \in Seq(S), NEW R, NEW tc \in Seq(R), NEW n \in Int,
           NEW going, NEW coming, NEW topics, NEW subs,
           Talk(tb, tc, n, going, coming, topics, subs),
           NEW tb2 \in Rest(tb), NEW tc2 \in Rest(tc), NEW n2 \in Int, n <= n2,
           NEW going2, going \subseteq going2, NEW coming2, coming2 \subseteq coming,
           NEW topics2, topics2 \subseteq topics, NEW subs2, subs \subseteq subs2
    PROVE  Talk(tb2, tc2, n2, going2, coming2, topics2, subs2)
<1>1. /\ Of(tb2, AskKinds) \subseteq Of(tb, AskKinds)
      /\ Of(tc2, TellKinds) \subseteq Of(tc, TellKinds)
      /\ Rising(tb2, AskKinds) /\ Rising(tc2, TellKinds)
  BY RestOf DEF Talk
<1>2. Agree(Of(tb2, AskKinds), Of(tc2, TellKinds), going2, coming2, topics2, subs2)
  BY <1>1, AgreeKeep DEF Talk
<1>3. InTurn(Of(tb2, AskKinds), Of(tc2, TellKinds), n2)
  BY <1>1 DEF Talk, InTurn
<1> QED
  BY <1>1, <1>2, <1>3 DEF Talk

\* Packets of other exchanges do not matter.
LEMMA TalkOther ==
    ASSUME NEW S, NEW tb \in Seq(S), NEW R, NEW tc \in Seq(R), NEW n \in Int,
           NEW going, NEW coming, NEW topics, NEW subs,
           Talk(tb, tc, n, going, coming, topics, subs), NEW p
    PROVE  /\ p.kind \notin AskKinds => Talk(Append(tb, p), tc, n, going, coming, topics, subs)
           /\ p.kind \notin TellKinds => Talk(tb, Append(tc, p), n, going, coming, topics, subs)
<1>1. ASSUME p.kind \notin AskKinds
      PROVE  Of(Append(tb, p), AskKinds) = Of(tb, AskKinds) /\ Rising(Append(tb, p), AskKinds)
  <2>1. Rising(tb, AskKinds)
    BY DEF Talk
  <2>2. Of(Append(tb, p), AskKinds) = Of(tb, AskKinds)
    BY <1>1, AppendOf
  <2>3. Rising(Append(tb, p), AskKinds)
    BY <1>1, <2>1, AppendOf
  <2> QED
    BY <2>2, <2>3
<1>2. ASSUME p.kind \notin TellKinds
      PROVE  Of(Append(tc, p), TellKinds) = Of(tc, TellKinds) /\ Rising(Append(tc, p), TellKinds)
  <2>1. Rising(tc, TellKinds)
    BY DEF Talk
  <2>2. Of(Append(tc, p), TellKinds) = Of(tc, TellKinds)
    BY <1>2, AppendOf
  <2>3. Rising(Append(tc, p), TellKinds)
    BY <1>2, <2>1, AppendOf
  <2> QED
    BY <2>2, <2>3
<1> QED
  BY <1>1, <1>2 DEF Talk

\* A subscribe is sent.
LEMMA TalkSubscribe ==
    ASSUME NEW S, NEW tb \in Seq(S), NEW R, NEW tc \in Seq(R), NEW n \in Int,
           NEW going, NEW coming, NEW topics, NEW subs,
           Talk(tb, tc, n, going, coming, topics, subs),
           \A c \in coming : c.id \in Int /\ c.id <= n,
           NEW p, p.kind = "SUBSCRIBE", p.id = n + 1
    PROVE  Talk(Append(tb, p), tc, n + 1, going, coming \cup {p}, topics, subs)
<1>1. Of(Append(tb, p), AskKinds) = Of(tb, AskKinds) \cup {p}
  BY AppendOf DEF AskKinds
<1>2. \A e \in Of(tb, AskKinds) : e.id < p.id
  BY DEF Talk, InTurn
<1>3. Rising(Append(tb, p), AskKinds)
  BY <1>2, AppendOf DEF Talk
<1>4. Agree(Of(tb, AskKinds) \cup {p}, Of(tc, TellKinds), going, coming \cup {p}, topics, subs)
  BY AgreeSubscribe DEF Talk
<1>5. InTurn(Of(tb, AskKinds) \cup {p}, Of(tc, TellKinds), n + 1)
  BY DEF Talk, InTurn
<1> QED
  BY <1>1, <1>3, <1>4, <1>5 DEF Talk

\* An unsubscribe is sent.
LEMMA TalkUnsubscribe ==
    ASSUME NEW S, NEW tb \in Seq(S), NEW R, NEW tc \in Seq(R), NEW n \in Int,
           NEW going, NEW coming, NEW topics, NEW subs,
           Talk(tb, tc, n, going, coming, topics, subs),
           NEW p, p.kind = "UNSUBSCRIBE", p.id = n + 1
    PROVE  Talk(Append(tb, p), tc, n + 1, going \cup {p}, coming, topics, subs)
<1>1. Of(Append(tb, p), AskKinds) = Of(tb, AskKinds) \cup {p}
  BY AppendOf DEF AskKinds
<1>2. \A e \in Of(tb, AskKinds) : e.id < p.id
  BY DEF Talk, InTurn
<1>3. Rising(Append(tb, p), AskKinds)
  BY <1>2, AppendOf DEF Talk
<1>4. Agree(Of(tb, AskKinds) \cup {p}, Of(tc, TellKinds), going \cup {p}, coming, topics, subs)
  BY AgreeUnsubscribe DEF Talk
<1>5. InTurn(Of(tb, AskKinds) \cup {p}, Of(tc, TellKinds), n + 1)
  BY DEF Talk, InTurn
<1> QED
  BY <1>1, <1>3, <1>4, <1>5 DEF Talk

\* A request that was sent on a dead connection.
LEMMA TalkUnsent ==
    ASSUME NEW tb, NEW tc, NEW n \in Int, NEW going, NEW coming, NEW topics, NEW subs,
           Talk(tb, tc, n, going, coming, topics, subs),
           \A c \in coming : c.id \in Int /\ c.id <= n, NEW p, p.id = n + 1
    PROVE  Talk(tb, tc, n + 1, going, coming \cup {p}, topics, subs)
<1>1. Agree(Of(tb, AskKinds), Of(tc, TellKinds), going, coming \cup {p}, topics, subs)
  BY DEF Talk, Agree, InTurn
<1>2. InTurn(Of(tb, AskKinds), Of(tc, TellKinds), n + 1)
  BY DEF Talk, InTurn
<1> QED
  BY <1>1, <1>2 DEF Talk

\* What the broker's answer to the head of tb does to the order.
LEMMA TurnAnswer ==
    ASSUME NEW S, NEW tb \in Seq(S), NEW R, NEW tc \in Seq(R), NEW n \in Int,
           tb # <<>>, Head(tb).kind \in AskKinds,
           InTurn(Of(tb, AskKinds), Of(tc, TellKinds), n),
           Rising(tb, AskKinds), Rising(tc, TellKinds),
           NEW q, q.kind \in TellKinds, q.id = Head(tb).id
    PROVE  /\ InTurn(Of(Tail(tb), AskKinds), Of(Append(tc, q), TellKinds), n)
           /\ Rising(Tail(tb), AskKinds) /\ Rising(Append(tc, q), TellKinds)
           /\ Of(Tail(tb), AskKinds) \subseteq Of(tb, AskKinds)
           /\ Of(Append(tc, q), TellKinds) = Of(tc, TellKinds) \cup {q}
           /\ Head(tb) \in Of(tb, AskKinds)
<1>1. Tail(tb) \in Rest(tb)
  BY DEF Rest
<1>2. Of(Tail(tb), AskKinds) \subseteq Of(tb, AskKinds) /\ Rising(Tail(tb), AskKinds)
  BY <1>1, RestOf
<1>3. Head(tb) \in Of(tb, AskKinds) /\ \A p \in Of(Tail(tb), AskKinds) : Head(tb).id < p.id
  BY HeadOf
<1>4. Of(Append(tc, q), TellKinds) = Of(tc, TellKinds) \cup {q}
  BY AppendOf
<1>5. \A e \in Of(tc, TellKinds) : e.id < q.id
  BY <1>3 DEF InTurn
<1>6. Rising(Append(tc, q), TellKinds)
  BY <1>5, AppendOf
<1>7. InTurn(Of(Tail(tb), AskKinds), Of(tc, TellKinds) \cup {q}, n)
  BY <1>2, <1>3 DEF InTurn
<1> QED
  BY <1>2, <1>3, <1>4, <1>6, <1>7

\* The broker answers a subscribe.
LEMMA TalkSuback ==
    ASSUME NEW S, NEW tb \in Seq(S), NEW R, NEW tc \in Seq(R), NEW n \in Int,
           NEW going, NEW coming, NEW topics, NEW subs,
           Talk(tb, tc, n, going, coming, topics, subs),
           tb # <<>>, Head(tb).kind = "SUBSCRIBE",
           NEW q, q.kind = "SUBACK", q.id = Head(tb).id, NEW subs2,
           subs2 = IF q.body = SUBFAIL THEN subs ELSE subs \cup {Head(tb).body}
    PROVE  Talk(Tail(tb), Append(tc, q), n, going, coming, topics, subs2)
<1>1. /\ InTurn(Of(Tail(tb), AskKinds), Of(Append(tc, q), TellKinds), n)
      /\ Rising(Tail(tb), AskKinds) /\ Rising(Append(tc, q), TellKinds)
      /\ Of(Tail(tb), AskKinds) \subseteq Of(tb, AskKinds)
      /\ Of(Append(tc, q), TellKinds) = Of(tc, TellKinds) \cup {q}
      /\ Head(tb) \in Of(tb, AskKinds)
  BY TurnAnswer DEF Talk, AskKinds, TellKinds
<1>2. Agree(Of(tb, AskKinds), Of(tc, TellKinds) \cup {q}, going, coming, topics, subs2)
  BY <1>1, AgreeSuback DEF Talk
<1>3. Agree(Of(Tail(tb), AskKinds), Of(tc, TellKinds) \cup {q}, going, coming, topics, subs2)
  BY <1>1, <1>2, AgreeKeep
<1> QED
  BY <1>1, <1>3 DEF Talk

\* The broker answers an unsubscribe.
LEMMA TalkUnsuback ==
    ASSUME NEW S, NEW tb \in Seq(S), NEW R, NEW tc \in Seq(R), NEW n \in Int,
           NEW going, NEW coming, NEW topics, NEW subs,
           Talk(tb, tc, n, going, coming, topics, subs),
           tb # <<>>, Head(tb).kind = "UNSUBSCRIBE",
           NEW q, q.kind = "UNSUBACK", q.id = Head(tb).id
    PROVE  /\ Talk(Tail(tb), Append(tc, q), n, going, coming, topics, subs \ {Head(tb).body})
           /\ Talk(Tail(tb), tc, n, going, coming, topics, subs \ {Head(tb).body})
<1> DEFINE subs2 == subs \ {Head(tb).body}
<1>1. /\ InTurn(Of(Tail(tb), AskKinds), Of(Append(tc, q), TellKinds), n)
      /\ Rising(Tail(tb), AskKinds) /\ Rising(Append(tc, q), TellKinds)
      /\ Of(Tail(tb), AskKinds) \subseteq Of(tb, AskKinds)
      /\ Of(Append(tc, q), TellKinds) = Of(tc, TellKinds) \cup {q}
      /\ Head(tb) \in Of(tb, AskKinds)
  BY TurnAnswer DEF Talk, AskKinds, TellKinds
<1>2. Agree(Of(tb, AskKinds), Of(tc, TellKinds) \cup {q}, going, coming, topics, subs2)
  BY <1>1, AgreeUnsuback DEF Talk
<1> HIDE DEF subs2
<1>3. Agree(Of(Tail(tb), AskKinds), Of(tc, TellKinds) \cup {q}, going, coming, topics, subs2)
  BY <1>1, <1>2, AgreeKeep
<1>4. Talk(Tail(tb), Append(tc, q), n, going, coming, topics, subs2)
  BY <1>1, <1>3 DEF Talk
<1>5. Talk(Tail(tb), tc, n, going, coming, topics, subs2)
  <2>1. Agree(Of(Tail(tb), AskKinds), Of(tc, TellKinds), going, coming, topics, subs2)
    BY <1>3, AgreeKeep
  <2>2. InTurn(Of(Tail(tb), AskKinds), Of(tc, TellKinds), n) /\ Rising(tc, TellKinds)
    BY <1>1 DEF Talk, InTurn
  <2> QED
    BY <1>1, <2>1, <2>2 DEF Talk
<1> QED
  BY <1>4, <1>5 DEF subs2

\* The client reads that a subscribe was granted.
LEMMA TalkInstall ==
    ASSUME NEW S, NEW tb \in Seq(S), NEW R, NEW tc \in Seq(R), NEW n \in Int,
           NEW going, NEW coming, NEW topics, NEW subs,
           Talk(tb, tc, n, going, coming, topics, subs),
           tc # <<>>, Head(tc).kind = "SUBACK", Head(tc).body # SUBFAIL,
           NEW c \in coming, c.id = Head(tc).id
    PROVE  Talk(tb, tc, n, going, coming, topics \cup {c.body}, subs)
<1>1. Head(tc) \in Of(tc, TellKinds)
  BY HeadOf DEF TellKinds
<1>2. Agree(Of(tb, AskKinds), Of(tc, TellKinds), going, coming, topics \cup {c.body}, subs)
  BY <1>1, AgreeInstall DEF Talk
<1> QED
  BY <1>2 DEF Talk

\* The client reads that an unsubscribe was answered.
LEMMA TalkGone ==
    ASSUME NEW S, NEW tb \in Seq(S), NEW R, NEW tc \in Seq(R), NEW n \in Int,
           NEW going, NEW coming, NEW topics, NEW subs,
           Talk(tb, tc, n, going, coming, topics, subs),
           \A c \in coming : c.id \in Int,
           tc # <<>>, Head(tc).kind = "UNSUBACK", NEW g, g.id = Head(tc).id
    PROVE  Talk(tb, Tail(tc), n, going \ {g}, coming, topics \ {g.body}, subs)
<1>1. /\ Head(tc) \in Of(tc, TellKinds)
      /\ \A p \in Of(Tail(tc), TellKinds) : g.id < p.id
  BY HeadOf DEF TellKinds, Talk
<1>2. tb \in Rest(tb) /\ Tail(tc) \in Rest(tc)
  BY DEF Rest
<1>3. Talk(tb, Tail(tc), n, going, coming, topics, subs)
  BY <1>2, TalkKeep
<1>4. /\ \A p \in Of(tb, AskKinds) : p.id \in Int /\ g.id < p.id
      /\ g.id \in Int
      /\ \A p \in Of(Tail(tc), TellKinds) : p.id \in Int
  BY <1>1, <1>3 DEF Talk, InTurn
<1>5. Agree(Of(tb, AskKinds), Of(Tail(tc), TellKinds), going \ {g}, coming, topics \ {g.body}, subs)
  BY <1>1, <1>3, <1>4, AgreeGone DEF Talk
<1> QED
  BY <1>3, <1>5 DEF Talk

\* The client gives up an unsubscribe and every subscribe before it.
LEMMA TalkGiveUp ==
    ASSUME NEW tb, NEW tc, NEW n \in Int,
           NEW going, NEW coming, NEW topics, NEW subs,
           Talk(tb, tc, n, going, coming, topics, subs),
           NEW g, g.id \in Int, \A c \in coming : c.id \in Int /\ g.id < c.id
    PROVE  Talk(tb, tc, n, going \ {g}, coming, topics \ {g.body}, subs)
<1>1. (\A p \in Of(tb, AskKinds) : p.id \in Int) /\ (\A p \in Of(tc, TellKinds) : p.id \in Int)
  BY DEF Talk, InTurn
<1>2. Agree(Of(tb, AskKinds), Of(tc, TellKinds), going \ {g}, coming, topics \ {g.body}, subs)
  BY <1>1, AgreeGone DEF Talk
<1> QED
  BY <1>2 DEF Talk

-----------------------------------------------------------------------------
(* The requests of the client: their ids, their records, and the calls     *)
(* that have sent one and not recorded it yet.                             *)

Requesting(i) == u[i].pc = "record" /\ u[i].pkt.kind \in AskKinds

\* The unsubscribes and the subscribes whose answer the client will act on.
Going ==
    {r.payload : r \in {s \in acks : s.type = "UNSUBACK"}}
       \cup {u[i].pkt : i \in {j \in Users : Requesting(j) /\ u[j].pkt.kind = "UNSUBSCRIBE"}}
Coming ==
    {r.payload : r \in {s \in acks \ todo : s.type = "SUBACK"}}
       \cup {u[i].pkt : i \in {j \in Users : Requesting(j) /\ u[j].pkt.kind = "SUBSCRIBE"}}

Covered == {mem[h] : h \in installed}

\* Ids are given out in order, and only to one request; a scan gives up
\* requests in that order.
OrderInv ==
    /\ \A r \in Requests(acks) :
          /\ r.id <= packetId /\ r.payload.id = r.id
          /\ r.type = "SUBACK" => mem[r.handler] = r.payload.body
    /\ \A r, s \in Requests(acks) : r.id = s.id => r = s
    /\ \A r \in Requests(todo), s \in Requests(acks) : s.id < r.id => s \in todo
    /\ \A i \in Users : Requesting(i) =>
          /\ u[i].pkt.id = packetId
          /\ \A r \in Requests(acks) : r.id < packetId
          /\ \A j \in Users : Requesting(j) => j = i

Dropping(c) == c.pc \in {"send", "record"} /\ c.pkt.kind = "UNSUBSCRIBE"

\* A call of mqtt_unsubscribe will find the handler it removes.
LeaveInv == \A i \in Users : Dropping(u[i]) => \E h \in installed : mem[h] = u[i].pkt.body

\* A step that neither makes nor ends a request.
Silent ==
    /\ Requests(acks') = Requests(acks) /\ UNCHANGED <<mem, installed>>
    /\ Requests(todo) \subseteq todo' /\ (Requests(todo') = Requests(todo) \/ InOrder)
    /\ \A i \in Users : Requesting(i) \/ Requesting(i)' => u'[i] = u[i]
    /\ \A i \in Users : Dropping(u'[i]) =>
          \/ Dropping(u[i]) /\ u'[i].pkt.body = u[i].pkt.body
          \/ \E h \in installed : mem[h] = u'[i].pkt.body
    /\ \/ packetId' = packetId
       \/ packetId' = packetId + 1 /\ \A i \in Users : ~Requesting(i)

\* It keeps the order of requests.
LEMMA SilentOrder ==
    ASSUME TypeInv, OrderInv, LeaveInv, Silent
    PROVE  OrderInv' /\ LeaveInv'
<1>0. packetId \in Int /\ \A r \in Requests(acks) : r.id \in Int
  BY DEF TypeInv, TypeOK, Requests, AckRecords
<1>1. LeaveInv'
  BY DEF LeaveInv, Silent
<1>2. ASSUME NEW r \in Requests(acks')
      PROVE  /\ r.id <= packetId' /\ r.payload.id = r.id
             /\ r.type = "SUBACK" => mem'[r.handler] = r.payload.body
  BY <1>0, <1>2 DEF Silent, OrderInv
<1>3. ASSUME NEW r \in Requests(todo'), NEW s \in Requests(acks'), s.id < r.id PROVE s \in todo'
  BY <1>3 DEF Silent, OrderInv, InOrder, Requests
<1>4. ASSUME NEW i \in Users, Requesting(i)'
      PROVE  /\ Requesting(i) /\ u'[i].pkt.id = packetId' /\ packetId' = packetId
             /\ \A r \in Requests(acks') : r.id < packetId'
  BY <1>4 DEF Silent, OrderInv, Requesting
<1>5. ASSUME NEW i \in Users, Requesting(i)', NEW j \in Users, Requesting(j)' PROVE j = i
  BY <1>4, <1>5 DEF OrderInv
<1>6. \A r, s \in Requests(acks') : r.id = s.id => r = s
  BY DEF Silent, OrderInv
<1>7. OrderInv'
  BY <1>2, <1>3, <1>4, <1>5, <1>6 DEF OrderInv
<1> QED
  BY <1>1, <1>7

\* And what the client waits for.
LEMMA SilentSets ==
    ASSUME Silent
    PROVE  Going \subseteq Going' /\ Coming' \subseteq Coming /\ Covered' = Covered
<1>1. ASSUME NEW r, r.type \in {"SUBACK", "UNSUBACK"} PROVE r \in acks <=> r \in acks'
  BY <1>1 DEF Silent, Requests
<1>2. ASSUME NEW r, r.type = "SUBACK", r \in acks' \ todo' PROVE r \in acks \ todo
  BY <1>1, <1>2 DEF Silent, Requests
<1>3. ASSUME NEW i \in Users, Requesting(i) PROVE Requesting(i)' /\ u'[i] = u[i]
  BY <1>3 DEF Silent, Requesting
<1>4. ASSUME NEW i \in Users, Requesting(i)' PROVE Requesting(i) /\ u'[i] = u[i]
  BY <1>4 DEF Silent, Requesting
<1>5. Going \subseteq Going'
  BY <1>1, <1>3 DEF Going
<1>6. Coming' \subseteq Coming
  BY <1>2, <1>4 DEF Coming
<1> QED
  BY <1>5, <1>6 DEF Covered, Silent

-----------------------------------------------------------------------------
(* Which steps are silent.                                                 *)

\* The id space has not been used up: requests are told apart, and ordered, by
\* their packet ids.
NoWrap == packetId < MaxPacketId

\* A call that moves, but neither makes nor ends a request.
LEMMA SilentMove ==
    ASSUME TypeInv, NEW i \in Users, NEW c, u' = [u EXCEPT ![i] = c],
           ~(c.pc = "record" /\ c.pkt.kind \in AskKinds), ~Requesting(i)
    PROVE  /\ u'[i] = c /\ (\A j \in Users \ {i} : u'[j] = u[j])
           /\ \A j \in Users : Requesting(j) \/ Requesting(j)' => u'[j] = u[j]
<1>1. u \in [Users -> Calls]
  BY DEF TypeInv, TypeOK
<1>2. u'[i] = c /\ \A j \in Users \ {i} : u'[j] = u[j]
  BY <1>1
<1> QED
  BY <1>2 DEF Requesting

\* A record of a publication is added.
LEMMA SilentAppend ==
    ASSUME NEW r, r.type \notin TellKinds, AppendRecord(r)
    PROVE  Requests(acks') = Requests(acks) /\ Requests(todo') = Requests(todo)
<1>1. acks' = acks \cup {r} /\ (todo' = todo \/ todo' = todo \cup {r})
  BY DEF AppendRecord, mqtt_ack_list_record
<1> QED
  BY <1>1 DEF Requests, TellKinds

\* The steps of a call that are not about a request.
LEMMA SilentCall ==
    ASSUME TypeInv, NoWrap, NEW i \in Users,
           \/ mqtt_publish_send(i) \/ mqtt_publish_record(i)
           \/ mqtt_publish_release(i) \/ mqtt_publish_disconnected(i)
           \/ mqtt_connect(i) \/ mqtt_publish(i) \/ mqtt_subscribe(i)
           \/ mqtt_unsubscribe(i) /\ Installed(u'[i].pkt.body) # {}
    PROVE  Silent
<1>0. u \in [Users -> Calls] /\ packetId \in Int
  BY DEF TypeInv, TypeOK
<1>1. ASSUME NEW p, CheckConnected(i, p),
             p.kind = "UNSUBSCRIBE" => \E h \in installed : mem[h] = p.body
      PROVE  Silent
  <2>1. /\ UNCHANGED <<acks, mem, installed, todo, packetId>>
        /\ u' = [u EXCEPT ![i] = At("send", p)] /\ ~Requesting(i)
    BY <1>1 DEF CheckConnected, ackVars, handlerVars, yieldVars, Requesting
  <2>2. At("send", p).pc = "send" /\ At("send", p).pkt = p
    BY DEF At
  <2>3. /\ u'[i] = At("send", p) /\ (\A j \in Users \ {i} : u'[j] = u[j])
        /\ \A j \in Users : Requesting(j) \/ Requesting(j)' => u'[j] = u[j]
    BY <2>1, <2>2, SilentMove
  <2> QED
    BY <1>1, <2>1, <2>2, <2>3 DEF Silent, Requests, Dropping
<1>2. CASE mqtt_publish(i)
  <2>1. PICK p : CheckConnected(i, p) /\ p.kind = "PUBLISH"
    BY <1>2 DEF mqtt_publish, Publish
  <2> QED
    BY <1>1, <2>1
<1>3. CASE mqtt_subscribe(i)
  <2>1. PICK p : CheckConnected(i, p) /\ p.kind = "SUBSCRIBE"
    BY <1>3 DEF mqtt_subscribe, Pkt
  <2> QED
    BY <1>1, <2>1
<1>4. CASE mqtt_unsubscribe(i) /\ Installed(u'[i].pkt.body) # {}
  <2>1. PICK p : CheckConnected(i, p)
    BY <1>4 DEF mqtt_unsubscribe
  <2>2. u'[i].pkt = p
    BY <1>0, <2>1 DEF CheckConnected, At
  <2>3. \E h \in installed : mem[h] = p.body
    BY <1>4, <2>2 DEF Installed
  <2> QED
    BY <1>1, <2>1, <2>3
<1>5. CASE mqtt_connect(i)
  BY <1>5 DEF mqtt_connect, Silent, Requests, ackVars, handlerVars, Requesting
<1>6. CASE mqtt_publish_release(i) \/ mqtt_publish_disconnected(i)
  <2>1. /\ UNCHANGED <<acks, mem, installed, todo, packetId>> /\ ~Requesting(i)
        /\ u' = [u EXCEPT ![i] = At("released", u[i].pkt)] \/ u' = [u EXCEPT ![i] = Idle]
    BY <1>6 DEF mqtt_publish_release, mqtt_publish_disconnected, ackVars, handlerVars, yieldVars,
       Requesting
  <2>2. At("released", u[i].pkt).pc = "released" /\ Idle.pc = "idle"
    BY DEF At, Idle
  <2>3. PICK c : u' = [u EXCEPT ![i] = c] /\ c.pc \in {"released", "idle"}
    BY <2>1, <2>2
  <2>4. /\ u'[i] = c /\ (\A j \in Users \ {i} : u'[j] = u[j])
        /\ \A j \in Users : Requesting(j) \/ Requesting(j)' => u'[j] = u[j]
    BY <2>1, <2>3, SilentMove
  <2> QED
    BY <2>1, <2>3, <2>4 DEF Silent, Requests, Dropping
<1>7. CASE mqtt_publish_send(i)
  <2> DEFINE p == u[i].pkt
             sent == WithId(p, IF p.qos = 0 THEN 0 ELSE mqtt_get_next_packet_id)
  <2>1. /\ UNCHANGED <<acks, mem, installed, todo>> /\ p.kind = "PUBLISH" /\ WriteLockFree
        /\ packetId' = packetId \/ packetId' = mqtt_get_next_packet_id
    BY <1>7 DEF mqtt_publish_send, ackVars, handlerVars, yieldVars
  <2>2. \A j \in Users : ~Requesting(j)
    BY <2>1 DEF WriteLockFree, Requesting
  <2>3. PICK c : /\ u' = [u EXCEPT ![i] = c]
                 /\ c \in {At("failed", p), At("record", sent), Idle}
    BY <1>7 DEF mqtt_publish_send
  <2>4. c.pkt.kind \notin AskKinds \/ c.pc = "idle"
    BY <2>1, <2>3 DEF At, WithId, Idle, Pkt, AskKinds
  <2>5. /\ u'[i] = c /\ (\A j \in Users \ {i} : u'[j] = u[j])
        /\ \A j \in Users : Requesting(j) \/ Requesting(j)' => u'[j] = u[j]
    BY <2>2, <2>3, <2>4, SilentMove
  <2>6. packetId' = packetId \/ packetId' = packetId + 1
    BY <1>0, <2>1 DEF mqtt_get_next_packet_id, NoWrap
  <2> QED
    BY <2>1, <2>2, <2>4, <2>5, <2>6 DEF Silent, Requests, Dropping, AskKinds
<1>8. CASE mqtt_publish_record(i)
  <2> DEFINE p == u[i].pkt
             type == IF p.qos = 1 THEN "PUBACK" ELSE "PUBREC"
             r == Ack(type, p.id, NULL, WithDup(p))
  <2>1. /\ UNCHANGED <<mem, installed, packetId>> /\ p.kind = "PUBLISH"
    BY <1>8 DEF mqtt_publish_record, handlerVars
  <2>2. r.type \notin TellKinds
    BY AckFields DEF TellKinds
  <2>3. Requests(acks') = Requests(acks) /\ Requests(todo') = Requests(todo)
    <3>1. UNCHANGED <<acks, todo>> \/ AppendRecord(r)
      BY <1>8 DEF mqtt_publish_record, ackVars
    <3> HIDE DEF r
    <3> QED
      BY <2>2, <3>1, SilentAppend
  <2>4. PICK c : u' = [u EXCEPT ![i] = c] /\ c \in {At("failed", p), Idle}
    BY <1>8 DEF mqtt_publish_record
  <2>5. c.pc \in {"failed", "idle"}
    BY <2>4 DEF At, Idle
  <2>6. /\ u'[i] = c /\ (\A j \in Users \ {i} : u'[j] = u[j])
        /\ \A j \in Users : Requesting(j) \/ Requesting(j)' => u'[j] = u[j]
    BY <2>1, <2>4, <2>5, SilentMove DEF Requesting, AskKinds
  <2>7. Requests(todo) \subseteq todo'
    BY <2>3 DEF Requests
  <2> QED
    BY <2>1, <2>3, <2>5, <2>6, <2>7 DEF Silent, Dropping
<1> QED
  BY <1>2, <1>3, <1>4, <1>5, <1>6, <1>7, <1>8

\* Records of publications come and go.
LEMMA SilentRecords ==
    ASSUME \A r \in acks' \ acks : r.type \notin TellKinds,
           \A r \in acks \ acks' : r.type \notin TellKinds,
           UNCHANGED <<mem, installed, u, todo, packetId>>
    PROVE  Silent
BY DEF Silent, Requests, TellKinds, Requesting

\* The steps of the yield thread that are not about a request.
LEMMA SilentYield ==
    ASSUME ListInv,
           \/ mqtt_keep_alive /\ InOrder
           \/ nothing_read \/ mqtt_deliver_message \/ mqtt_keep_alive_drop
           \/ mqtt_ack_handler_resend \/ mqtt_ack_list_scan_end
           \/ mqtt_try_reconnect \/ mqtt_reconnect_handshake
           \/ mqtt_reconnect_done \/ mqtt_resubscribed
    PROVE  Silent
<1>1. UNCHANGED <<acks, mem, installed, u, packetId>>
  BY DEF nothing_read, mqtt_deliver_message, mqtt_keep_alive, mqtt_keep_alive_drop, mqtt_ack_handler_resend,
     mqtt_ack_list_scan_end, mqtt_try_reconnect, mqtt_reconnect_handshake, mqtt_reconnect_done,
     mqtt_resubscribed, ackVars, handlerVars
<1>2. CASE mqtt_keep_alive /\ InOrder
  <2>1. todo = {}
    BY <1>2 DEF mqtt_keep_alive, ListInv, Scanning
  <2> QED
    BY <1>1, <1>2, <2>1 DEF Silent, Requests, Requesting
<1>3. CASE mqtt_resubscribed
  <2>1. todo = {} /\ todo' \in {todo, acks}
    BY <1>3 DEF mqtt_resubscribed, StartScan, ListInv, Scanning
  <2> QED
    BY <1>1, <2>1 DEF Silent, Requests, Requesting, InOrder
<1>4. CASE mqtt_ack_handler_resend
  <2>1. PICK r : todo' = todo \ {r} /\ r.type \notin TellKinds
    BY <1>4 DEF mqtt_ack_handler_resend, TellKinds
  <2>2. Requests(todo') = Requests(todo)
    BY <2>1 DEF Requests, TellKinds
  <2> QED
    BY <1>1, <2>2 DEF Silent, Requests, Requesting
<1>5. CASE \/ nothing_read \/ mqtt_deliver_message \/ mqtt_keep_alive_drop \/ mqtt_ack_list_scan_end
           \/ mqtt_try_reconnect \/ mqtt_reconnect_handshake \/ mqtt_reconnect_done
  <2>1. todo' = todo
    BY <1>5 DEF nothing_read, mqtt_deliver_message, mqtt_keep_alive_drop, mqtt_ack_list_scan_end, mqtt_try_reconnect,
       mqtt_reconnect_handshake, mqtt_reconnect_done, ThenKeepAlive
  <2> QED
    BY <1>1, <2>1, SilentRecords
<1> QED
  BY <1>2, <1>3, <1>4, <1>5

\* The packets that are not about a request.
LEMMA SilentPacket ==
    ASSUME NEW id,
           \/ \E type \in {"PUBACK", "PUBCOMP"} : mqtt_puback_and_pubcomp_packet_handle(type, id)
           \/ mqtt_pubrec_packet_handle(id)
           \/ \E ok \in BOOLEAN : mqtt_pubrel_packet_handle(id, ok)
           \/ \E q, ok : mqtt_publish_packet_handle(id, q, ok)
           \/ pingresp_packet_handle
    PROVE  Silent
<1>1. UNCHANGED <<mem, installed, u, todo, packetId>>
  BY DEF mqtt_puback_and_pubcomp_packet_handle, mqtt_pubrec_packet_handle,
     mqtt_pubrel_packet_handle, mqtt_publish_packet_handle, pingresp_packet_handle,
     ThenKeepAlive, handlerVars
<1>2. /\ acks' \subseteq acks \cup {Ack("PUBCOMP", id, NULL, Pkt("PUBREL", id, NULL))}
         \/ \E p : acks' \subseteq acks \cup {Ack("PUBREL", id, NULL, p)}
      /\ \E type \in {"PUBACK", "PUBREC", "PUBCOMP", "PUBREL"} : acks \ Matching(type, id) \subseteq acks'
  BY DEF mqtt_puback_and_pubcomp_packet_handle, mqtt_pubrec_packet_handle,
     mqtt_pubrel_packet_handle, mqtt_publish_packet_handle, pingresp_packet_handle,
     mqtt_ack_list_unrecord, mqtt_ack_list_record, ackVars
<1>3. \A r \in acks' \ acks : r.type \notin TellKinds
  BY <1>2 DEF Ack, TellKinds
<1>4. \A r \in acks \ acks' : r.type \notin TellKinds
  BY <1>2 DEF Matching, TellKinds
<1> QED
  BY <1>1, <1>3, <1>4, SilentRecords

-----------------------------------------------------------------------------
(* The invariant of requests, and the steps that make or end one.          *)

HeardInv ==
    /\ OrderInv /\ LeaveInv
    /\ Talk(toBroker, toClient, packetId, Going, Coming, Covered, bSubs)

\* The ids of what the client waits for.
LEMMA ComingIds ==
    ASSUME TypeInv, OrderInv
    PROVE  packetId \in Int /\ \A c \in Coming : c.id \in Int /\ c.id <= packetId
<1>1. packetId \in Int /\ \A r \in acks : r.id \in Int
  BY DEF TypeInv, TypeOK, AckRecords
<1>2. ASSUME NEW r \in acks, r.type = "SUBACK"
      PROVE  r.payload.id \in Int /\ r.payload.id <= packetId
  BY <1>1, <1>2 DEF OrderInv, Requests
<1>3. ASSUME NEW i \in Users, Requesting(i) PROVE u[i].pkt.id \in Int /\ u[i].pkt.id <= packetId
  BY <1>1, <1>3 DEF OrderInv
<1> QED
  BY <1>1, <1>2, <1>3 DEF Coming

\* A silent step on the connection.
LEMMA HeardSilent ==
    ASSUME TypeInv, WireInv, HeardInv, Silent, toClient' \in Rest(toClient),
           \/ toBroker' \in Rest(toBroker)
           \/ \E p : p.kind \notin AskKinds /\ toBroker' = Append(toBroker, p),
           bSubs \subseteq bSubs'
    PROVE  HeardInv'
<1>1. OrderInv' /\ LeaveInv'
  BY SilentOrder DEF HeardInv
<1>2. Going \subseteq Going' /\ Coming' \subseteq Coming /\ Covered' \subseteq Covered
  BY SilentSets
<1>3. packetId \in Int /\ packetId' \in Int /\ packetId <= packetId'
  BY DEF TypeInv, TypeOK, Silent
<1>4. /\ toBroker \in Seq(Outgoing) /\ toClient \in Seq(Incoming)
      /\ Talk(toBroker, toClient, packetId, Going, Coming, Covered, bSubs)
  BY DEF WireInv, HeardInv
<1>5. CASE toBroker' \in Rest(toBroker)
  <2>1. Talk(toBroker', toClient', packetId', Going', Coming', Covered', bSubs')
    BY <1>2, <1>3, <1>4, <1>5, TalkKeep
  <2> QED
    BY <1>1, <2>1 DEF HeardInv
<1>6. CASE \E p : p.kind \notin AskKinds /\ toBroker' = Append(toBroker, p)
  <2>0. toBroker \in Rest(toBroker)
    BY DEF Rest
  <2>1. Talk(toBroker, toClient', packetId', Going', Coming', Covered', bSubs')
    BY <1>2, <1>3, <1>4, <2>0, TalkKeep
  <2>2. toClient' \in Seq(Incoming)
    BY <1>4, RestPackets
  <2>3. PICK p : p.kind \notin AskKinds /\ toBroker' = Append(toBroker, p)
    BY <1>6
  <2>4. Talk(Append(toBroker, p), toClient', packetId', Going', Coming', Covered', bSubs')
    BY <1>3, <1>4, <2>1, <2>2, <2>3, TalkOther
  <2> QED
    BY <1>1, <2>3, <2>4 DEF HeardInv
<1> QED
  BY <1>5, <1>6

\* A silent step of the client that sends no request.
LEMMA HeardWire ==
    ASSUME TypeInv, WireInv, HeardInv, Silent, out' # NULL => out'.kind \notin AskKinds,
           NEW unread \in Rest(toClient), Wire(unread), bSubs' = bSubs
    PROVE  HeardInv'
<1>1. /\ toClient' \in Rest(toClient)
      /\ toBroker' = toBroker \/ (out' # NULL /\ toBroker' = Append(toBroker, out'))
  BY WireQueues
<1>2. toBroker \in Rest(toBroker)
  BY DEF Rest
<1>3. \/ toBroker' \in Rest(toBroker)
      \/ \E p : p.kind \notin AskKinds /\ toBroker' = Append(toBroker, p)
  BY <1>1, <1>2
<1> QED
  BY <1>1, <1>3, HeardSilent

\* mqtt_subscribe or mqtt_unsubscribe sends its packet.
LEMMA HeardRequest ==
    ASSUME TypeInv, WireInv, HeardInv, NoWrap, NEW i \in Users, mqtt_request_send(i),
           Wire(toClient), bSubs' = bSubs
    PROVE  HeardInv'
<1> DEFINE sent == WithId(u[i].pkt, mqtt_get_next_packet_id)
<1>0. packetId \in Int /\ u \in [Users -> Calls] /\ mqtt_get_next_packet_id = packetId + 1
      /\ \A r \in Requests(acks) : r.id \in Int
  BY DEF TypeInv, TypeOK, NoWrap, mqtt_get_next_packet_id, Requests, AckRecords
<1>1. /\ u[i].pc = "send" /\ sent.kind \in AskKinds /\ WriteLockFree
      /\ sent.id = packetId + 1 /\ sent.kind = u[i].pkt.kind /\ sent.body = u[i].pkt.body
      /\ packetId' = packetId + 1
      /\ UNCHANGED <<acks, mem, installed, todo>>
  BY <1>0 DEF mqtt_request_send, ackVars, handlerVars, yieldVars, WithId, AskKinds
<1>2. \A j \in Users : ~Requesting(j)
  BY <1>1 DEF WriteLockFree, Requesting
<1>3. \/ out' = NULL /\ u' = [u EXCEPT ![i] = Idle]
      \/ out' \in {NULL, sent} /\ u' = [u EXCEPT ![i] = At("record", sent)]
  BY DEF mqtt_request_send, mqtt_send_packet
<1> HIDE DEF sent
<1>4. toClient \in Rest(toClient) /\ toBroker \in Rest(toBroker)
  BY DEF Rest
<1>5. CASE out' = NULL /\ u' = [u EXCEPT ![i] = Idle]
  <2>1. Idle.pc = "idle"
    BY DEF At, Idle
  <2>2. /\ u'[i] = Idle /\ (\A j \in Users \ {i} : u'[j] = u[j])
        /\ \A j \in Users : Requesting(j) \/ Requesting(j)' => u'[j] = u[j]
    BY <1>2, <1>5, <2>1, SilentMove
  <2>3. Silent
    BY <1>1, <1>2, <2>1, <2>2 DEF Silent, Requests, Dropping
  <2> QED
    BY <1>4, <1>5, <2>3, HeardWire
<1>6. CASE out' \in {NULL, sent} /\ u' = [u EXCEPT ![i] = At("record", sent)]
  <2>1. /\ u'[i].pc = "record" /\ u'[i].pkt = sent /\ \A j \in Users \ {i} : u'[j] = u[j]
    BY <1>0, <1>6 DEF At
  <2>2. \A j \in Users : Requesting(j)' <=> j = i
    BY <1>1, <1>2, <2>1 DEF Requesting
  <2>3. LeaveInv'
    BY <1>1, <2>1 DEF LeaveInv, HeardInv, Dropping
  <2>4. OrderInv'
    <3>1. ASSUME NEW r \in Requests(acks')
          PROVE  /\ r \in Requests(acks) /\ r.id < packetId' /\ r.id <= packetId'
                 /\ r.payload.id = r.id
                 /\ r.type = "SUBACK" => mem'[r.handler] = r.payload.body
      BY <1>0, <1>1, <3>1 DEF OrderInv, HeardInv, Requests
    <3>2. ASSUME NEW r \in Requests(todo'), NEW s \in Requests(acks'), s.id < r.id
          PROVE  s \in todo'
      BY <1>1, <3>2 DEF OrderInv, HeardInv, Requests
    <3>3. \A r, s \in Requests(acks') : r.id = s.id => r = s
      BY <3>1 DEF OrderInv, HeardInv
    <3> QED
      BY <1>1, <2>1, <2>2, <3>1, <3>2, <3>3 DEF OrderInv
  <2>5. Covered' = Covered
    BY <1>1 DEF Covered
  <2>6. /\ sent.kind = "SUBSCRIBE" => Going \subseteq Going' /\ Coming' \subseteq Coming \cup {sent}
        /\ sent.kind = "UNSUBSCRIBE" => Going \cup {sent} \subseteq Going' /\ Coming' \subseteq Coming
    BY <1>1, <1>2, <2>1, <2>2 DEF Going, Coming
  <2>7. /\ toBroker \in Seq(Outgoing) /\ toClient \in Seq(Incoming)
        /\ Talk(toBroker, toClient, packetId, Going, Coming, Covered, bSubs)
        /\ \A c \in Coming : c.id \in Int /\ c.id <= packetId
    BY ComingIds DEF WireInv, HeardInv
  <2>8. /\ toClient' \in Rest(toClient)
        /\ toBroker' = toBroker \/ toBroker' = Append(toBroker, sent)
    BY <1>4, <1>6, WireQueues
  <2>9. Append(toBroker, sent) \in Seq(Outgoing \cup {sent}) /\ toBroker \in Seq(Outgoing \cup {sent})
        /\ Append(toBroker, sent) \in Rest(Append(toBroker, sent)) /\ packetId + 1 \in Int
        /\ packetId + 1 <= packetId + 1 /\ packetId <= packetId + 1
    BY <1>0, <2>7 DEF Rest
  <2>10. CASE sent.kind = "SUBSCRIBE"
    <3>1. Talk(toBroker, toClient, packetId + 1, Going, Coming \cup {sent}, Covered, bSubs)
      BY <1>0, <1>1, <2>7, TalkUnsent
    <3>2. Talk(Append(toBroker, sent), toClient, packetId + 1, Going, Coming \cup {sent}, Covered, bSubs)
      BY <1>0, <1>1, <2>7, <2>10, TalkSubscribe
    <3>3. Talk(toBroker, toClient', packetId + 1, Going', Coming', Covered, bSubs)
      BY <1>4, <2>6, <2>7, <2>8, <2>9, <2>10, <3>1, TalkKeep
    <3>4. Talk(Append(toBroker, sent), toClient', packetId + 1, Going', Coming', Covered, bSubs)
      <4>1. PICK a : a = Append(toBroker, sent)
        OBVIOUS
      <4>2. /\ a \in Seq(Outgoing \cup {sent}) /\ a \in Rest(a)
            /\ toClient \in Seq(Incoming) /\ toClient' \in Rest(toClient)
        BY <2>7, <2>8, <2>9, <4>1
      <4>3. PICK n \in Int : n = packetId + 1 /\ n <= n
        BY <2>9
      <4>4. Talk(a, toClient, n, Going, Coming \cup {sent}, Covered, bSubs)
        BY <3>2, <4>1, <4>3
      <4>5. Going \subseteq Going' /\ Coming' \subseteq Coming \cup {sent}
        BY <2>6, <2>10
      <4>6. Talk(a, toClient', n, Going', Coming', Covered, bSubs)
        BY <4>2, <4>3, <4>4, <4>5, TalkKeep
      <4> QED
        BY <4>1, <4>3, <4>6
    <3> QED
      BY <1>1, <2>3, <2>4, <2>5, <2>8, <3>3, <3>4 DEF HeardInv
  <2>11. CASE sent.kind = "UNSUBSCRIBE"
    <3>2. Talk(Append(toBroker, sent), toClient, packetId + 1, Going \cup {sent}, Coming, Covered, bSubs)
      BY <1>0, <1>1, <2>7, <2>11, TalkUnsubscribe
    <3>3. Talk(toBroker, toClient', packetId + 1, Going', Coming', Covered, bSubs)
      BY <1>0, <1>4, <2>6, <2>7, <2>8, <2>9, <2>11, TalkKeep
    <3>4. Talk(Append(toBroker, sent), toClient', packetId + 1, Going', Coming', Covered, bSubs)
      <4>1. PICK a : a = Append(toBroker, sent)
        OBVIOUS
      <4>2. /\ a \in Seq(Outgoing \cup {sent}) /\ a \in Rest(a)
            /\ toClient \in Seq(Incoming) /\ toClient' \in Rest(toClient)
        BY <2>7, <2>8, <2>9, <4>1
      <4>g. PICK going : going = Going \cup {sent}
        OBVIOUS
      <4>n. PICK n \in Int : n = packetId + 1 /\ n <= n
        BY <2>9
      <4>t. Talk(a, toClient, n, going, Coming, Covered, bSubs)
        BY <3>2, <4>1, <4>g, <4>n
      <4>s. going \subseteq Going' /\ Coming' \subseteq Coming
        BY <2>6, <2>11, <4>g
      <4>3. Talk(a, toClient', n, Going', Coming', Covered, bSubs)
        BY <4>2, <4>n, <4>t, <4>s, TalkKeep
      <4> QED
        BY <4>1, <4>n, <4>3
    <3> QED
      BY <1>1, <2>3, <2>4, <2>5, <2>8, <3>3, <3>4 DEF HeardInv
  <2> QED
    BY <1>1, <2>10, <2>11 DEF AskKinds
<1> QED
  BY <1>3, <1>5, <1>6

\* A request is recorded, the latest of all.
LEMMA OrderAdd ==
    ASSUME OrderInv, todo \subseteq acks, NEW r, r.type \in TellKinds, acks' = acks \cup {r},
           todo' = todo \/ (~PassedTail /\ todo' = todo \cup {r}),
           packetId' \in Int, r.id = packetId', r.payload.id = r.id,
           r.type = "SUBACK" => mem'[r.handler] = r.payload.body,
           \A s \in Requests(acks) : s.type = "SUBACK" => mem'[s.handler] = mem[s.handler],
           \A s \in Requests(acks) : s.id \in Int /\ s.id < packetId',
           \A i \in Users : ~Requesting(i)'
    PROVE  OrderInv'
<1>1. \A s : s \in Requests(acks') <=> s \in Requests(acks) \/ s = r
  BY DEF Requests, TellKinds
<1>2. ASSUME NEW s \in Requests(acks')
      PROVE  /\ s.id <= packetId' /\ s.payload.id = s.id
             /\ s.type = "SUBACK" => mem'[s.handler] = s.payload.body
  <2>1. CASE s = r
    BY <2>1
  <2>2. CASE s \in Requests(acks)
    BY <2>2 DEF OrderInv
  <2> QED
    BY <1>1, <2>1, <2>2
<1>3. \A s \in Requests(acks) : ~(r.id = s.id) /\ ~(r.id < s.id)
  OBVIOUS
<1>4. \A s, t \in Requests(acks') : s.id = t.id => s = t
  BY <1>1, <1>3 DEF OrderInv
<1>5. ASSUME NEW s \in Requests(todo'), NEW t \in Requests(acks'), t.id < s.id PROVE t \in todo'
  <2>1. CASE s \in Requests(todo)
    <3>1. s \in Requests(acks)
      BY <2>1 DEF Requests
    <3>2. t \in Requests(acks)
      BY <1>1, <1>3, <1>5, <3>1
    <3> QED
      BY <1>5, <2>1, <3>2 DEF OrderInv
  <2>2. CASE s \notin Requests(todo)
    <3>1. s = r /\ ~PassedTail /\ todo' = todo \cup {r}
      BY <1>5, <2>2 DEF Requests
    <3>2. t \in Requests(acks) \/ t = r
      BY <1>1
    <3> QED
      BY <3>1, <3>2 DEF PassedTail, Requests
  <2> QED
    BY <2>1, <2>2
<1> QED
  BY <1>2, <1>4, <1>5 DEF OrderInv

\* The end of mqtt_subscribe.
LEMMA SubscribeOrder ==
    ASSUME TypeInv, HandlerShape, OrderInv, LeaveInv,
           NEW p, NEW h \in HandlerAlloc, SubscribeRecord(p, h), installed' = installed,
           packetId' \in Int, packetId <= packetId', p.id = packetId',
           \A s \in Requests(acks) : s.id < packetId',
           \A i \in Users : ~Requesting(i)', \A i \in Users : Dropping(u'[i]) => u'[i] = u[i]
    PROVE  /\ OrderInv' /\ LeaveInv' /\ Covered' = Covered
           /\ acks \subseteq acks'
           /\ \A s \in acks' \ todo' : s.type = "SUBACK" => s \in acks \ todo \/ s.payload = p
<1>0. /\ mem \in [Handlers -> Topics \cup {NULL}] /\ installed \subseteq Handlers /\ todo \subseteq acks
      /\ packetId \in Int
      /\ \A s \in Requests(acks) : s.id \in Int /\ s.handler \in Handlers
  BY DEF TypeInv, TypeOK, RecordShape, RecordOK, Requests, AckRecords
<1>1. /\ \A s \in Requests(acks) : s.type = "SUBACK" => mem'[s.handler] = mem[s.handler]
      /\ \A g \in installed : mem'[g] = mem[g]
  <2>1. CASE h = NULL
    BY <2>1 DEF SubscribeRecord
  <2>2. CASE h # NULL
    <3>1. h \in Handlers /\ mem[h] = NULL /\ mem' = [mem EXCEPT ![h] = p.body]
      BY <2>2 DEF HandlerAlloc, Free, SubscribeRecord
    <3>2. h \notin installed /\ \A s \in Requests(acks) : s.type = "SUBACK" => s.handler # h
      BY <3>1 DEF HandlerShape, InstalledLive, SubackOwns, Requests
    <3> QED
      BY <1>0, <3>1, <3>2
  <2> QED
    BY <2>1, <2>2
<1>2. LeaveInv' /\ Covered' = Covered
  BY <1>1 DEF LeaveInv, Covered
<1>3. CASE UNCHANGED <<acks, todo>>
  <2>1. ASSUME NEW r \in Requests(acks')
        PROVE  /\ r.id <= packetId' /\ r.payload.id = r.id
               /\ r.type = "SUBACK" => mem'[r.handler] = r.payload.body
    BY <1>0, <1>1, <1>3 DEF OrderInv
  <2>2. OrderInv'
    BY <1>3, <2>1 DEF OrderInv, Requests
  <2> QED
    BY <1>2, <1>3, <2>2
<1>4. CASE ~UNCHANGED <<acks, todo>>
  <2> DEFINE r == Ack("SUBACK", p.id, h, p)
  <2>1. h # NULL /\ mem' = [mem EXCEPT ![h] = p.body] /\ AppendRecord(r)
    BY <1>4 DEF SubscribeRecord, ackVars
  <2>2. r.type = "SUBACK" /\ r.id = p.id /\ r.handler = h /\ r.payload = p
    BY AckFields
  <2> HIDE DEF r
  <2>3. acks' = acks \cup {r} /\ (todo' = todo \/ (~PassedTail /\ todo' = todo \cup {r}))
    BY <2>1 DEF AppendRecord, mqtt_ack_list_record
  <2>4. h \in Handlers /\ mem'[r.handler] = r.payload.body
    BY <1>0, <2>1, <2>2 DEF HandlerAlloc, Free
  <2>5. r.type \in TellKinds /\ r.id = packetId' /\ r.payload.id = r.id
    BY <2>2 DEF TellKinds
  <2>6. OrderInv'
    BY <1>0, <1>1, <2>3, <2>4, <2>5, OrderAdd
  <2> QED
    BY <1>2, <2>2, <2>3, <2>6
<1> QED
  BY <1>3, <1>4

\* The packet of a subscribe was sent: its handler and record are made.
LEMMA HeardSubscribe ==
    ASSUME TypeInv, LiveInv, WireInv, HeardInv, NEW i \in Users, mqtt_subscribe_record(i),
           Wire(toClient), bSubs' = bSubs
    PROVE  HeardInv'
<1> DEFINE p == u[i].pkt
<1>0. packetId \in Int /\ u \in [Users -> Calls]
  BY DEF TypeInv, TypeOK
<1>1. PICK h \in HandlerAlloc : SubscribeRecord(p, h)
  BY DEF mqtt_subscribe_record
<1>2. /\ Requesting(i) /\ p.kind = "SUBSCRIBE" /\ out' = NULL
      /\ UNCHANGED <<installed, packetId>> /\ u' = [u EXCEPT ![i] = Idle]
  BY DEF mqtt_subscribe_record, Requesting, AskKinds
<1>3. /\ p.id = packetId /\ (\A r \in Requests(acks) : r.id < packetId)
      /\ \A j \in Users : Requesting(j) => j = i
  BY <1>2 DEF HeardInv, OrderInv
<1>4. Idle.pc = "idle" /\ u'[i] = Idle /\ \A j \in Users \ {i} : u'[j] = u[j]
  BY <1>0, <1>2 DEF Idle, At
<1>5. /\ \A j \in Users : ~Requesting(j)'
      /\ \A j \in Users : Dropping(u'[j]) => u'[j] = u[j]
  BY <1>3, <1>4 DEF Requesting, Dropping
<1>6. /\ OrderInv' /\ LeaveInv' /\ Covered' = Covered
      /\ acks \subseteq acks'
      /\ \A s \in acks' \ todo' : s.type = "SUBACK" => s \in acks \ todo \/ s.payload = p
  <2> HIDE DEF p
  <2>1. packetId' \in Int /\ packetId <= packetId' /\ p.id = packetId'
        /\ \A s \in Requests(acks) : s.id < packetId'
    BY <1>0, <1>2, <1>3
  <2> QED
    BY <1>1, <1>2, <1>5, <2>1, SubscribeOrder DEF HeardInv, LiveInv
<1>7. Going \subseteq Going'
  BY <1>2, <1>3, <1>6 DEF Going
<1>8. Coming' \subseteq Coming
  BY <1>2, <1>5, <1>6 DEF Coming
<1>9. toClient' \in Rest(toClient) /\ toBroker' \in Rest(toBroker)
  BY <1>2, WireQueues DEF Rest
<1>10. Talk(toBroker', toClient', packetId', Going', Coming', Covered', bSubs')
  <2>1. /\ toBroker \in Seq(Outgoing) /\ toClient \in Seq(Incoming)
        /\ Talk(toBroker, toClient, packetId, Going, Coming, Covered, bSubs)
        /\ packetId' = packetId /\ packetId <= packetId
    BY <1>0, <1>2 DEF WireInv, HeardInv
  <2>2. Covered' = Covered
    BY <1>6
  <2> QED
    BY <1>0, <1>7, <1>8, <1>9, <2>1, <2>2, TalkKeep
<1> QED
  BY <1>6, <1>10 DEF HeardInv

\* The packet of an unsubscribe was sent: the handler it concerns is there, and
\* its record is made.
LEMMA HeardUnsubscribe ==
    ASSUME ~AllocMayFail, TypeInv, WireInv, HeardInv, NEW i \in Users, mqtt_unsubscribe_record(i),
           Wire(toClient), bSubs' = bSubs
    PROVE  HeardInv'
<1> DEFINE p == u[i].pkt
<1>0. packetId \in Int /\ u \in [Users -> Calls] /\ todo \subseteq acks
      /\ \A s \in Requests(acks) : s.id \in Int
  BY DEF TypeInv, TypeOK, Requests, AckRecords
<1>1. /\ Requesting(i) /\ p.kind = "UNSUBSCRIBE" /\ out' = NULL
      /\ UNCHANGED <<mem, installed, packetId>> /\ u' = [u EXCEPT ![i] = Idle]
  BY DEF mqtt_unsubscribe_record, Requesting, AskKinds, handlerVars
<1>2. /\ p.id = packetId /\ (\A r \in Requests(acks) : r.id < packetId)
      /\ \A j \in Users : Requesting(j) => j = i
  BY <1>1 DEF HeardInv, OrderInv
<1>3. Idle.pc = "idle" /\ u'[i] = Idle /\ \A j \in Users \ {i} : u'[j] = u[j]
  BY <1>0, <1>1 DEF Idle, At
<1>4. /\ \A j \in Users : ~Requesting(j)'
      /\ \A j \in Users : Dropping(u'[j]) => u'[j] = u[j]
  BY <1>2, <1>3 DEF Requesting, Dropping
<1>5. ~mqtt_ack_list_node_is_exist("UNSUBACK", p.id)
  BY <1>0, <1>2 DEF mqtt_ack_list_node_is_exist, Matching, Requests
<1>6. Installed(p.body) # {}
  BY <1>1 DEF HeardInv, LeaveInv, Dropping, Requesting, Installed
<1>7. FALSE \notin AckAlloc
  BY DEF AckAlloc
<1>8. PICK h \in Installed(p.body) : AppendRecord(Ack("UNSUBACK", p.id, h, p))
  BY <1>5, <1>6, <1>7 DEF mqtt_unsubscribe_record
<1>9. PICK r : r = Ack("UNSUBACK", p.id, h, p)
  OBVIOUS
<1>10. r.type = "UNSUBACK" /\ r.id = p.id /\ r.payload = p
  BY <1>9, AckFields
<1>11. acks' = acks \cup {r} /\ (todo' = todo \/ (~PassedTail /\ todo' = todo \cup {r}))
  BY <1>8, <1>9 DEF AppendRecord, mqtt_ack_list_record
<1>12. OrderInv'
  <2>1. /\ packetId' \in Int /\ r.id = packetId' /\ r.payload.id = r.id /\ r.type \in TellKinds
        /\ r.type # "SUBACK"
        /\ \A s \in Requests(acks) : s.id \in Int /\ s.id < packetId'
    BY <1>0, <1>1, <1>2, <1>10 DEF TellKinds
  <2>2. \A s \in Requests(acks) : s.type = "SUBACK" => mem'[s.handler] = mem[s.handler]
    BY <1>1
  <2>3. OrderInv
    BY DEF HeardInv
  <2> HIDE DEF p
  <2> QED
    BY <1>0, <1>4, <1>11, <2>1, <2>2, <2>3, OrderAdd
<1>13. LeaveInv' /\ Covered' = Covered
  BY <1>1, <1>4 DEF HeardInv, LeaveInv, Covered
<1>14. Going \subseteq Going'
  BY <1>2, <1>10, <1>11 DEF Going
<1>15. Coming' \subseteq Coming
  BY <1>4, <1>10, <1>11 DEF Coming
<1>16. toClient' \in Rest(toClient) /\ toBroker' \in Rest(toBroker)
  BY <1>1, WireQueues DEF Rest
<1>17. Talk(toBroker', toClient', packetId', Going', Coming', Covered', bSubs')
  <2>1. /\ toBroker \in Seq(Outgoing) /\ toClient \in Seq(Incoming)
        /\ Talk(toBroker, toClient, packetId, Going, Coming, Covered, bSubs)
        /\ packetId' = packetId /\ packetId <= packetId
    BY <1>0, <1>1 DEF WireInv, HeardInv
  <2>2. Covered' = Covered
    BY <1>13
  <2> QED
    BY <1>0, <1>14, <1>15, <1>16, <2>1, <2>2, TalkKeep
<1> QED
  BY <1>12, <1>13, <1>17 DEF HeardInv

\* A round of mqtt_try_resubscribe.
LEMMA HeardResubscribe ==
    ASSUME TypeInv, LiveInv, WireInv, HeardInv, NoWrap, mqtt_try_resubscribe,
           Wire(toClient), bSubs' = bSubs
    PROVE  HeardInv'
<1>0. /\ packetId \in Int /\ mqtt_get_next_packet_id = packetId + 1
      /\ \A s \in Requests(acks) : s.id \in Int
  BY DEF TypeInv, TypeOK, Requests, AckRecords, mqtt_get_next_packet_id, NoWrap
<1>1. PICK k \in resub :
        LET p == Pkt("SUBSCRIBE", mqtt_get_next_packet_id, mem[k])
        IN  /\ \/ out' = NULL /\ UNCHANGED <<packetId, acks, mem, todo>>
               \/ /\ WriteLockFree /\ packetId' = p.id
                  /\ \/ out' = NULL /\ UNCHANGED <<acks, mem, todo>>
                     \/ out' \in {NULL, p} /\ \E h \in HandlerAlloc : SubscribeRecord(p, h)
            /\ UNCHANGED <<installed, u>>
  BY DEF mqtt_try_resubscribe, mqtt_send_packet, ackVars
<1>2. PICK p : p = Pkt("SUBSCRIBE", mqtt_get_next_packet_id, mem[k])
  OBVIOUS
<1>3. p.kind = "SUBSCRIBE" /\ p.id = packetId + 1
  BY <1>0, <1>2, PktFresh
<1>4. toClient \in Rest(toClient) /\ toBroker \in Rest(toBroker)
  BY DEF Rest
<1>5. CASE /\ out' = NULL /\ UNCHANGED <<acks, mem, todo>>
           /\ packetId' = packetId \/ (WriteLockFree /\ packetId' = packetId + 1)
  <2>1. \/ packetId' = packetId
        \/ packetId' = packetId + 1 /\ \A i \in Users : ~Requesting(i)
    BY <1>5 DEF WriteLockFree, Requesting
  <2>2. Silent
    BY <1>1, <1>5, <2>1 DEF Silent, Requests, Requesting
  <2> QED
    BY <1>4, <1>5, <2>2, HeardWire
<1>6. ASSUME WriteLockFree, packetId' = packetId + 1, out' \in {NULL, p},
             NEW h \in HandlerAlloc, SubscribeRecord(p, h)
      PROVE  HeardInv'
  <2>1. \A i \in Users : ~Requesting(i) /\ ~Requesting(i)'
    BY <1>1, <1>6 DEF WriteLockFree, Requesting
  <2>2. /\ packetId' \in Int /\ packetId <= packetId' /\ p.id = packetId'
        /\ \A s \in Requests(acks) : s.id < packetId'
    BY <1>0, <1>3, <1>6 DEF HeardInv, OrderInv
  <2>3. /\ OrderInv' /\ LeaveInv' /\ Covered' = Covered
        /\ acks \subseteq acks'
        /\ \A s \in acks' \ todo' : s.type = "SUBACK" => s \in acks \ todo \/ s.payload = p
    BY <1>1, <1>6, <2>1, <2>2, SubscribeOrder DEF HeardInv, LiveInv
  <2>4. Going \subseteq Going'
    BY <2>1, <2>3 DEF Going
  <2>5. Coming' \subseteq Coming \cup {p}
    BY <2>1, <2>3 DEF Coming
  <2>6. toClient' \in Rest(toClient) /\ (toBroker' = toBroker \/ toBroker' = Append(toBroker, p))
    BY <1>4, <1>6, WireQueues
  <2>7. /\ toBroker \in Seq(Outgoing) /\ toClient \in Seq(Incoming)
        /\ Talk(toBroker, toClient, packetId, Going, Coming, Covered, bSubs)
        /\ \A c \in Coming : c.id \in Int /\ c.id <= packetId
    BY ComingIds DEF WireInv, HeardInv
  <2>8. Talk(toBroker, toClient, packetId + 1, Going, Coming \cup {p}, Covered, bSubs)
    BY <1>0, <1>3, <2>7, TalkUnsent
  <2>9. Talk(Append(toBroker, p), toClient, packetId + 1, Going, Coming \cup {p}, Covered, bSubs)
    BY <1>0, <1>3, <2>7, TalkSubscribe
  <2>10. PICK q : q = toBroker' /\ q \in Seq(Outgoing \cup {p})
    BY <2>6, <2>7
  <2>11. PICK n \in Int : n = packetId + 1 /\ n <= n
    BY <1>0
  <2>12. PICK coming : coming = Coming \cup {p}
    OBVIOUS
  <2>13. Talk(q, toClient, n, Going, coming, Covered, bSubs) /\ q \in Rest(q)
    BY <2>6, <2>8, <2>9, <2>10, <2>11, <2>12 DEF Rest
  <2>14. Talk(q, toClient', n, Going', Coming', Covered, bSubs)
    BY <2>4, <2>5, <2>6, <2>7, <2>10, <2>11, <2>12, <2>13, TalkKeep
  <2>15. Talk(toBroker', toClient', packetId', Going', Coming', Covered', bSubs')
    BY <1>6, <2>3, <2>10, <2>11, <2>14
  <2> QED
    BY <2>3, <2>15 DEF HeardInv
<1> QED
  BY <1>1, <1>2, <1>3, <1>5, <1>6

-----------------------------------------------------------------------------
(* The steps that end a request.                                           *)

\* A record of a request goes.
LEMMA OrderRemove ==
    ASSUME OrderInv, NEW r, acks' = acks \ {r}, todo' = todo \ {r}, UNCHANGED <<u, packetId>>,
           \A s \in acks' : s.type = "SUBACK" => mem'[s.handler] = mem[s.handler]
    PROVE  OrderInv'
<1>1. \A s \in Requests(acks') : s \in Requests(acks)
  BY DEF Requests
<1>2. \A s \in Requests(todo') : s \in Requests(todo)
  BY DEF Requests
<1>3. ASSUME NEW s \in Requests(acks')
      PROVE  /\ s.id <= packetId' /\ s.payload.id = s.id
             /\ s.type = "SUBACK" => mem'[s.handler] = s.payload.body
  BY <1>1 DEF OrderInv, Requests
<1>4. ASSUME NEW s \in Requests(todo'), NEW t \in Requests(acks'), t.id < s.id PROVE t \in todo'
  BY <1>1, <1>2, <1>4 DEF OrderInv, Requests
<1>5. \A s, t \in Requests(acks') : s.id = t.id => s = t
  BY <1>1 DEF OrderInv
<1>6. ASSUME NEW i \in Users, Requesting(i)'
      PROVE  /\ u'[i].pkt.id = packetId' /\ (\A s \in Requests(acks') : s.id < packetId')
             /\ \A j \in Users : Requesting(j)' => j = i
  BY <1>1, <1>6 DEF OrderInv, Requesting
<1> QED
  BY <1>3, <1>4, <1>5, <1>6 DEF OrderInv

\* mqtt_msg_handler_destory on the handler of a record that goes.
LEMMA DestroySets ==
    ASSUME TypeInv, LiveInv, OrderInv, LeaveInv, NEW r \in acks, r.type \in TellKinds,
           acks' = acks \ {r}, todo' = todo \ {r}, UNCHANGED <<u, packetId>>,
           mqtt_msg_handler_destory(r.handler)
    PROVE  /\ OrderInv' /\ LeaveInv' /\ Coming' \subseteq Coming
           /\ r.type = "SUBACK" => Going \subseteq Going' /\ Covered' \subseteq Covered
           /\ r.type = "UNSUBACK" =>
                 Going \ {r.payload} \subseteq Going' /\ Covered' \subseteq Covered \ {r.payload.body}
<1> DEFINE h == r.handler
<1>0. /\ mem \in [Handlers -> Topics \cup {NULL}] /\ installed \subseteq Handlers
      /\ h \in Handlers
      /\ \A s \in acks : s.type \in TellKinds => s.handler \in Handlers
  BY DEF TypeInv, TypeOK, RecordShape, RecordOK, TellKinds
<1>1. installed' = installed \ {h} /\ mem' = [mem EXCEPT ![h] = NULL]
  BY DEF mqtt_msg_handler_destory
<1>2. \A g \in Handlers \ {h} : mem'[g] = mem[g]
  BY <1>0, <1>1
<1>3. ASSUME NEW s \in acks', s.type = "SUBACK" PROVE mem'[s.handler] = mem[s.handler]
  <2>1. s.handler # h
    BY <1>3 DEF LiveInv, HandlerShape, SubackOwns, UnsubackShares, TellKinds
  <2> QED
    BY <1>0, <1>2, <1>3, <2>1 DEF TellKinds
<1>4. OrderInv'
  BY <1>3, OrderRemove
<1>5. ASSUME NEW i \in Users, Dropping(u'[i]) PROVE \E g \in installed' : mem'[g] = u'[i].pkt.body
  <2>1. PICK g \in installed : mem[g] = u[i].pkt.body
    BY <1>5 DEF LeaveInv
  <2>2. g # h
    BY <1>5, <2>1 DEF Dropping, LiveInv, HandlerShape, SubackOwns, UnsubackShares, UnsubDisjoint, TellKinds
  <2> QED
    BY <1>0, <1>1, <1>2, <2>1, <2>2
<1>6. LeaveInv'
  BY <1>5 DEF LeaveInv
<1>7. Coming' \subseteq Coming
  <2>1. \A s : s \in acks' \ todo' => s \in acks \ todo
    OBVIOUS
  <2>2. \A i \in Users : Requesting(i)' <=> Requesting(i)
    BY DEF Requesting
  <2> QED
    BY <2>1, <2>2 DEF Coming
<1>8. \A i \in Users : Requesting(i)' <=> Requesting(i)
  BY DEF Requesting
<1>9. Going \ {r.payload} \subseteq Going'
  BY <1>8 DEF Going
<1>10. r.type = "SUBACK" => Going \subseteq Going'
  BY <1>8 DEF Going
<1>11. Covered' \subseteq Covered
  BY <1>0, <1>1, <1>2 DEF Covered
<1>12. ASSUME r.type = "UNSUBACK" PROVE r.payload.body \notin Covered'
  <2>1. h \in installed /\ mem[h] = r.payload.body
    BY <1>12 DEF LiveInv, HandlerShape, UnsubackShares
  <2>2. ASSUME NEW g \in installed' PROVE mem'[g] # r.payload.body
    BY <1>0, <1>1, <1>2, <2>1 DEF LiveInv, HandlerShape, OneEach
  <2> QED
    BY <2>2 DEF Covered
<1> QED
  BY <1>4, <1>6, <1>7, <1>9, <1>10, <1>11, <1>12

\* mqtt_ack_list_scan gives up a request.
LEMMA HeardGiveUp ==
    ASSUME TypeInv, LiveInv, WireInv, HeardInv,
           mqtt_ack_list_scan_destroy, Wire(toClient), bSubs' = bSubs
    PROVE  HeardInv'
<1>1. PICK r \in todo : /\ r.type \in TellKinds /\ mqtt_msg_handler_destory(r.handler)
                        /\ acks' = acks \ {r} /\ todo' = todo \ {r}
                        /\ UNCHANGED <<u, packetId>> /\ out' = NULL
  BY DEF mqtt_ack_list_scan_destroy, TellKinds
<1>2. r \in acks /\ todo \subseteq acks /\ packetId \in Int /\ \A s \in acks : s.id \in Int
  BY DEF TypeInv, TypeOK, AckRecords
<1>3. /\ OrderInv' /\ LeaveInv' /\ Coming' \subseteq Coming
      /\ r.type = "SUBACK" => Going \subseteq Going' /\ Covered' \subseteq Covered
      /\ r.type = "UNSUBACK" =>
            Going \ {r.payload} \subseteq Going' /\ Covered' \subseteq Covered \ {r.payload.body}
  BY <1>1, <1>2, DestroySets DEF HeardInv
<1>4. /\ toClient' \in Rest(toClient) /\ toBroker' \in Rest(toBroker)
  BY <1>1, WireQueues DEF Rest
<1>5. /\ toBroker \in Seq(Outgoing) /\ toClient \in Seq(Incoming)
      /\ Talk(toBroker, toClient, packetId, Going, Coming, Covered, bSubs)
      /\ packetId <= packetId /\ packetId' = packetId
  BY <1>1, <1>2 DEF WireInv, HeardInv
<1>6. CASE r.type = "SUBACK"
  <2>1. Going \subseteq Going' /\ Covered' \subseteq Covered /\ Coming' \subseteq Coming
    BY <1>3, <1>6
  <2>2. Talk(toBroker', toClient', packetId', Going', Coming', Covered', bSubs')
    BY <1>2, <1>4, <1>5, <2>1, TalkKeep
  <2> QED
    BY <1>3, <2>2 DEF HeardInv
<1>7. CASE r.type = "UNSUBACK"
  <2>1. PICK g : g = r.payload
    OBVIOUS
  <2>2. g.id \in Int /\ g.id = r.id /\ r.id <= packetId
    BY <1>2, <1>7, <2>1 DEF HeardInv, OrderInv, Requests
  <2>3. ASSUME NEW c \in Coming PROVE c.id \in Int /\ g.id < c.id
    <3>1. CASE \E s \in acks \ todo : s.type = "SUBACK" /\ c = s.payload
      <4>1. PICK s \in acks \ todo : s.type = "SUBACK" /\ c = s.payload
        BY <3>1
      <4>2. r \in Requests(todo) /\ r \in Requests(acks) /\ s \in Requests(acks)
        BY <1>1, <1>2, <4>1 DEF Requests, TellKinds
      <4>3. ~(s.id < r.id) /\ s.id # r.id /\ s.payload.id = s.id
        BY <4>1, <4>2 DEF HeardInv, OrderInv
      <4> QED
        BY <1>2, <2>2, <4>1, <4>3
    <3>2. CASE \E i \in Users : Requesting(i) /\ c = u[i].pkt
      <4>1. r \in Requests(acks)
        BY <1>1, <1>2 DEF Requests, TellKinds
      <4> QED
        BY <1>2, <2>2, <3>2, <4>1 DEF HeardInv, OrderInv
    <3> QED
      BY <3>1, <3>2 DEF Coming
  <2>4. Talk(toBroker, toClient, packetId, Going \ {g}, Coming, Covered \ {g.body}, bSubs)
    BY <1>2, <1>5, <2>2, <2>3, TalkGiveUp
  <2>5. PICK going, topics : going = Going \ {g} /\ topics = Covered \ {g.body}
    OBVIOUS
  <2>6. going \subseteq Going' /\ Covered' \subseteq topics /\ Coming' \subseteq Coming
    BY <1>3, <1>7, <2>1, <2>5
  <2>7. Talk(toBroker, toClient, packetId, going, Coming, topics, bSubs)
    BY <2>4, <2>5
  <2>8. Talk(toBroker', toClient', packetId', Going', Coming', Covered', bSubs')
    BY <1>2, <1>4, <1>5, <2>6, <2>7, TalkKeep
  <2> QED
    BY <1>3, <2>8 DEF HeardInv
<1> QED
  BY <1>1, <1>6, <1>7 DEF TellKinds

\* The queues after a Read.
LEMMA ReadQueues ==
    ASSUME WireInv, toClient # <<>>, Wire(Tail(toClient)), out' = NULL
    PROVE  /\ Tail(toClient) \in Seq(Incoming) /\ Tail(toClient) \in Rest(toClient)
           /\ toClient' \in Rest(Tail(toClient)) /\ toClient' \in Rest(toClient)
           /\ toBroker' = toBroker /\ toBroker' \in Rest(toBroker)
           /\ toBroker \in Seq(Outgoing) /\ toClient \in Seq(Incoming)
<1>1. Tail(toClient) \in Rest(toClient) /\ toClient \in Seq(Incoming) /\ toBroker \in Seq(Outgoing)
  BY DEF Rest, WireInv
<1>2. Tail(toClient) \in Seq(Incoming)
  BY <1>1, RestPackets
<1>3. toClient' \in {Tail(toClient), <<>>} /\ toClient' \in Rest(toClient) /\ toBroker' = toBroker
  BY <1>1, WireQueues
<1> QED
  BY <1>1, <1>2, <1>3 DEF Rest

\* A SUBACK whose subscribe is not recorded changes nothing, and the same for
\* an UNSUBACK.
LEMMA HeardUnknown ==
    ASSUME TypeInv, WireInv, HeardInv, toClient # <<>>, Wire(Tail(toClient)), out' = NULL,
           UNCHANGED <<acks, todo, u, packetId, mem, installed, bSubs>>
    PROVE  HeardInv'
<1>1. Silent
  BY SilentRecords
<1>2. Tail(toClient) \in Rest(toClient)
  BY ReadQueues
<1> QED
  BY <1>1, <1>2, HeardWire

\* SUBACK arrives.
LEMMA HeardSuback ==
    ASSUME ~CharSigned, ListInv, TypeInv, LiveInv, WireInv, HeardInv,
           toClient # <<>>, Head(toClient).kind = "SUBACK",
           mqtt_suback_packet_handle(Head(toClient).id, Head(toClient).body),
           Wire(Tail(toClient)), bSubs' = bSubs
    PROVE  HeardInv'
<1>0. PICK q : q = Head(toClient)
  OBVIOUS
<1>1. /\ todo = {} /\ todo' = todo /\ UNCHANGED <<u, packetId>> /\ out' = NULL
      /\ mqtt_ack_list_unrecord("SUBACK", q.id)
  BY <1>0 DEF mqtt_suback_packet_handle, CanRead, ThenKeepAlive, ListInv, Scanning
<1>2. \/ Matching("SUBACK", q.id) = {} /\ UNCHANGED <<mem, installed>>
      \/ \E r \in Matching("SUBACK", q.id) :
            \/ mqtt_msg_handler_destory(r.handler)
            \/ readChar(q.body) # SUBFAIL /\ mqtt_msg_handlers_install(r.handler, q.body)
  BY <1>0 DEF mqtt_suback_packet_handle, mqtt_ack_list_node_is_exist, handlerVars
<1>3. /\ Tail(toClient) \in Seq(Incoming) /\ Tail(toClient) \in Rest(toClient)
      /\ toClient' \in Rest(toClient) /\ toBroker' \in Rest(toBroker)
      /\ toBroker \in Seq(Outgoing) /\ toClient \in Seq(Incoming)
  BY <1>1, ReadQueues
<1>4. /\ packetId \in Int /\ packetId <= packetId /\ packetId' = packetId
      /\ Talk(toBroker, toClient, packetId, Going, Coming, Covered, bSubs)
  BY <1>1 DEF HeardInv, TypeInv, TypeOK
<1>5. CASE Matching("SUBACK", q.id) = {} /\ UNCHANGED <<mem, installed>>
  <2>1. acks' = acks
    BY <1>1, <1>5 DEF mqtt_ack_list_unrecord
  <2> QED
    BY <1>1, <1>5, <2>1, HeardUnknown
<1>6. ASSUME NEW r \in Matching("SUBACK", q.id), mqtt_msg_handler_destory(r.handler)
      PROVE  HeardInv'
  <2>1. r \in acks /\ r.type = "SUBACK" /\ acks' = acks \ {r} /\ todo' = todo \ {r} /\ r.type \in TellKinds
    BY <1>1, MatchOne DEF TellKinds
  <2>2. /\ OrderInv' /\ LeaveInv' /\ Coming' \subseteq Coming
        /\ Going \subseteq Going' /\ Covered' \subseteq Covered
    BY <1>1, <1>6, <2>1, DestroySets DEF HeardInv
  <2>3. Talk(toBroker', toClient', packetId', Going', Coming', Covered', bSubs')
    BY <1>3, <1>4, <2>2, TalkKeep
  <2> QED
    BY <2>2, <2>3 DEF HeardInv
<1>7. ASSUME NEW r \in Matching("SUBACK", q.id), readChar(q.body) # SUBFAIL,
             mqtt_msg_handlers_install(r.handler, q.body)
      PROVE  HeardInv'
  <2>1. r \in acks /\ r.type = "SUBACK" /\ acks' = acks \ {r} /\ todo' = todo \ {r} /\ r.id = q.id
    BY <1>1, MatchOne DEF Matching
  <2>2. installed' = installed \cup {r.handler} /\ mem' = mem
    BY <1>7 DEF mqtt_msg_handlers_install
  <2>3. OrderInv'
    BY <1>1, <2>1, <2>2, OrderRemove DEF HeardInv
  <2>4. LeaveInv'
    BY <1>1, <2>2 DEF HeardInv, LeaveInv
  <2>5. PICK c : c = r.payload
    OBVIOUS
  <2>6. c \in Coming /\ c.id = q.id /\ mem[r.handler] = c.body
    BY <1>1, <2>1, <2>5 DEF Coming, HeardInv, OrderInv, Requests
  <2>7. q.body # SUBFAIL
    BY <1>7 DEF readChar
  <2>8. Talk(toBroker, toClient, packetId, Going, Coming, Covered \cup {c.body}, bSubs)
    BY <1>0, <1>3, <1>4, <2>6, <2>7, TalkInstall
  <2>9. PICK topics : topics = Covered \cup {c.body}
    OBVIOUS
  <2>10. Covered' \subseteq topics
    BY <2>2, <2>6, <2>9 DEF Covered
  <2>11. \A i \in Users : Requesting(i)' <=> Requesting(i)
    BY <1>1 DEF Requesting
  <2>12. Going \subseteq Going'
    BY <1>1, <2>1, <2>11 DEF Going
  <2>13. Coming' \subseteq Coming
    BY <1>1, <2>1, <2>11 DEF Coming
  <2>14. Talk(toBroker, toClient, packetId, Going, Coming, topics, bSubs)
    BY <2>8, <2>9
  <2>15. Talk(toBroker', toClient', packetId', Going', Coming', Covered', bSubs')
    BY <1>3, <1>4, <2>10, <2>12, <2>13, <2>14, TalkKeep
  <2> QED
    BY <2>3, <2>4, <2>15 DEF HeardInv
<1> QED
  BY <1>2, <1>5, <1>6, <1>7

\* UNSUBACK arrives.
LEMMA HeardUnsuback ==
    ASSUME ListInv, TypeInv, LiveInv, WireInv, HeardInv,
           toClient # <<>>, Head(toClient).kind = "UNSUBACK",
           mqtt_unsuback_packet_handle(Head(toClient).id),
           Wire(Tail(toClient)), bSubs' = bSubs
    PROVE  HeardInv'
<1>0. PICK q : q = Head(toClient)
  OBVIOUS
<1>1. /\ todo = {} /\ todo' = todo /\ UNCHANGED <<u, packetId>> /\ out' = NULL
      /\ mqtt_ack_list_unrecord("UNSUBACK", q.id)
  BY <1>0 DEF mqtt_unsuback_packet_handle, CanRead, ThenKeepAlive, ListInv, Scanning
<1>2. \/ Matching("UNSUBACK", q.id) = {} /\ UNCHANGED <<mem, installed>>
      \/ \E r \in Matching("UNSUBACK", q.id) : mqtt_msg_handler_destory(r.handler)
  BY <1>0 DEF mqtt_unsuback_packet_handle, mqtt_ack_list_node_is_exist, handlerVars
<1>3. /\ Tail(toClient) \in Seq(Incoming) /\ toClient' \in Rest(Tail(toClient))
      /\ toBroker' \in Rest(toBroker)
      /\ toBroker \in Seq(Outgoing) /\ toClient \in Seq(Incoming)
  BY <1>1, ReadQueues
<1>4. /\ packetId \in Int /\ packetId <= packetId /\ packetId' = packetId
      /\ Talk(toBroker, toClient, packetId, Going, Coming, Covered, bSubs)
      /\ \A c \in Coming : c.id \in Int
  BY <1>1, ComingIds DEF HeardInv, TypeInv, TypeOK
<1>5. CASE Matching("UNSUBACK", q.id) = {} /\ UNCHANGED <<mem, installed>>
  <2>1. acks' = acks
    BY <1>1, <1>5 DEF mqtt_ack_list_unrecord
  <2> QED
    BY <1>1, <1>5, <2>1, HeardUnknown
<1>6. ASSUME NEW r \in Matching("UNSUBACK", q.id), mqtt_msg_handler_destory(r.handler)
      PROVE  HeardInv'
  <2>1. /\ r \in acks /\ r.type = "UNSUBACK" /\ acks' = acks \ {r} /\ todo' = todo \ {r}
        /\ r.type \in TellKinds /\ r.id = q.id
    BY <1>1, MatchOne DEF TellKinds, Matching
  <2>2. /\ OrderInv' /\ LeaveInv' /\ Coming' \subseteq Coming
        /\ Going \ {r.payload} \subseteq Going' /\ Covered' \subseteq Covered \ {r.payload.body}
    BY <1>1, <1>6, <2>1, DestroySets DEF HeardInv
  <2>3. PICK g : g = r.payload
    OBVIOUS
  <2>4. g.id = q.id
    BY <2>1, <2>3 DEF HeardInv, OrderInv, Requests
  <2>5. Talk(toBroker, Tail(toClient), packetId, Going \ {g}, Coming, Covered \ {g.body}, bSubs)
    BY <1>0, <1>3, <1>4, <2>4, TalkGone
  <2>6. PICK going, topics, tc : going = Going \ {g} /\ topics = Covered \ {g.body} /\ tc = Tail(toClient)
    OBVIOUS
  <2>7. /\ going \subseteq Going' /\ Covered' \subseteq topics /\ tc \in Seq(Incoming)
        /\ toClient' \in Rest(tc) /\ Talk(toBroker, tc, packetId, going, Coming, topics, bSubs)
    BY <1>3, <2>2, <2>3, <2>5, <2>6
  <2>8. Talk(toBroker', toClient', packetId', Going', Coming', Covered', bSubs')
    BY <1>3, <1>4, <2>2, <2>7, TalkKeep
  <2> QED
    BY <2>2, <2>8 DEF HeardInv
<1> QED
  BY <1>2, <1>5, <1>6

-----------------------------------------------------------------------------
(* The broker's steps, and the invariant of requests in every step.        *)

\* A packet of another exchange for the client.
LEMMA HeardQueues ==
    ASSUME TypeInv, WireInv, HeardInv, Silent, bSubs' = bSubs, toBroker' \in Rest(toBroker),
           NEW r \in Rest(toClient), NEW p, p.kind \notin TellKinds, toClient' = Append(r, p)
    PROVE  HeardInv'
<1>1. OrderInv' /\ LeaveInv'
  BY SilentOrder DEF HeardInv
<1>2. Going \subseteq Going' /\ Coming' \subseteq Coming /\ Covered' \subseteq Covered
  BY SilentSets
<1>3. packetId \in Int /\ packetId' \in Int /\ packetId <= packetId'
  BY DEF TypeInv, TypeOK, Silent
<1>4. /\ toBroker \in Seq(Outgoing) /\ toClient \in Seq(Incoming)
      /\ Talk(toBroker, toClient, packetId, Going, Coming, Covered, bSubs)
  BY DEF WireInv, HeardInv
<1>5. Talk(toBroker', r, packetId', Going', Coming', Covered', bSubs')
  BY <1>2, <1>3, <1>4, TalkKeep
<1>6. r \in Seq(Incoming) /\ toBroker' \in Seq(Outgoing)
  BY <1>4, RestPackets
<1>7. Talk(toBroker', Append(r, p), packetId', Going', Coming', Covered', bSubs')
  BY <1>3, <1>5, <1>6, TalkOther
<1> QED
  BY <1>1, <1>7 DEF HeardInv

\* The connection is established again.
LEMMA HeardConnected ==
    ASSUME ~CleanSession, TypeInv, WireInv, HeardInv, Silent, Connected
    PROVE  HeardInv'
<1>1. toBroker' = <<>> /\ toClient' = Resume /\ bSubs' = bSubs
  BY DEF Connected
<1>2. <<>> \in Rest(toClient) /\ toBroker' \in Rest(toBroker)
  BY <1>1 DEF Rest
<1>3. \/ Resume = <<>>
      \/ \E p : p.kind \notin TellKinds /\ Resume = Append(<<>>, p)
  <2>1. CASE bPhase = "idle"
    BY <2>1 DEF Resume
  <2>2. CASE bPhase = "ack"
    <3>1. PICK p : p = Publish(BrokerId, bQos[Len(bQos)], 1, Len(bQos))
      OBVIOUS
    <3>2. Resume = <<p>> /\ <<p>> = Append(<<>>, p)
      BY <2>2, <3>1 DEF Resume
    <3>3. p.kind \notin TellKinds
      BY <3>1 DEF Publish, TellKinds
    <3> QED
      BY <3>2, <3>3
  <2>3. CASE bPhase = "release"
    <3>1. PICK p : p = Pkt("PUBREL", BrokerId, NULL)
      OBVIOUS
    <3>2. Resume = <<p>> /\ <<p>> = Append(<<>>, p)
      BY <2>3, <3>1 DEF Resume
    <3>3. p.kind \notin TellKinds
      BY <3>1 DEF Pkt, TellKinds
    <3> QED
      BY <3>2, <3>3
  <2> QED
    BY <2>1, <2>2, <2>3 DEF WireInv
<1>4. CASE Resume = <<>>
  BY <1>1, <1>2, <1>4, HeardSilent
<1>5. ASSUME NEW p, p.kind \notin TellKinds, Resume = Append(<<>>, p) PROVE HeardInv'
  BY <1>1, <1>2, <1>5, HeardQueues
<1> QED
  BY <1>3, <1>4, <1>5

\* The broker reads.
LEMMA HeardBrokerRead == ASSUME TypeInv, WireInv, HeardInv, BrokerRead PROVE HeardInv'
<1> DEFINE p == Head(toBroker)
<1>1. /\ UNCHANGED vars /\ toBroker # <<>> /\ toBroker' = Tail(toBroker) /\ BrokerReceive(p)
  BY DEF BrokerRead
<1>2. Silent
  BY <1>1, SilentRecords DEF vars
<1>3. toBroker' \in Rest(toBroker) /\ toClient \in Rest(toClient)
  BY <1>1 DEF Rest
<1>4. /\ toBroker \in Seq(Outgoing) /\ toClient \in Seq(Incoming)
      /\ Talk(toBroker, toClient, packetId, Going, Coming, Covered, bSubs)
      /\ packetId \in Int
  BY DEF WireInv, HeardInv, TypeInv, TypeOK
<1>5. OrderInv' /\ LeaveInv'
  BY <1>2, SilentOrder DEF HeardInv
<1>6. Going' = Going /\ Coming' = Coming /\ Covered' = Covered /\ packetId' = packetId
  BY <1>1 DEF Going, Coming, Covered, Requesting, vars
<1> HIDE DEF p
<1>7. ASSUME NEW kind, NEW id, NEW body, ReplyWith(kind, id, body)
      PROVE  toClient' = toClient \/ toClient' = Append(toClient, Pkt(kind, id, body))
  BY <1>7 DEF ReplyWith
<1>8. ASSUME NEW kind, kind \notin TellKinds, NEW id, Reply(kind, id), bSubs' = bSubs PROVE HeardInv'
  <2>1. Pkt(kind, id, NULL).kind \notin TellKinds
    BY <1>8 DEF Pkt
  <2>2. toClient' = toClient \/ toClient' = Append(toClient, Pkt(kind, id, NULL))
    BY <1>7, <1>8 DEF Reply
  <2>3. CASE toClient' = toClient
    BY <1>2, <1>3, <1>8, <2>3, HeardSilent
  <2>4. CASE toClient' = Append(toClient, Pkt(kind, id, NULL))
    BY <1>2, <1>3, <1>8, <2>1, <2>4, HeardQueues
  <2> QED
    BY <2>2, <2>3, <2>4
<1>9. CASE p.kind = "PUBLISH" /\ BrokerPublish(p) /\ UNCHANGED <<bPhase, bSubs>>
  BY <1>8, <1>9 DEF BrokerPublish, TellKinds
<1>10. CASE toClient' = toClient /\ UNCHANGED bSubs
  BY <1>2, <1>3, <1>10, HeardSilent
<1>11. CASE p.kind = "SUBSCRIBE" /\ \E code \in SubCodes :
              /\ ReplyWith("SUBACK", p.id, code)
              /\ bSubs' = IF code = SUBFAIL THEN bSubs ELSE bSubs \cup {p.body}
  <2>1. PICK code \in SubCodes :
           /\ ReplyWith("SUBACK", p.id, code)
           /\ bSubs' = IF code = SUBFAIL THEN bSubs ELSE bSubs \cup {p.body}
    BY <1>11
  <2>2. PICK q : q = Pkt("SUBACK", p.id, code)
    OBVIOUS
  <2>3. q.kind = "SUBACK" /\ q.id = p.id /\ q.body = code
    BY <2>2 DEF Pkt
  <2>4. CASE toClient' = toClient
    <3>1. bSubs \subseteq bSubs'
      BY <2>1
    <3> QED
      BY <1>2, <1>3, <2>4, <3>1, HeardSilent
  <2>5. CASE toClient' = Append(toClient, q)
    <3>1. Talk(Tail(toBroker), Append(toClient, q), packetId, Going, Coming, Covered, bSubs')
      <4>1. /\ q.kind = "SUBACK" /\ q.id = Head(toBroker).id /\ Head(toBroker).kind = "SUBSCRIBE"
            /\ bSubs' = IF q.body = SUBFAIL THEN bSubs ELSE bSubs \cup {Head(toBroker).body}
        BY <1>11, <2>1, <2>3 DEF p
      <4> QED
        BY <1>1, <1>4, <4>1, TalkSuback
    <3> QED
      BY <1>1, <1>5, <1>6, <2>5, <3>1 DEF HeardInv
  <2> QED
    BY <1>7, <2>1, <2>2, <2>4, <2>5
<1>12. CASE p.kind = "UNSUBSCRIBE" /\ Reply("UNSUBACK", p.id) /\ bSubs' = bSubs \ {p.body}
  <2>1. PICK q : q = Pkt("UNSUBACK", p.id, NULL)
    OBVIOUS
  <2>2. q.kind = "UNSUBACK" /\ q.id = Head(toBroker).id /\ Head(toBroker).kind = "UNSUBSCRIBE"
    BY <1>12, <2>1 DEF Pkt, p
  <2>3. toClient' = toClient \/ toClient' = Append(toClient, q)
    BY <1>7, <1>12, <2>1 DEF Reply
  <2>4. /\ Talk(Tail(toBroker), Append(toClient, q), packetId, Going, Coming, Covered,
                bSubs \ {Head(toBroker).body})
        /\ Talk(Tail(toBroker), toClient, packetId, Going, Coming, Covered,
                bSubs \ {Head(toBroker).body})
    BY <1>1, <1>4, <2>2, TalkUnsuback
  <2>5. bSubs' = bSubs \ {Head(toBroker).body}
    BY <1>12 DEF p
  <2> QED
    BY <1>1, <1>5, <1>6, <2>3, <2>4, <2>5 DEF HeardInv
<1>13. CASE /\ UNCHANGED bSubs
            /\ \/ Reply("PUBCOMP", p.id) \/ Reply("PUBREL", p.id) \/ Reply("PINGRESP", 0)
  BY <1>8, <1>13 DEF TellKinds
<1> QED
  BY <1>1, <1>9, <1>10, <1>11, <1>12, <1>13 DEF BrokerReceive

\* The client reads.
LEMMA HeardRead ==
    ASSUME ~CharSigned, ListInv, TypeInv, LiveInv, WireInv, HeardInv, Read
    PROVE  HeardInv'
<1>0. PICK p : p = Head(toClient)
  OBVIOUS
<1>1. toClient # <<>> /\ Handle(p) /\ Wire(Tail(toClient)) /\ bSubs' = bSubs
  BY <1>0 DEF Read, brokerVars
<1>2. Tail(toClient) \in Rest(toClient)
  BY <1>1 DEF Rest
<1>3. ASSUME Silent, out' # NULL => out'.kind \notin AskKinds PROVE HeardInv'
  BY <1>1, <1>2, <1>3, HeardWire
<1>4. CASE p.kind \in {"PUBACK", "PUBCOMP"} /\ mqtt_puback_and_pubcomp_packet_handle(p.kind, p.id)
  <2>1. out' = NULL
    BY <1>4 DEF mqtt_puback_and_pubcomp_packet_handle
  <2> QED
    BY <1>3, <1>4, <2>1, SilentPacket
<1>5. CASE mqtt_pubrec_packet_handle(p.id)
  <2>1. out' # NULL => out'.kind \notin AskKinds
    <3>1. out' \in {NULL, Pkt("PUBREL", p.id, NULL)}
      BY <1>5 DEF mqtt_pubrec_packet_handle, mqtt_send_packet
    <3> QED
      BY <3>1, PktFresh DEF AskKinds
  <2> QED
    BY <1>3, <1>5, <2>1, SilentPacket
<1>6. ASSUME NEW ok \in BOOLEAN, mqtt_pubrel_packet_handle(p.id, ok) PROVE HeardInv'
  <2>1. out' # NULL => out'.kind \notin AskKinds
    BY <1>6, PktFresh DEF mqtt_pubrel_packet_handle, mqtt_send_packet, AskKinds
  <2> QED
    BY <1>3, <1>6, <2>1, SilentPacket
<1>7. ASSUME NEW ok \in BOOLEAN, mqtt_publish_packet_handle(p.id, p.qos, ok) PROVE HeardInv'
  <2>1. out' \in {NULL, Pkt("PUBACK", p.id, NULL), Pkt("PUBREC", p.id, NULL)}
    BY <1>7 DEF mqtt_publish_packet_handle, mqtt_send_packet
  <2>2. out' # NULL => out'.kind \notin AskKinds
    BY <2>1, PktFresh DEF AskKinds
  <2> QED
    BY <1>3, <1>7, <2>2, SilentPacket
<1>8. CASE pingresp_packet_handle
  BY <1>3, <1>8, SilentPacket DEF pingresp_packet_handle
<1>9. CASE p.kind = "SUBACK" /\ mqtt_suback_packet_handle(p.id, p.body)
  BY <1>0, <1>1, <1>9, HeardSuback
<1>10. CASE p.kind = "UNSUBACK" /\ mqtt_unsuback_packet_handle(p.id)
  BY <1>0, <1>1, <1>10, HeardUnsuback
<1> QED
  BY <1>1, <1>4, <1>5, <1>6, <1>7, <1>8, <1>9, <1>10 DEF Handle

\* Every step of the system.
LEMMA HeardStep ==
    ASSUME ~CharSigned, ~AllocMayFail, ~CleanSession, NoWrap, ListInv, TypeInv, LiveInv,
           WireInv, RepeatInv, HeardInv, [SystemNext]_systemVars
    PROVE  HeardInv'
<1>0. toClient \in Rest(toClient) /\ toBroker \in Rest(toBroker)
  BY DEF Rest
<1>1. ASSUME Silent, out' = NULL \/ out'.kind \notin AskKinds, Wire(toClient), bSubs' = bSubs
      PROVE  HeardInv'
  BY <1>0, <1>1, HeardWire
<1>2. CASE UNCHANGED systemVars \/ Cut
  <2>1. UNCHANGED <<vars, bSubs>> /\ toClient' \in {toClient, <<>>} /\ toBroker' \in {toBroker, <<>>}
    BY <1>2 DEF systemVars, Cut, brokerVars, wireVars
  <2>2. Silent
    BY <2>1, SilentRecords DEF vars
  <2>3. toClient' \in Rest(toClient) /\ toBroker' \in Rest(toBroker)
    BY <2>1 DEF Rest
  <2> QED
    BY <2>1, <2>2, <2>3, HeardSilent
<1>3. CASE Reconnect
  <2>1. Silent
    BY <1>3, SilentYield DEF Reconnect
  <2>2. toClient' \in Rest(toClient) /\ toBroker' \in Rest(toBroker) /\ bSubs' = bSubs
    BY <1>3 DEF Reconnect, Rest, brokerVars
  <2> QED
    BY <2>1, <2>2, HeardSilent
<1>4. CASE Read
  BY <1>4, HeardRead
<1>5. CASE ReadNothing \/ Deliver
  <2>1. /\ nothing_read \/ mqtt_deliver_message
        /\ out' = NULL /\ Wire(toClient) /\ bSubs' = bSubs
    BY <1>5 DEF ReadNothing, Deliver, brokerVars, nothing_read, mqtt_deliver_message
  <2>2. Silent
    BY <2>1, SilentYield
  <2> QED
    BY <1>1, <2>1, <2>2
<1>6. CASE KeepAlive
  <2>1. Silent
    BY <1>6, SilentYield DEF KeepAlive
  <2>2. out' = NULL \/ out'.kind \notin AskKinds
    BY <1>6, PktFresh DEF KeepAlive, mqtt_keep_alive, mqtt_send_packet, AskKinds
  <2> QED
    BY <1>1, <1>6, <2>1, <2>2 DEF KeepAlive, brokerVars
<1>7. CASE Resend
  <2>0. Wire(toClient) /\ bSubs' = bSubs
    BY <1>7 DEF Resend, brokerVars
  <2>1. CASE mqtt_try_resubscribe
    BY <2>0, <2>1, HeardResubscribe
  <2>2. CASE mqtt_ack_handler_resend
    <3>1. PICK r \in todo : out' \in {NULL, r.payload} /\ r.type \notin TellKinds
      BY <2>2 DEF mqtt_ack_handler_resend, mqtt_send_packet, TellKinds
    <3>2. RepeatOK(r)
      BY DEF TypeInv, TypeOK, RepeatInv
    <3>3. r.payload.kind \notin AskKinds
      <4>1. CASE r.type = "PUBREL"
        <5>1. r = Ack("PUBREL", BrokerId, NULL, Pkt("PUBREC", BrokerId, NULL))
          BY <3>2, <4>1 DEF RepeatOK
        <5>2. r.payload = Pkt("PUBREC", BrokerId, NULL)
          BY <5>1, AckFields
        <5> QED
          BY <5>2, PktFresh DEF AskKinds
      <4>2. CASE r.type # "PUBREL"
        BY <3>1, <3>2, <4>2 DEF RepeatOK, TellKinds, AskKinds
      <4> QED
        BY <4>1, <4>2
    <3>4. Silent
      BY <2>2, SilentYield
    <3> QED
      BY <1>1, <2>0, <3>1, <3>3, <3>4
  <2> QED
    BY <1>7, <2>1, <2>2 DEF Resend
<1>8. CASE Other
  <2>0. Wire(toClient) /\ bSubs' = bSubs
    BY <1>8 DEF Other, brokerVars
  <2>1. CASE mqtt_ack_list_scan_destroy
    BY <2>0, <2>1, HeardGiveUp
  <2>2. CASE \/ mqtt_keep_alive_drop \/ mqtt_ack_list_scan_end
             \/ mqtt_reconnect_done \/ mqtt_resubscribed
    <3>1. out' = NULL
      BY <2>2 DEF mqtt_keep_alive_drop, mqtt_ack_list_scan_end, mqtt_reconnect_done, mqtt_resubscribed
    <3> QED
      BY <1>1, <2>0, <2>2, <3>1, SilentYield
  <2> QED
    BY <1>8, <2>1, <2>2 DEF Other
<1>9. CASE Handshake
  <2>1. Silent
    BY <1>9, SilentYield DEF Handshake
  <2>2. CASE Connected
    BY <2>1, <2>2, HeardConnected
  <2>3. CASE toClient' = <<>> /\ UNCHANGED <<toBroker, brokerVars>>
    <3>1. toClient' \in Rest(toClient) /\ toBroker' \in Rest(toBroker) /\ bSubs' = bSubs
      BY <2>3 DEF Rest, brokerVars
    <3> QED
      BY <2>1, <3>1, HeardSilent
  <2> QED
    BY <1>9, <2>2, <2>3 DEF Handshake
<1>10. CASE BrokerRead
  BY <1>10, HeardBrokerRead
<1>11. CASE BrokerSend
  <2>1. UNCHANGED <<vars, bSubs, toBroker>>
    BY <1>11 DEF BrokerSend
  <2>2. Silent
    BY <2>1, SilentRecords DEF vars
  <2>3. PICK q \in InQos \ {0} : toClient' = Append(toClient, Publish(BrokerId, q, 0, Len(bQos) + 1))
    BY <1>11 DEF BrokerSend
  <2>4. PICK p : p = Publish(BrokerId, q, 0, Len(bQos) + 1)
    OBVIOUS
  <2>5. p.kind \notin TellKinds
    BY <2>4 DEF Publish, TellKinds
  <2> QED
    BY <1>0, <2>1, <2>2, <2>3, <2>4, <2>5, HeardQueues
<1>12. ASSUME NEW i \in Users, Connect(i) PROVE HeardInv'
  <2>1. Silent
    BY <1>12, SilentCall DEF Connect
  <2>2. CASE Connected
    BY <2>1, <2>2, HeardConnected
  <2>3. CASE UNCHANGED <<wireVars, brokerVars>>
    BY <1>0, <2>1, <2>3, HeardSilent DEF wireVars, brokerVars
  <2> QED
    BY <1>12, <2>2, <2>3 DEF Connect
<1>13. ASSUME NEW i \in Users, Ask(i) \/ AskTopic(i) PROVE HeardInv'
  <2>1. Silent
    BY <1>13, SilentCall DEF Ask, AskTopic
  <2>2. UNCHANGED <<wireVars, brokerVars>>
    BY <1>13 DEF Ask, AskTopic
  <2> QED
    BY <1>0, <2>1, <2>2, HeardSilent DEF wireVars, brokerVars
<1>14. ASSUME NEW i \in Users, InCall(i) PROVE HeardInv'
  <2>0. Wire(toClient) /\ bSubs' = bSubs
    BY <1>14 DEF InCall, brokerVars
  <2>1. CASE mqtt_request_send(i)
    BY <2>0, <2>1, HeardRequest
  <2>2. CASE mqtt_subscribe_record(i)
    BY <2>0, <2>2, HeardSubscribe
  <2>3. CASE mqtt_unsubscribe_record(i)
    BY <2>0, <2>3, HeardUnsubscribe
  <2>4. CASE \/ mqtt_publish_send(i) \/ mqtt_publish_record(i)
             \/ mqtt_publish_release(i) \/ mqtt_publish_disconnected(i)
    <3>1. Silent
      BY <2>4, SilentCall
    <3>2. out' = NULL \/ out'.kind \notin AskKinds
      <4>1. CASE mqtt_publish_send(i)
        <5>1. PICK id : out' \in {NULL, WithId(u[i].pkt, id)} /\ u[i].pkt.kind = "PUBLISH"
          BY <4>1 DEF mqtt_publish_send, mqtt_send_packet
        <5> QED
          BY <5>1 DEF WithId, AskKinds
      <4>2. CASE mqtt_publish_record(i) \/ mqtt_publish_release(i) \/ mqtt_publish_disconnected(i)
        BY <4>2 DEF mqtt_publish_record, mqtt_publish_release, mqtt_publish_disconnected
      <4> QED
        BY <2>4, <4>1, <4>2
    <3> QED
      BY <1>1, <2>0, <3>1, <3>2
  <2> QED
    BY <1>14, <2>1, <2>2, <2>3, <2>4 DEF InCall
<1> QED
  BY <1>2, <1>3, <1>4, <1>5, <1>6, <1>7, <1>8, <1>9, <1>10, <1>11, <1>12, <1>13, <1>14
     DEF SystemNext, YieldThread

\* No request is made at the start.
LEMMA HeardInit == SystemInit => HeardInv
<1> SUFFICES ASSUME SystemInit PROVE HeardInv
    OBVIOUS
<1> USE DEF SystemInit, Init
<1>1. \A i \in Users : u[i].pc = "idle"
  BY DEF Idle, At
<1>2. OrderInv /\ LeaveInv
  BY <1>1 DEF OrderInv, LeaveInv, Requests, Requesting, Dropping
<1>3. Of(toBroker, AskKinds) = {} /\ Of(toClient, TellKinds) = {}
  BY DEF Of
<1>4. Going = {} /\ Coming = {} /\ Covered = {}
  BY <1>1 DEF Going, Coming, Covered, Requesting
<1>5. Rising(toBroker, AskKinds) /\ Rising(toClient, TellKinds)
  BY DEF Rising
<1>6. Talk(toBroker, toClient, packetId, Going, Coming, Covered, bSubs)
  BY <1>3, <1>4, <1>5 DEF Talk, Agree, InTurn
<1> QED
  BY <1>2, <1>6 DEF HeardInv

\* The invariant says that handlers are heard.
LEMMA HeardCovered == ASSUME LiveInv, HeardInv PROVE HandlersHeard
<1> SUFFICES ASSUME NEW h \in installed, mem[h] \notin bSubs PROVE Leaving(mem[h])
    BY DEF HandlersHeard
<1>1. PICK g \in Going : g.body = mem[h]
  BY DEF HeardInv, Talk, Agree, Covered
<1>2. CASE \E r \in acks : r.type = "UNSUBACK" /\ g = r.payload
  BY <1>1, <1>2 DEF Leaving, LiveInv, HandlerShape, UnsubackShares
<1>3. CASE \E i \in Users : Requesting(i) /\ u[i].pkt.kind = "UNSUBSCRIBE" /\ g = u[i].pkt
  BY <1>1, <1>3 DEF Leaving, LiveInv, UnsubDisjoint, Requesting
<1> QED
  BY <1>2, <1>3 DEF Going

\* In a session that is kept, on a build with unsigned char whose allocations
\* succeed, for an application that does not unsubscribe from a topic twice at
\* once: as long as the packet ids have not been used up, every installed
\* handler belongs to a subscription the broker has, or is about to go.
\* Requests of any number of threads, resubscribes after reconnects, timeouts
\* that give requests up and answers that come too late do not separate the
\* two sides.
THEOREM HeardCorrect ==
    ASSUME ~CharSigned, ~AllocMayFail, ~OverlappingUnsub, ~CleanSession
    PROVE  SystemSpec /\ []NoWrap => []HandlersHeard
<1>1. SystemInit => Init
  BY DEF SystemInit
<1>2. InInv /\ [SystemNext]_systemVars => [Next]_vars
  BY ClientStep DEF InInv, ExInv
<1>3. TypeInv /\ InInv /\ [SystemNext]_systemVars => InInv'
  BY InStep
<1>4. ListInv /\ TypeInv /\ HandlerInv /\ [Next]_vars => HandlerInv'
  BY HandlerStep
<1>5. HandlerInv /\ InInv => LiveInv
  BY DEF HandlerInv, InInv, ExInv, WireInv
<1>6. NoWrap /\ ListInv /\ TypeInv /\ LiveInv /\ InInv /\ HeardInv /\ [SystemNext]_systemVars
         => HeardInv'
  BY HeardStep DEF InInv, ExInv
<1>7. SystemInit => InInv
  BY InboundInit
<1>8. LiveInv /\ HeardInv => HandlersHeard
  BY HeardCovered
<1> QED
  BY <1>1, <1>2, <1>3, <1>4, <1>5, <1>6, <1>7, <1>8, ListInit, ListStep, TypeInit, TypeStep,
     HandlerInit, HeardInit, PTL DEF SystemSpec

-----------------------------------------------------------------------------
(* Messages of the application.  A message that mqtt_publish has sent      *)
(* leaves traces: sent are the PUBLISH packets on their way, live the      *)
(* publications the client will repeat or is about to record, gone those   *)
(* whose PUBREC has come.  rels, told and comps are the ids of the PUBREL  *)
(* packets on their way, of the PUBACK and PUBREC packets on their way     *)
(* back and of the records for PUBCOMP; held are the ids the broker keeps  *)
(* and idle the messages that were never sent.                             *)

Same(s, t) == s.id = t.id /\ s.qos = t.qos /\ s.body = t.body

Kept(sent, rels, told, held, comps, live, gone, idle, level, count) ==
    /\ \A t \in sent \cup live \cup gone :
          /\ t.body \in Msgs \ idle /\ t.qos \in 1..2 /\ level[t.body] = t.qos
          /\ t.id \in held \cup told => count[t.body] > 0
    /\ \A s, t \in sent \cup live \cup gone : s.id = t.id <=> s.body = t.body
    /\ \A t \in sent \cup live : t.qos = 2 /\ t.id \notin held => count[t.body] = 0
    /\ \A t \in live : t.qos = 2 => t.id \notin comps \cup rels
    /\ \A t \in gone : count[t.body] > 0
    /\ \A m \in idle : count[m] = 0

\* Traces are repeated or lost; a message that was not sent may be offered.
LEMMA KeptLess ==
    ASSUME NEW sent, NEW rels, NEW told, NEW held, NEW comps, NEW live, NEW gone, NEW idle,
           NEW level, NEW count, NEW sent2, NEW rels2, NEW told2, NEW comps2, NEW live2,
           NEW gone2, NEW idle2, NEW level2,
           Kept(sent, rels, told, held, comps, live, gone, idle, level, count),
           \A t \in sent2 : \E s \in sent \cup live : Same(s, t),
           \A t \in live2 : \E s \in live : Same(s, t),
           \A t \in gone2 : \E s \in gone : Same(s, t),
           rels2 \subseteq rels \cup comps, comps2 \subseteq comps, told2 \subseteq told,
           idle2 \subseteq idle, \A m \in Msgs \ idle : level2[m] = level[m]
    PROVE  Kept(sent2, rels2, told2, held, comps2, live2, gone2, idle2, level2, count)
<1>1. \A t \in sent2 \cup live2 \cup gone2 : \E s \in sent \cup live \cup gone : Same(s, t)
  OBVIOUS
<1>2. ASSUME NEW t \in sent2 \cup live2 \cup gone2
      PROVE  /\ t.body \in Msgs \ idle2 /\ t.qos \in 1..2 /\ level2[t.body] = t.qos
             /\ t.id \in held \cup told2 => count[t.body] > 0
  <2>1. PICK s \in sent \cup live \cup gone : Same(s, t)
    BY <1>1
  <2>2. /\ s.body \in Msgs \ idle /\ s.qos \in 1..2 /\ level[s.body] = s.qos
        /\ s.id \in held \cup told => count[s.body] > 0
    BY DEF Kept
  <2> QED
    BY <2>1, <2>2 DEF Same
<1>3. ASSUME NEW t1 \in sent2 \cup live2 \cup gone2, NEW t2 \in sent2 \cup live2 \cup gone2
      PROVE  t1.id = t2.id <=> t1.body = t2.body
  <2>1. PICK s1 \in sent \cup live \cup gone : Same(s1, t1)
    BY <1>1
  <2>2. PICK s2 \in sent \cup live \cup gone : Same(s2, t2)
    BY <1>1
  <2>3. s1.id = s2.id <=> s1.body = s2.body
    BY DEF Kept
  <2> QED
    BY <2>1, <2>2, <2>3 DEF Same
<1>4. ASSUME NEW t \in sent2 \cup live2, t.qos = 2, t.id \notin held PROVE count[t.body] = 0
  <2>1. PICK s \in sent \cup live : Same(s, t)
    OBVIOUS
  <2> QED
    BY <1>4, <2>1 DEF Same, Kept
<1>5. ASSUME NEW t \in live2, t.qos = 2 PROVE t.id \notin comps2 \cup rels2
  <2>1. PICK s \in live : Same(s, t)
    OBVIOUS
  <2>2. s.id \notin comps \cup rels
    BY <1>5, <2>1 DEF Same, Kept
  <2> QED
    BY <2>1, <2>2 DEF Same
<1>6. ASSUME NEW t \in gone2 PROVE count[t.body] > 0
  BY <1>6 DEF Same, Kept
<1>7. ASSUME NEW m \in idle2 PROVE count[m] = 0
  BY <1>7 DEF Kept
<1> QED
  BY <1>2, <1>3, <1>4, <1>5, <1>6, <1>7 DEF Kept

\* A message p that was not sent, with an id that no trace has.
Unused(p, sent, rels, told, held, comps, live, gone, idle, level) ==
    /\ p.body \in Msgs \cap idle /\ p.qos \in 1..2 /\ level[p.body] = p.qos
    /\ p.id \notin held \cup told \cup comps \cup rels
    /\ \A t \in sent \cup live \cup gone : t.id # p.id

\* mqtt_publish sends message p under an id that is free.
LEMMA KeptSend ==
    ASSUME NEW sent, NEW rels, NEW told, NEW held, NEW comps, NEW live, NEW gone, NEW idle,
           NEW level, NEW count, NEW sent2, NEW told2, NEW live2, NEW idle2, NEW p,
           Kept(sent, rels, told, held, comps, live, gone, idle, level, count),
           Unused(p, sent, rels, told, held, comps, live, gone, idle, level),
           told2 \subseteq told, sent2 \subseteq sent \cup {p}, live2 \subseteq live \cup {p},
           idle2 \subseteq idle \ {p.body}
    PROVE  Kept(sent2, rels, told2, held, comps, live2, gone, idle2, level, count)
<1> USE DEF Unused
<1>1. \A t \in sent2 \cup live2 \cup gone : t = p \/ t \in sent \cup live \cup gone
  OBVIOUS
<1>2. \A t \in sent \cup live \cup gone : t.body # p.body
  BY DEF Kept
<1>3. ASSUME NEW t \in sent2 \cup live2 \cup gone
      PROVE  /\ t.body \in Msgs \ idle2 /\ t.qos \in 1..2 /\ level[t.body] = t.qos
             /\ t.id \in held \cup told2 => count[t.body] > 0
  BY <1>1 DEF Kept
<1>4. ASSUME NEW t1 \in sent2 \cup live2 \cup gone, NEW t2 \in sent2 \cup live2 \cup gone
      PROVE  t1.id = t2.id <=> t1.body = t2.body
  BY <1>1, <1>2 DEF Kept
<1>5. ASSUME NEW t \in sent2 \cup live2, t.qos = 2, t.id \notin held PROVE count[t.body] = 0
  BY <1>5 DEF Kept
<1>6. ASSUME NEW t \in live2, t.qos = 2 PROVE t.id \notin comps \cup rels
  BY <1>6 DEF Kept
<1>7. ASSUME NEW t \in gone PROVE count[t.body] > 0
  BY <1>7 DEF Kept
<1>8. ASSUME NEW m \in idle2 PROVE count[m] = 0
  BY <1>8 DEF Kept
<1> QED
  BY <1>3, <1>4, <1>5, <1>6, <1>7, <1>8 DEF Kept

\* PUBREC arrives: the publication with its id is released, PUBREL recorded
\* and perhaps sent.
LEMMA KeptRelease ==
    ASSUME NEW sent, NEW rels, NEW told, NEW held, NEW comps, NEW live, NEW gone, NEW idle,
           NEW level, NEW count, NEW rels2, NEW told2, NEW comps2, NEW live2, NEW gone2, NEW id,
           Kept(sent, rels, told, held, comps, live, gone, idle, level, count), id \in told,
           \A t \in live2 : t \in live /\ ~(t.id = id /\ t.qos = 2),
           \A t \in gone2 : t \in gone \/ (t \in live /\ t.id = id),
           rels2 \subseteq rels \cup {id}, comps2 \subseteq comps \cup {id}, told2 \subseteq told
    PROVE  Kept(sent, rels2, told2, held, comps2, live2, gone2, idle, level, count)
<1>1. \A t \in sent \cup live2 \cup gone2 : t \in sent \cup live \cup gone
  OBVIOUS
<1>2. ASSUME NEW t \in sent \cup live2 \cup gone2
      PROVE  /\ t.body \in Msgs \ idle /\ t.qos \in 1..2 /\ level[t.body] = t.qos
             /\ t.id \in held \cup told2 => count[t.body] > 0
  BY <1>1 DEF Kept
<1>3. ASSUME NEW t1 \in sent \cup live2 \cup gone2, NEW t2 \in sent \cup live2 \cup gone2
      PROVE  t1.id = t2.id <=> t1.body = t2.body
  BY <1>1 DEF Kept
<1>4. ASSUME NEW t \in sent \cup live2, t.qos = 2, t.id \notin held PROVE count[t.body] = 0
  BY <1>4 DEF Kept
<1>5. ASSUME NEW t \in live2, t.qos = 2 PROVE t.id \notin comps2 \cup rels2
  BY <1>5 DEF Kept
<1>6. ASSUME NEW t \in gone2 PROVE count[t.body] > 0
  BY <1>6 DEF Kept
<1>7. ASSUME NEW m \in idle PROVE count[m] = 0
  BY <1>7 DEF Kept
<1> QED
  BY <1>2, <1>3, <1>4, <1>5, <1>6, <1>7 DEF Kept

\* The broker takes PUBLISH p and answers; at QoS 2 it keeps the id.
LEMMA KeptDeliver ==
    ASSUME NEW sent, NEW rels, NEW told, NEW held, NEW comps, NEW live, NEW gone, NEW idle,
           NEW level, NEW count, NEW sent2, NEW rels2, NEW told2, NEW held2, NEW count2, NEW p \in sent,
           Kept(sent, rels, told, held, comps, live, gone, idle, level, count),
           sent2 \subseteq sent, rels2 \subseteq rels, told2 \subseteq told \cup {p.id},
           count2[p.body] > 0, \A m \in Msgs \cup idle : m # p.body => count2[m] = count[m],
           held \subseteq held2, held2 \subseteq held \cup {p.id}, p.qos = 2 => p.id \in held2
    PROVE  Kept(sent2, rels2, told2, held2, comps, live, gone, idle, level, count2)
<1>0. p.body \in Msgs \ idle /\ p.qos \in 1..2 /\ level[p.body] = p.qos
  BY DEF Kept
<1>1. \A t \in sent2 \cup live \cup gone : t \in sent \cup live \cup gone
  OBVIOUS
<1>2. \A t \in sent \cup live \cup gone : t.body \in Msgs /\ (t.id = p.id <=> t.body = p.body)
  BY DEF Kept
<1>3. ASSUME NEW t \in sent2 \cup live \cup gone
      PROVE  /\ t.body \in Msgs \ idle /\ t.qos \in 1..2 /\ level[t.body] = t.qos
             /\ t.id \in held2 \cup told2 => count2[t.body] > 0
  <2>1. /\ t.body \in Msgs \ idle /\ t.qos \in 1..2 /\ level[t.body] = t.qos
        /\ t.id \in held \cup told => count[t.body] > 0
    BY <1>1 DEF Kept
  <2> QED
    BY <1>1, <1>2, <2>1
<1>4. ASSUME NEW t1 \in sent2 \cup live \cup gone, NEW t2 \in sent2 \cup live \cup gone
      PROVE  t1.id = t2.id <=> t1.body = t2.body
  BY <1>1 DEF Kept
<1>5. ASSUME NEW t \in sent2 \cup live, t.qos = 2, t.id \notin held2 PROVE count2[t.body] = 0
  <2>1. t.id # p.id
    <3>1. CASE p.qos = 2
      BY <1>5, <3>1
    <3>2. CASE p.qos # 2
      <4>1. level[t.body] = 2
        BY <1>3, <1>5
      <4> QED
        BY <1>0, <1>1, <1>2, <3>2, <4>1
    <3> QED
      BY <3>1, <3>2
  <2>2. t.body # p.body /\ t.body \in Msgs
    BY <1>1, <1>2, <2>1
  <2>3. count[t.body] = 0
    BY <1>5 DEF Kept
  <2> QED
    BY <2>2, <2>3
<1>6. ASSUME NEW t \in live, t.qos = 2 PROVE t.id \notin comps \cup rels2
  BY <1>6 DEF Kept
<1>7. ASSUME NEW t \in gone PROVE count2[t.body] > 0
  <2>1. count[t.body] > 0 /\ t.body \in Msgs
    BY <1>2 DEF Kept
  <2> QED
    BY <2>1
<1>8. ASSUME NEW m \in idle PROVE count2[m] = 0
  <2>1. count[m] = 0 /\ m # p.body
    BY <1>0 DEF Kept
  <2> QED
    BY <2>1
<1> QED
  BY <1>3, <1>4, <1>5, <1>6, <1>7, <1>8 DEF Kept

\* The broker takes a PUBREL and forgets the id.
LEMMA KeptForget ==
    ASSUME NEW sent, NEW rels, NEW told, NEW held, NEW comps, NEW live, NEW gone, NEW idle,
           NEW level, NEW count, NEW sent2, NEW rels2, NEW id \in rels,
           Kept(sent, rels, told, held, comps, live, gone, idle, level, count),
           sent2 \subseteq sent, rels2 \subseteq rels, \A t \in sent2 : t.qos = 2 => t.id # id
    PROVE  Kept(sent2, rels2, told, held \ {id}, comps, live, gone, idle, level, count)
<1>1. \A t \in sent2 \cup live \cup gone : t \in sent \cup live \cup gone
  OBVIOUS
<1>3. ASSUME NEW t \in sent2 \cup live \cup gone
      PROVE  /\ t.body \in Msgs \ idle /\ t.qos \in 1..2 /\ level[t.body] = t.qos
             /\ t.id \in (held \ {id}) \cup told => count[t.body] > 0
  BY <1>1 DEF Kept
<1>4. ASSUME NEW t1 \in sent2 \cup live \cup gone, NEW t2 \in sent2 \cup live \cup gone
      PROVE  t1.id = t2.id <=> t1.body = t2.body
  BY <1>1 DEF Kept
<1>5. ASSUME NEW t \in sent2 \cup live, t.qos = 2, t.id \notin held \ {id} PROVE count[t.body] = 0
  <2>1. t.id # id
    BY <1>5 DEF Kept
  <2> QED
    BY <1>5, <2>1 DEF Kept
<1>6. ASSUME NEW t \in live, t.qos = 2 PROVE t.id \notin comps \cup rels2
  BY <1>6 DEF Kept
<1>7. (\A t \in gone : count[t.body] > 0) /\ \A m \in idle : count[m] = 0
  BY DEF Kept
<1> QED
  BY <1>3, <1>4, <1>5, <1>6, <1>7 DEF Kept

Named(q, kinds) == {p.id : p \in Of(q, kinds)}

\* The PUBREL of a message is behind its PUBLISH.
Behind(q) ==
    \A j, k \in 1..Len(q) :
        q[j].kind = "PUBREL" /\ q[k].kind = "PUBLISH" /\ q[k].qos = 2 /\ q[j].id = q[k].id => k < j

\* What is left of a queue keeps the order.
LEMMA BehindRest ==
    ASSUME NEW S, NEW q \in Seq(S), NEW r \in Rest(q), Behind(q)
    PROVE  Behind(r)
<1>1. CASE r = q \/ r = <<>>
  BY <1>1 DEF Behind
<1>2. CASE q # <<>> /\ r = Tail(q)
  <2>1. /\ Len(Tail(q)) = Len(q) - 1 /\ Len(q) \in Nat \ {0}
        /\ \A k \in 1..Len(Tail(q)) : k + 1 \in 1..Len(q) /\ Tail(q)[k] = q[k + 1]
    BY <1>2, TailPackets
  <2> QED
    BY <1>2, <2>1 DEF Behind
<1> QED
  BY <1>1, <1>2 DEF Rest

\* A PUBLISH is not sent behind the PUBREL of its id.
LEMMA BehindAppend ==
    ASSUME NEW S, NEW q \in Seq(S), NEW p, Behind(q),
           p.kind = "PUBLISH" /\ p.qos = 2 => p.id \notin Named(q, {"PUBREL"})
    PROVE  Behind(Append(q, p))
<1>0. PICK a : a = Append(q, p)
  OBVIOUS
<1>1. /\ Len(a) = Len(q) + 1 /\ Len(q) \in Nat
      /\ \A k \in 1..Len(q) : a[k] = q[k]
      /\ a[Len(q) + 1] = p
  BY <1>0
<1>2. \A k \in 1..Len(a) : k \in 1..Len(q) \/ k = Len(q) + 1
  BY <1>1
<1>3. \A k \in 1..Len(q) : k < Len(q) + 1
  BY <1>1
<1>4. \A k \in 1..Len(q) : q[k].kind = "PUBREL" => q[k].id \in Named(q, {"PUBREL"})
  BY DEF Named, Of
<1>5. SUFFICES ASSUME NEW j \in 1..Len(a), NEW k \in 1..Len(a), a[j].kind = "PUBREL",
                      a[k].kind = "PUBLISH", a[k].qos = 2, a[j].id = a[k].id
               PROVE  k < j
  BY <1>0 DEF Behind
<1>6. CASE k = Len(q) + 1
  <2>1. j \in 1..Len(q) /\ a[j] = q[j]
    BY <1>1, <1>2, <1>5, <1>6
  <2> QED
    BY <1>1, <1>4, <1>5, <1>6, <2>1
<1>7. CASE k \in 1..Len(q) /\ j = Len(q) + 1
  BY <1>3, <1>7
<1>8. CASE k \in 1..Len(q) /\ j \in 1..Len(q)
  BY <1>1, <1>5, <1>8 DEF Behind
<1> QED
  BY <1>2, <1>6, <1>7, <1>8

\* No PUBLISH with the id of the PUBREL at the head follows.
LEMMA BehindHead ==
    ASSUME NEW S, NEW q \in Seq(S), q # <<>>, Behind(q), Head(q).kind = "PUBREL"
    PROVE  \A t \in Of(Tail(q), {"PUBLISH"}) : t.qos = 2 => t.id # Head(q).id
<1>1. /\ Len(Tail(q)) = Len(q) - 1 /\ Len(q) \in Nat \ {0}
      /\ \A k \in 1..Len(Tail(q)) : k + 1 \in 1..Len(q) /\ Tail(q)[k] = q[k + 1]
      /\ Head(q) = q[1] /\ 1 \in 1..Len(q)
  BY TailPackets
<1> SUFFICES ASSUME NEW t \in Of(Tail(q), {"PUBLISH"}), t.qos = 2, t.id = Head(q).id PROVE FALSE
    OBVIOUS
<1>2. PICK k \in 1..Len(Tail(q)) : t = Tail(q)[k] /\ t.kind = "PUBLISH"
  BY DEF Of
<1>3. k + 1 \in 1..Len(q) /\ q[k + 1] = t /\ ~(k + 1 < 1)
  BY <1>1, <1>2
<1> QED
  BY <1>1, <1>2, <1>3 DEF Behind

\* The ids in what is left of a queue, and in one with a packet at its end.
LEMMA RestNamed ==
    ASSUME NEW S, NEW q \in Seq(S), NEW r \in Rest(q), NEW kinds
    PROVE  Named(r, kinds) \subseteq Named(q, kinds)
BY RestOf DEF Named

LEMMA AppendNamed ==
    ASSUME NEW S, NEW q \in Seq(S), NEW p, NEW kinds
    PROVE  /\ p.kind \in kinds => Named(Append(q, p), kinds) = Named(q, kinds) \cup {p.id}
           /\ p.kind \notin kinds => Named(Append(q, p), kinds) = Named(q, kinds)
<1>1. CASE p.kind \in kinds
  <2>1. Of(Append(q, p), kinds) = Of(q, kinds) \cup {p}
    BY <1>1, AppendOf
  <2> QED
    BY <1>1, <2>1 DEF Named
<1>2. CASE p.kind \notin kinds
  BY <1>2, AppendOf DEF Named
<1> QED
  BY <1>1, <1>2

LEMMA HeadNamed ==
    ASSUME NEW S, NEW q \in Seq(S), q # <<>>, NEW kinds, Head(q).kind \in kinds
    PROVE  Head(q) \in Of(q, kinds) /\ Head(q).id \in Named(q, kinds)
BY HeadOf DEF Named

-----------------------------------------------------------------------------
(* The traces of the messages in a state of the system.                    *)

Copy(f) == Publish(f.id, f.qos, 1, f.msg)

Live == {u[i].pkt : i \in {j \in Users : Publishing(j)}}
           \cup {Copy(f) : f \in {g \in inflight : ~g.released}}
Gone == {Copy(f) : f \in {g \in inflight : g.released}}

Comps == {r.id : r \in {s \in acks : s.type = "PUBCOMP"}}

Planning(i) == u[i].pc = "send" /\ u[i].pkt.kind = "PUBLISH"

Untried == {m \in Msgs : asked[m] = 0 \/ \E i \in Users : Planning(i) /\ u[i].pkt.body = m}

CallsInv ==
    /\ asked \in [Msgs -> 0..2] /\ got \in [Msgs -> 0..2] /\ accepted \subseteq Msgs \ Untried
    /\ \A i \in Users : Planning(i) => u[i].pkt.qos \in 1..2 /\ asked[u[i].pkt.body] = u[i].pkt.qos
    /\ \A i, j \in Users : Planning(i) /\ Planning(j) /\ u[i].pkt.body = u[j].pkt.body => i = j
    /\ \A i \in Users : Publishing(i) => u[i].pkt.body \notin accepted
    /\ \A f \in inflight : f.msg \in accepted
    /\ \A f, g \in inflight : f.id = g.id => f = g

Sent == Of(toBroker, {"PUBLISH"})
Rels == Named(toBroker, {"PUBREL"})
Told == Named(toClient, {"PUBACK", "PUBREC"})

OutInv ==
    /\ CallsInv /\ Behind(toBroker)
    /\ Kept(Sent, Rels, Told, bIds, Comps, Live, Gone, Untried, asked, got)

\* The next packet id is not in use.
IdFree ==
    /\ \A r \in acks : r.type \in {"PUBACK", "PUBREC", "PUBCOMP"} => r.id # mqtt_get_next_packet_id
    /\ mqtt_get_next_packet_id \notin bIds
    /\ mqtt_get_next_packet_id \notin Named(toBroker, {"PUBLISH", "PUBREL"})
    /\ mqtt_get_next_packet_id \notin Named(toClient, {"PUBACK", "PUBREC"})

\* The records of publications.
PubTypes == {"PUBACK", "PUBREC", "PUBCOMP"}

\* A step that neither sends nor confirms a message.
Mute ==
    /\ inflight' = inflight /\ \A r \in acks' \ acks : r.type \notin PubTypes
    /\ \A i \in Users : Planning(i)' => Planning(i) /\ u'[i] = u[i]
    /\ \A i \in Users : Publishing(i)' => Publishing(i) /\ u'[i] = u[i]

\* What it leaves as it is.
LEMMA MuteSets ==
    ASSUME CallsInv, Mute, UNCHANGED <<asked, got, accepted>>
    PROVE  CallsInv' /\ Live' \subseteq Live /\ Gone' = Gone /\ Untried' \subseteq Untried
<1>1. Live' \subseteq Live
  BY DEF Mute, Live, Copy
<1>2. Gone' = Gone
  BY DEF Mute, Gone, Copy
<1>3. Untried' \subseteq Untried
  BY DEF Mute, Untried
<1>4. CallsInv'
  BY <1>3 DEF Mute, CallsInv
<1> QED
  BY <1>1, <1>2, <1>3, <1>4

\* Such a step, when it repeats packets or when packets are lost.
LEMMA OutLess ==
    ASSUME OutInv, Mute, UNCHANGED <<asked, got, accepted, bIds>>, Behind(toBroker'),
           \A t \in Sent' : t \in Sent \/ \E s \in Live : Same(s, t),
           Rels' \subseteq Rels \cup Comps, Told' \subseteq Told
    PROVE  OutInv'
<1>1. CallsInv' /\ Live' \subseteq Live /\ Gone' = Gone /\ Untried' \subseteq Untried
  BY MuteSets DEF OutInv
<1>2. Kept(Sent, Rels, Told, bIds, Comps, Live, Gone, Untried, asked, got)
  BY DEF OutInv
<1>3. \A t : Same(t, t)
  BY DEF Same
<1>4. /\ \A t \in Sent' : \E s \in Sent \cup Live : Same(s, t)
      /\ \A t \in Live' : \E s \in Live : Same(s, t)
      /\ \A t \in Gone' : \E s \in Gone : Same(s, t)
  BY <1>1, <1>3
<1>5. Comps' \subseteq Comps /\ \A m \in Msgs \ Untried : asked'[m] = asked[m]
  BY DEF Mute, Comps, PubTypes
<1>6. Kept(Sent', Rels', Told', bIds, Comps', Live', Gone', Untried', asked', got)
  BY <1>1, <1>2, <1>4, <1>5, KeptLess
<1> QED
  BY <1>1, <1>6 DEF OutInv

\* Packets are lost, or others are added.
LEMMA OutQueues ==
    ASSUME WireInv, OutInv, Mute, UNCHANGED <<asked, got, accepted, bIds>>,
           \/ toBroker' \in Rest(toBroker)
           \/ \E p : p.kind \notin {"PUBLISH", "PUBREL"} /\ toBroker' = Append(toBroker, p),
           \/ toClient' \in Rest(toClient)
           \/ \E p : p.kind \notin {"PUBACK", "PUBREC"} /\ \E r \in Rest(toClient) : toClient' = Append(r, p)
    PROVE  OutInv'
<1>1. toBroker \in Seq(Outgoing) /\ toClient \in Seq(Incoming) /\ Behind(toBroker)
  BY DEF WireInv, OutInv
<1>2. Sent' \subseteq Sent /\ Rels' \subseteq Rels /\ Behind(toBroker')
  <2>1. CASE toBroker' \in Rest(toBroker)
    BY <1>1, <2>1, RestOf, RestNamed, BehindRest DEF Sent, Rels
  <2>2. ASSUME NEW p, p.kind \notin {"PUBLISH", "PUBREL"}, toBroker' = Append(toBroker, p)
        PROVE  Sent' \subseteq Sent /\ Rels' \subseteq Rels /\ Behind(toBroker')
    BY <1>1, <2>2, AppendOf, AppendNamed, BehindAppend DEF Sent, Rels
  <2> QED
    BY <2>1, <2>2
<1>3. Told' \subseteq Told
  <2>1. CASE toClient' \in Rest(toClient)
    BY <1>1, <2>1, RestNamed DEF Told
  <2>2. ASSUME NEW p, p.kind \notin {"PUBACK", "PUBREC"}, NEW r \in Rest(toClient),
               toClient' = Append(r, p)
        PROVE  Told' \subseteq Told
    <3>1. r \in Seq(Incoming)
      BY <1>1, RestPackets
    <3>2. Named(r, {"PUBACK", "PUBREC"}) \subseteq Told
      BY <1>1, RestNamed DEF Told
    <3>3. Named(Append(r, p), {"PUBACK", "PUBREC"}) = Named(r, {"PUBACK", "PUBREC"})
      BY <2>2, <3>1, AppendNamed
    <3> QED
      BY <2>2, <3>2, <3>3 DEF Told
  <2> QED
    BY <2>1, <2>2
<1> QED
  BY <1>2, <1>3, OutLess

\* What the client has recorded was accepted before.
LEMMA WireAccepted ==
    ASSUME CallsInv, NEW unread, Wire(unread), inflight' \subseteq inflight
    PROVE  accepted' = accepted
BY DEF CallsInv, Wire

\* A mute step of the client that sends no PUBLISH or PUBREL.
LEMMA OutWire ==
    ASSUME WireInv, OutInv, Mute, NEW unread \in Rest(toClient), Wire(unread),
           out' # NULL => out'.kind \notin {"PUBLISH", "PUBREL"}, UNCHANGED <<asked, got, bIds>>
    PROVE  OutInv' /\ accepted' = accepted
<1>1. accepted' = accepted
  BY WireAccepted DEF OutInv, Mute
<1>2. /\ toClient' \in Rest(toClient)
      /\ toBroker' = toBroker \/ (out' # NULL /\ toBroker' = Append(toBroker, out'))
  BY WireQueues
<1>3. toBroker \in Rest(toBroker)
  BY DEF Rest
<1>4. \/ toBroker' \in Rest(toBroker)
      \/ \E p : p.kind \notin {"PUBLISH", "PUBREL"} /\ toBroker' = Append(toBroker, p)
  BY <1>2, <1>3
<1> QED
  BY <1>1, <1>2, <1>4, OutQueues

-----------------------------------------------------------------------------
(* Which steps are mute.                                                   *)

\* Records come, but not for PUBCOMP, and publications stay.
LEMMA MuteRecords ==
    ASSUME \A r \in acks' \ acks : r.type \notin PubTypes, UNCHANGED <<inflight, u>>
    PROVE  Mute
BY DEF Mute, Planning, Publishing

\* A call that moves, but not one that publishes.
LEMMA MuteMove ==
    ASSUME TypeInv, NEW i \in Users, NEW c, u' = [u EXCEPT ![i] = c],
           c.pc \notin {"send", "record"} \/ c.pkt.kind # "PUBLISH",
           inflight' = inflight, \A r \in acks' \ acks : r.type \notin PubTypes
    PROVE  Mute
<1>1. u \in [Users -> Calls]
  BY DEF TypeInv, TypeOK
<1>2. u'[i] = c /\ \A j \in Users \ {i} : u'[j] = u[j]
  BY <1>1
<1> QED
  BY <1>2 DEF Mute, Planning, Publishing

\* The end of mqtt_subscribe adds no more than the record of its SUBACK.
LEMMA MuteSubscribe ==
    ASSUME NEW p, NEW h, SubscribeRecord(p, h)
    PROVE  \A r \in acks' \ acks : r.type \notin PubTypes
<1>1. PICK r : r = Ack("SUBACK", p.id, h, p)
  OBVIOUS
<1>2. r.type = "SUBACK"
  BY <1>1, AckFields
<1>3. acks' = acks \/ acks' = acks \cup {r}
  BY <1>1 DEF SubscribeRecord, AppendRecord, mqtt_ack_list_record, ackVars
<1> QED
  BY <1>2, <1>3 DEF PubTypes

\* The steps of a call that do not publish.
LEMMA MuteCall ==
    ASSUME TypeInv, NEW i \in Users,
           \/ mqtt_request_send(i) \/ mqtt_subscribe_record(i) \/ mqtt_unsubscribe_record(i)
           \/ mqtt_publish_release(i) \/ mqtt_publish_disconnected(i)
           \/ mqtt_connect(i) \/ mqtt_subscribe(i) \/ mqtt_unsubscribe(i)
    PROVE  Mute
<1>1. inflight' = inflight
  BY DEF mqtt_request_send, mqtt_subscribe_record, mqtt_unsubscribe_record, mqtt_publish_release,
     mqtt_publish_disconnected, mqtt_connect, mqtt_subscribe, mqtt_unsubscribe, CheckConnected, qosVars
<1>2. ASSUME NEW p, CheckConnected(i, p), p.kind # "PUBLISH" PROVE Mute
  <2>1. acks' = acks /\ u' = [u EXCEPT ![i] = At("send", p)]
    BY <1>2 DEF CheckConnected, ackVars
  <2>2. At("send", p).pkt.kind # "PUBLISH"
    BY <1>2 DEF At
  <2> QED
    BY <1>1, <2>1, <2>2, MuteMove
<1>3. CASE mqtt_subscribe(i) \/ mqtt_unsubscribe(i)
  <2>1. PICK t : \E kind \in {"SUBSCRIBE", "UNSUBSCRIBE"} : CheckConnected(i, Pkt(kind, 0, t))
    BY <1>3 DEF mqtt_subscribe, mqtt_unsubscribe
  <2>2. PICK kind \in {"SUBSCRIBE", "UNSUBSCRIBE"} : CheckConnected(i, Pkt(kind, 0, t))
    BY <2>1
  <2>3. Pkt(kind, 0, t).kind # "PUBLISH"
    BY PktFresh
  <2> QED
    BY <1>2, <2>2, <2>3
<1>4. CASE mqtt_connect(i)
  BY <1>1, <1>4, MuteRecords DEF mqtt_connect, ackVars
<1>5. CASE mqtt_publish_release(i) \/ mqtt_publish_disconnected(i)
  <2>1. /\ acks' = acks
        /\ u' = [u EXCEPT ![i] = At("released", u[i].pkt)] \/ u' = [u EXCEPT ![i] = Idle]
    BY <1>5 DEF mqtt_publish_release, mqtt_publish_disconnected, ackVars
  <2>2. At("released", u[i].pkt).pc = "released" /\ Idle.pc = "idle"
    BY DEF At, Idle
  <2> QED
    BY <1>1, <2>1, <2>2, MuteMove
<1>6. CASE mqtt_request_send(i)
  <2>1. PICK id : /\ acks' = acks /\ u[i].pkt.kind # "PUBLISH"
                  /\ \/ u' = [u EXCEPT ![i] = At("record", WithId(u[i].pkt, id))]
                     \/ u' = [u EXCEPT ![i] = Idle]
    BY <1>6 DEF mqtt_request_send, ackVars, WithId
  <2>2. At("record", WithId(u[i].pkt, id)).pkt.kind # "PUBLISH" /\ Idle.pc = "idle"
    BY <2>1 DEF At, Idle, WithId
  <2> QED
    BY <1>1, <2>1, <2>2, MuteMove
<1>7. CASE mqtt_subscribe_record(i) \/ mqtt_unsubscribe_record(i)
  <2>1. u' = [u EXCEPT ![i] = Idle] /\ Idle.pc = "idle"
    BY <1>7 DEF mqtt_subscribe_record, mqtt_unsubscribe_record, Idle, At
  <2>2. \A r \in acks' \ acks : r.type \notin PubTypes
    <3>1. CASE mqtt_subscribe_record(i)
      BY <3>1, MuteSubscribe DEF mqtt_subscribe_record
    <3>2. CASE mqtt_unsubscribe_record(i)
      <4>1. PICK r : (acks' = acks \/ acks' = acks \cup {r}) /\ r.type = "UNSUBACK"
        <5>1. CASE acks' = acks
          BY <5>1, AckFields
        <5>2. CASE \E h : AppendRecord(Ack("UNSUBACK", u[i].pkt.id, h, u[i].pkt))
          BY <5>2, AckFields DEF AppendRecord, mqtt_ack_list_record
        <5> QED
          BY <3>2, <5>1, <5>2 DEF mqtt_unsubscribe_record, ackVars
      <4> QED
        BY <4>1 DEF PubTypes
    <3> QED
      BY <1>7, <3>1, <3>2
  <2> QED
    BY <1>1, <2>1, <2>2, MuteMove
<1> QED
  BY <1>3, <1>4, <1>5, <1>6, <1>7

\* The steps of the yield thread that read no packet.
LEMMA MuteYield ==
    ASSUME \/ nothing_read \/ mqtt_deliver_message \/ mqtt_keep_alive \/ mqtt_keep_alive_drop
           \/ mqtt_ack_handler_resend \/ mqtt_ack_list_scan_destroy \/ mqtt_ack_list_scan_end
           \/ mqtt_try_reconnect \/ mqtt_reconnect_handshake \/ mqtt_reconnect_done
           \/ mqtt_try_resubscribe \/ mqtt_resubscribed
    PROVE  Mute
<1>1. UNCHANGED <<inflight, u>>
  BY DEF nothing_read, mqtt_deliver_message, mqtt_keep_alive, mqtt_keep_alive_drop, mqtt_ack_handler_resend,
     mqtt_ack_list_scan_destroy, mqtt_ack_list_scan_end, mqtt_try_reconnect,
     mqtt_reconnect_handshake, mqtt_reconnect_done, mqtt_try_resubscribe, mqtt_resubscribed, qosVars
<1>2. CASE mqtt_try_resubscribe
  <2>1. acks' = acks \/ \E p, h : SubscribeRecord(p, h)
    BY <1>2 DEF mqtt_try_resubscribe, ackVars
  <2> QED
    BY <1>1, <2>1, MuteSubscribe, MuteRecords
<1>3. CASE ~mqtt_try_resubscribe
  <2>1. acks' \subseteq acks
    BY <1>3 DEF nothing_read, mqtt_deliver_message, mqtt_keep_alive, mqtt_keep_alive_drop, mqtt_ack_handler_resend,
       mqtt_ack_list_scan_destroy, mqtt_ack_list_scan_end, mqtt_try_reconnect,
       mqtt_reconnect_handshake, mqtt_reconnect_done, mqtt_resubscribed, ackVars
  <2> QED
    BY <1>1, <2>1, MuteRecords
<1> QED
  BY <1>2, <1>3

\* The packets that are not about a message of the application.
LEMMA MutePacket ==
    ASSUME NEW p,
           \/ \E ok \in BOOLEAN : mqtt_pubrel_packet_handle(p.id, ok)
           \/ \E ok \in BOOLEAN : mqtt_publish_packet_handle(p.id, p.qos, ok)
           \/ mqtt_suback_packet_handle(p.id, p.body) \/ mqtt_unsuback_packet_handle(p.id)
           \/ pingresp_packet_handle
    PROVE  Mute /\ (out' # NULL => out'.kind \notin {"PUBLISH", "PUBREL"})
<1>1. UNCHANGED <<inflight, u>>
  BY DEF mqtt_pubrel_packet_handle, mqtt_publish_packet_handle, mqtt_suback_packet_handle,
     mqtt_unsuback_packet_handle, pingresp_packet_handle, qosVars
<1>2. \/ acks' \subseteq acks
      \/ \E q : acks' \subseteq acks \cup {Ack("PUBREL", p.id, NULL, q)}
  BY DEF mqtt_pubrel_packet_handle, mqtt_publish_packet_handle, mqtt_suback_packet_handle,
     mqtt_unsuback_packet_handle, pingresp_packet_handle, mqtt_ack_list_unrecord,
     mqtt_ack_list_record, ackVars
<1>3. \A r \in acks' \ acks : r.type \notin PubTypes
  BY <1>2, AckFields DEF PubTypes
<1>4. out' \in {NULL} \cup {Pkt(kind, p.id, NULL) : kind \in {"PUBACK", "PUBREC", "PUBCOMP"}}
  BY DEF mqtt_pubrel_packet_handle, mqtt_publish_packet_handle, mqtt_suback_packet_handle,
     mqtt_unsuback_packet_handle, pingresp_packet_handle, mqtt_send_packet
<1>5. out' # NULL => out'.kind \notin {"PUBLISH", "PUBREL"}
  BY <1>4, PktFresh
<1> QED
  BY <1>1, <1>3, <1>5, MuteRecords

-----------------------------------------------------------------------------
(* The steps of the system, seen from Delivery.                            *)

Steady == UNCHANGED <<asked, got, accepted, Confirmed>>

\* A mute step of the client, seen from Delivery.
LEMMA SteadyMute ==
    ASSUME inflight' = inflight, UNCHANGED <<asked, got, accepted>>
    PROVE  Steady
BY DEF Steady, Confirmed

\* A new connection of the same session.
LEMMA OutConnected ==
    ASSUME ~CleanSession, WireInv, OutInv, Mute, Connected
    PROVE  OutInv' /\ Steady
<1>1. /\ toBroker' = <<>> /\ toClient' = Resume /\ bIds' = bIds
      /\ UNCHANGED <<asked, got, accepted>>
  BY DEF Connected, callVars
<1>2. <<>> \in Rest(toClient) /\ toBroker' \in Rest(toBroker)
  BY <1>1 DEF Rest
<1>3. \/ Resume = <<>>
      \/ \E p : p.kind \notin {"PUBACK", "PUBREC"} /\ Resume = Append(<<>>, p)
  <2>1. CASE bPhase = "idle"
    BY <2>1 DEF Resume
  <2>2. CASE bPhase = "ack"
    <3>1. PICK p : p = Publish(BrokerId, bQos[Len(bQos)], 1, Len(bQos))
      OBVIOUS
    <3>2. Resume = <<p>> /\ <<p>> = Append(<<>>, p)
      BY <2>2, <3>1 DEF Resume
    <3>3. p.kind = "PUBLISH"
      BY <3>1 DEF Publish
    <3> QED
      BY <3>2, <3>3
  <2>3. CASE bPhase = "release"
    <3>1. PICK p : p = Pkt("PUBREL", BrokerId, NULL)
      OBVIOUS
    <3>2. Resume = <<p>> /\ <<p>> = Append(<<>>, p)
      BY <2>3, <3>1 DEF Resume
    <3>3. p.kind = "PUBREL"
      BY <3>1, PktFresh
    <3> QED
      BY <3>2, <3>3
  <2> QED
    BY <2>1, <2>2, <2>3 DEF WireInv
<1>4. \/ toClient' \in Rest(toClient)
      \/ \E p : p.kind \notin {"PUBACK", "PUBREC"} /\ \E r \in Rest(toClient) : toClient' = Append(r, p)
  BY <1>1, <1>2, <1>3
<1>5. OutInv'
  BY <1>1, <1>2, <1>4, OutQueues
<1> QED
  BY <1>1, <1>5, SteadyMute DEF Mute

\* The application calls mqtt_publish.
LEMMA OutAsk ==
    ASSUME 0 \notin PubQos, TypeInv, OutInv, NEW i \in Users, Ask(i)
    PROVE  OutInv' /\ \E m \in Msgs : Out!Offer(m)
<1>1. PICK m \in Msgs : \E q \in PubQos : CheckConnected(i, Publish(0, q, 0, m))
  BY DEF Ask, mqtt_publish
<1>2. PICK q \in PubQos : CheckConnected(i, Publish(0, q, 0, m))
  BY <1>1
<1>3. PICK p : p = Publish(0, q, 0, m)
  OBVIOUS
<1>4. p.kind = "PUBLISH" /\ p.qos = q /\ p.body = m
  BY <1>3 DEF Publish
<1>5. PICK c : c = At("send", p)
  OBVIOUS
<1>6. c.pc = "send" /\ c.pkt = p
  BY <1>5 DEF At
<1>7. /\ u[i].pc = "idle" /\ u' = [u EXCEPT ![i] = c] /\ inflight' = inflight /\ acks' = acks
  BY <1>2, <1>3, <1>5 DEF CheckConnected, ackVars, qosVars
<1>8. u \in [Users -> Calls] /\ \A j \in Users : CallOK(u[j])
  BY DEF TypeInv, CallShape
<1>9. u'[i] = c /\ \A j \in Users \ {i} : u'[j] = u[j]
  BY <1>7, <1>8
<1>10. /\ asked[m] = 0 /\ asked' = [asked EXCEPT ![m] = q]
       /\ UNCHANGED <<toBroker, toClient, bIds, got, accepted>>
  BY <1>4, <1>6, <1>9 DEF Ask, wireVars, brokerVars
<1>11. asked \in [Msgs -> 0..2] /\ q \in 1..2
  BY QosAssumption DEF OutInv, CallsInv
<1>12. asked'[m] = q /\ asked' \in [Msgs -> 0..2] /\ \A x \in Msgs \ {m} : asked'[x] = asked[x]
  BY <1>10, <1>11
<1>13. ~Planning(i) /\ ~Publishing(i)
  BY <1>7 DEF Planning, Publishing
<1>14. /\ Planning(i)' /\ ~Publishing(i)' /\ u'[i].pkt.body = m /\ u'[i].pkt.qos = q
       /\ \A j \in Users \ {i} : (Planning(j)' <=> Planning(j)) /\ (Publishing(j)' <=> Publishing(j))
  BY <1>4, <1>6, <1>9 DEF Planning, Publishing
<1>15. \A j \in Users : Planning(j) =>
          /\ u[j].pkt.body \in Msgs \ {m} /\ u[j].pkt.qos \in 1..2
          /\ asked[u[j].pkt.body] = u[j].pkt.qos
  BY <1>8, <1>10 DEF CallOK, Planning, OutInv, CallsInv
<1>16. Untried' = Untried
  <2>1. m \in Untried /\ m \in Untried'
    BY <1>10, <1>14 DEF Untried
  <2>2. ASSUME NEW x \in Msgs \ {m} PROVE x \in Untried <=> x \in Untried'
    BY <1>9, <1>12, <1>13, <1>14, <2>2 DEF Untried
  <2>3. Untried \subseteq Msgs /\ Untried' \subseteq Msgs
    BY DEF Untried
  <2> QED
    BY <2>1, <2>2, <2>3
<1>17. Live' = Live /\ Gone' = Gone /\ Comps' = Comps /\ Sent' = Sent /\ Rels' = Rels /\ Told' = Told
  <2>1. Live' = Live
    BY <1>7, <1>9, <1>13, <1>14 DEF Live, Copy
  <2> QED
    BY <1>7, <1>10, <2>1 DEF Gone, Copy, Comps, Sent, Rels, Told
<1>18. CallsInv'
  <2>1. \A j \in Users : Planning(j)' => u'[j].pkt.qos \in 1..2 /\ asked'[u'[j].pkt.body] = u'[j].pkt.qos
    BY <1>9, <1>11, <1>12, <1>14, <1>15
  <2>2. \A j, k \in Users : Planning(j)' /\ Planning(k)' /\ u'[j].pkt.body = u'[k].pkt.body => j = k
    BY <1>9, <1>14, <1>15 DEF OutInv, CallsInv
  <2>3. \A j \in Users : Publishing(j)' => u'[j].pkt.body \notin accepted'
    BY <1>9, <1>10, <1>14 DEF OutInv, CallsInv
  <2>4. /\ got' \in [Msgs -> 0..2] /\ accepted' \subseteq Msgs \ Untried'
        /\ \A f \in inflight' : f.msg \in accepted'
        /\ \A f, g \in inflight' : f.id = g.id => f = g
    BY <1>7, <1>10, <1>16 DEF OutInv, CallsInv
  <2> QED
    BY <1>12, <2>1, <2>2, <2>3, <2>4 DEF CallsInv
<1>19. Kept(Sent, Rels, Told, bIds, Comps, Live, Gone, Untried, asked', got)
  <2>1. \A t : Same(t, t)
    BY DEF Same
  <2>2. \A x \in Msgs \ Untried : asked'[x] = asked[x]
    BY <1>10, <1>12 DEF Untried
  <2>3. Kept(Sent, Rels, Told, bIds, Comps, Live, Gone, Untried, asked, got)
    BY DEF OutInv
  <2>4. /\ \A t \in Sent : \E s \in Sent \cup Live : Same(s, t)
        /\ \A t \in Live : \E s \in Live : Same(s, t)
        /\ \A t \in Gone : \E s \in Gone : Same(s, t)
    BY <2>1
  <2> QED
    BY <2>2, <2>3, <2>4, KeptLess
<1>20. OutInv'
  BY <1>10, <1>16, <1>17, <1>18, <1>19 DEF OutInv
<1>21. Confirmed' = Confirmed
  BY <1>7, <1>10 DEF Confirmed
<1>22. Out!Offer(m)
  BY <1>10, <1>11, <1>21 DEF Out!Offer
<1> QED
  BY <1>20, <1>22

\* The ids of the publications the client holds are those of their records.
LEMMA FlowIds ==
    ASSUME TypeInv, TrackInv, IdFree, WriteLockFree
    PROVE  \A t \in Live \cup Gone : t.id # mqtt_get_next_packet_id
<1>1. ASSUME NEW f \in inflight PROVE f.id # mqtt_get_next_packet_id
  <2>1. TrackRecord(f) \in acks
    BY DEF TrackInv
  <2>2. TrackRecord(f).id = f.id /\ TrackRecord(f).type \in {"PUBACK", "PUBREC", "PUBCOMP"}
    BY TrackFields
  <2> QED
    BY <2>1, <2>2 DEF IdFree
<1>2. \A f : Copy(f).id = f.id
  BY DEF Copy, Publish
<1>3. \A j \in Users : ~Publishing(j)
  BY DEF WriteLockFree, Publishing
<1> QED
  BY <1>1, <1>2, <1>3 DEF Live, Gone

\* mqtt_publish sends a message under a free id, or fails to.
LEMMA OutSend ==
    ASSUME TypeInv, TrackInv, IdFree, WireInv, OutInv, NEW i \in Users, mqtt_publish_send(i),
           Wire(toClient), UNCHANGED <<asked, got, bIds>>
    PROVE  OutInv' /\ Steady
<1>0. PICK p : p = u[i].pkt
  OBVIOUS
<1>1. PICK id : id = mqtt_get_next_packet_id
  OBVIOUS
<1>2. PICK s : s = WithId(p, id)
  OBVIOUS
<1>3. Planning(i) /\ WriteLockFree /\ p.kind = "PUBLISH"
  BY <1>0 DEF mqtt_publish_send, Planning
<1>4. u \in [Users -> Calls] /\ p.body \in Msgs /\ p.qos \in 1..2 /\ asked[p.body] = p.qos
  BY <1>0, <1>3 DEF TypeInv, CallShape, CallOK, OutInv, CallsInv
<1>5. s.kind = "PUBLISH" /\ s.id = id /\ s.qos = p.qos /\ s.body = p.body
  BY <1>2, <1>3 DEF WithId
<1>6. inflight' = inflight /\ acks' = acks
  BY DEF mqtt_publish_send, ackVars
<1>7. \/ u' = [u EXCEPT ![i] = At("failed", p)] /\ out' = NULL
      \/ u' = [u EXCEPT ![i] = Idle] /\ out' = NULL
      \/ u' = [u EXCEPT ![i] = At("record", s)] /\ out' \in {NULL, s}
  <2>1. p.qos # 0
    BY <1>4
  <2>2. \/ u' = [u EXCEPT ![i] = At("failed", p)] /\ out' = NULL
        \/ \E ok \in BOOLEAN :
              /\ mqtt_send_packet(s, ok)
              /\ u' = [u EXCEPT ![i] = IF ok THEN At("record", s) ELSE Idle]
    BY <1>0, <1>1, <1>2, <2>1 DEF mqtt_publish_send
  <2> QED
    BY <2>2 DEF mqtt_send_packet
<1>8. ASSUME NEW c, u' = [u EXCEPT ![i] = c], c.pc \in {"failed", "idle"}, out' = NULL
      PROVE  OutInv' /\ Steady
  <2>1. Mute
    BY <1>6, <1>8, MuteMove
  <2>2. toClient \in Rest(toClient)
    BY DEF Rest
  <2>3. OutInv' /\ accepted' = accepted
    BY <1>8, <2>1, <2>2, OutWire
  <2> QED
    BY <1>6, <2>3, SteadyMute
<1>9. CASE u' = [u EXCEPT ![i] = At("record", s)] /\ out' \in {NULL, s}
  <2>1. PICK c : c = At("record", s)
    OBVIOUS
  <2>2. c.pc = "record" /\ c.pkt = s
    BY <2>1 DEF At
  <2>3. u'[i] = c /\ \A j \in Users \ {i} : u'[j] = u[j]
    BY <1>4, <1>9, <2>1
  <2>4. \A j \in Users : ~Publishing(j)
    BY <1>3 DEF WriteLockFree, Publishing
  <2>5. /\ ~Planning(i)' /\ Publishing(i)' /\ u'[i].pkt = s
        /\ \A j \in Users \ {i} : (Planning(j)' <=> Planning(j)) /\ ~Publishing(j)'
    BY <1>5, <2>2, <2>3, <2>4 DEF Planning, Publishing
  <2>6. accepted' = accepted
    BY <1>6, WireAccepted DEF OutInv
  <2>7. Untried' \subseteq Untried \ {p.body} /\ p.body \in Untried
    <3>1. p.body \in Untried
      BY <1>0, <1>3, <1>4 DEF Untried
    <3>2. \A j \in Users \ {i} : Planning(j) => u[j].pkt.body # p.body
      BY <1>0, <1>3 DEF OutInv, CallsInv
    <3>3. ASSUME NEW x \in Untried' PROVE x \in Untried /\ x # p.body
      <4>1. x \in Msgs /\ (asked[x] = 0 \/ \E j \in Users : Planning(j)' /\ u'[j].pkt.body = x)
        BY <3>3 DEF Untried
      <4>2. CASE asked[x] = 0
        BY <1>4, <4>1, <4>2 DEF Untried
      <4>3. ASSUME NEW j \in Users, Planning(j)', u'[j].pkt.body = x
            PROVE  x \in Untried /\ x # p.body
        <5>1. j # i /\ Planning(j) /\ u[j].pkt.body = x
          BY <2>3, <2>5, <4>3
        <5> QED
          BY <3>2, <4>1, <5>1 DEF Untried
      <4> QED
        BY <4>1, <4>2, <4>3
    <3> QED
      BY <3>1, <3>3
  <2>8. CallsInv'
    <3>1. \A j \in Users : Planning(j)' => u'[j].pkt.qos \in 1..2 /\ asked'[u'[j].pkt.body] = u'[j].pkt.qos
      BY <2>3, <2>5 DEF OutInv, CallsInv
    <3>2. \A j, k \in Users : Planning(j)' /\ Planning(k)' /\ u'[j].pkt.body = u'[k].pkt.body => j = k
      BY <2>3, <2>5 DEF OutInv, CallsInv
    <3>3. \A j \in Users : Publishing(j)' => u'[j].pkt.body \notin accepted'
      BY <1>5, <2>5, <2>6, <2>7 DEF OutInv, CallsInv
    <3>4. /\ asked' \in [Msgs -> 0..2] /\ got' \in [Msgs -> 0..2] /\ accepted' \subseteq Msgs \ Untried'
          /\ \A f \in inflight' : f.msg \in accepted'
          /\ \A f, g \in inflight' : f.id = g.id => f = g
      BY <1>6, <2>6, <2>7 DEF OutInv, CallsInv
    <3> QED
      BY <3>1, <3>2, <3>3, <3>4 DEF CallsInv
  <2>9. Live' \subseteq Live \cup {s} /\ Gone' = Gone /\ Comps' = Comps
    <3>1. Live' \subseteq Live \cup {s}
      BY <1>6, <2>5 DEF Live, Copy
    <3> QED
      BY <1>6, <3>1 DEF Gone, Copy, Comps
  <2>10. /\ toBroker \in Seq(Outgoing) /\ toClient \in Seq(Incoming) /\ toClient \in Rest(toClient)
         /\ Behind(toBroker)
    BY DEF WireInv, Rest, OutInv
  <2>11. id \notin bIds \cup Told \cup Comps \cup Rels /\ \A t \in Sent : t.id # id
    <3>1. id \notin bIds /\ id \notin Told /\ id \notin Named(toBroker, {"PUBLISH", "PUBREL"})
      BY <1>1 DEF IdFree, Told
    <3>2. id \notin Comps
      BY <1>1 DEF IdFree, Comps
    <3>3. /\ Of(toBroker, {"PUBLISH"}) \subseteq Of(toBroker, {"PUBLISH", "PUBREL"})
          /\ Of(toBroker, {"PUBREL"}) \subseteq Of(toBroker, {"PUBLISH", "PUBREL"})
      BY DEF Of
    <3>4. id \notin Rels /\ \A t \in Sent : t.id # id
      BY <3>1, <3>3 DEF Rels, Sent, Named
    <3> QED
      BY <3>1, <3>2, <3>4
  <2>12. toClient' \in Rest(toClient) /\ (toBroker' = toBroker \/ toBroker' = Append(toBroker, s))
    BY <1>9, <2>10, WireQueues
  <2>13. Told' \subseteq Told
    BY <2>10, <2>12, RestNamed DEF Told
  <2>14. Sent' \subseteq Sent \cup {s} /\ Rels' = Rels /\ Behind(toBroker')
    <3>1. CASE toBroker' = toBroker
      BY <2>10, <3>1 DEF Sent, Rels
    <3>2. CASE toBroker' = Append(toBroker, s)
      <4>1. Sent' = Sent \cup {s}
        BY <1>5, <2>10, <3>2, AppendOf DEF Sent
      <4>2. Rels' = Rels
        BY <1>5, <2>10, <3>2, AppendNamed DEF Rels
      <4>3. s.id \notin Named(toBroker, {"PUBREL"})
        BY <1>5, <2>11 DEF Rels
      <4>4. Behind(toBroker')
        BY <2>10, <3>2, <4>3, BehindAppend
      <4> QED
        BY <4>1, <4>2, <4>4
    <3> QED
      BY <2>12, <3>1, <3>2
  <2>15. \A t \in Live \cup Gone : t.id # id
    BY <1>1, <1>3, FlowIds
  <2>16. Kept(Sent', Rels, Told', bIds, Comps, Live', Gone, Untried', asked, got)
    <3>1. s.body \in Msgs \cap Untried /\ s.qos \in 1..2 /\ asked[s.body] = s.qos
      BY <1>4, <1>5, <2>7
    <3>2. s.id \notin bIds \cup Told \cup Comps \cup Rels
      BY <1>5, <2>11
    <3>3. \A t \in Sent \cup Live \cup Gone : t.id # s.id
      BY <1>5, <2>11, <2>15
    <3>4. Unused(s, Sent, Rels, Told, bIds, Comps, Live, Gone, Untried, asked)
      BY <3>1, <3>2, <3>3 DEF Unused
    <3>5. Kept(Sent, Rels, Told, bIds, Comps, Live, Gone, Untried, asked, got)
      BY DEF OutInv
    <3>6. /\ Told' \subseteq Told /\ Sent' \subseteq Sent \cup {s} /\ Live' \subseteq Live \cup {s}
          /\ Untried' \subseteq Untried \ {s.body}
      BY <1>5, <2>7, <2>9, <2>13, <2>14
    <3> QED
      BY <3>4, <3>5, <3>6, KeptSend
  <2>17. OutInv'
    BY <2>8, <2>9, <2>14, <2>16 DEF OutInv
  <2> QED
    BY <1>6, <2>6, <2>17, SteadyMute
<1> QED
  <2>1. At("failed", p).pc = "failed" /\ Idle.pc = "idle"
    BY DEF At, Idle
  <2> QED
    BY <1>7, <1>8, <1>9, <2>1

\* The message is recorded, or the call fails.
LEMMA OutRecord ==
    ASSUME TypeInv, WindowInv, WireInv, OutInv, NEW i \in Users, mqtt_publish_record(i),
           Wire(toClient), UNCHANGED <<asked, got, bIds>>
    PROVE  OutInv' /\ (Steady \/ \E m \in Msgs : Out!Accept(m))
<1>0. PICK p : p = u[i].pkt
  OBVIOUS
<1>1. Publishing(i) /\ p \in Live /\ out' = NULL
  BY <1>0 DEF mqtt_publish_record, Publishing, Live
<1>2. u \in [Users -> Calls] /\ toClient \in Rest(toClient)
  BY DEF TypeInv, CallShape, Rest
<1>3. Kept(Sent, Rels, Told, bIds, Comps, Live, Gone, Untried, asked, got)
  BY DEF OutInv
<1>4. p.body \in Msgs \ Untried /\ p.qos \in 1..2 /\ asked[p.body] = p.qos
  BY <1>1, <1>3 DEF Kept
<1>5. p.body \notin accepted
  BY <1>0, <1>1 DEF OutInv, CallsInv
<1>6. CASE UNCHANGED <<acks, inflight>>
  <2>1. PICK c : u' = [u EXCEPT ![i] = c] /\ c.pc \in {"idle", "failed"}
    <3>1. At("failed", p).pc = "failed" /\ Idle.pc = "idle"
      BY DEF At, Idle
    <3> QED
      BY <1>0, <3>1 DEF mqtt_publish_record
  <2>2. Mute
    BY <1>6, <2>1, MuteMove
  <2>3. OutInv' /\ accepted' = accepted
    BY <1>1, <1>2, <2>2, OutWire
  <2> QED
    BY <1>6, <2>3, SteadyMute
<1>7. ASSUME NEW type \in {"PUBACK", "PUBREC"},
             AppendRecord(Ack(type, p.id, NULL, WithDup(p))),
             inflight' = inflight \cup {Flow(p)}, u' = [u EXCEPT ![i] = Idle]
      PROVE  OutInv' /\ \E m \in Msgs : Out!Accept(m)
  <2>1. PICK f : f = Flow(p)
    OBVIOUS
  <2>2. f.id = p.id /\ f.qos = p.qos /\ f.msg = p.body /\ ~f.released
    BY <2>1 DEF Flow
  <2>3. u'[i] = Idle /\ Idle.pc = "idle" /\ \A j \in Users \ {i} : u'[j] = u[j]
    BY <1>2, <1>7 DEF Idle, At
  <2>4. \A j \in Users \ {i} : ~Publishing(j)
    BY <1>1 DEF WindowInv, Publishing
  <2>5. \A j \in Users : ~Publishing(j)' /\ (Planning(j)' <=> Planning(j) /\ j # i) /\ ~Planning(i)
    BY <1>1, <2>3, <2>4 DEF Planning, Publishing
  <2>6. Untried' = Untried
    <3>1. \A j \in Users : Planning(j)' <=> Planning(j)
      BY <2>5
    <3>2. \A j \in Users : Planning(j) => u'[j] = u[j]
      BY <2>3, <2>5
    <3> QED
      BY <3>1, <3>2 DEF Untried
  <2>7. accepted' = accepted \cup {p.body}
    <3>1. accepted' = accepted \cup {g.msg : g \in inflight'}
      BY DEF Wire
    <3>2. \A g \in inflight : g.msg \in accepted
      BY DEF OutInv, CallsInv
    <3>3. inflight' = inflight \cup {f}
      BY <1>7, <2>1
    <3> QED
      BY <2>2, <3>1, <3>2, <3>3
  <2>8. Comps' \subseteq Comps
    <3>1. PICK r : r = Ack(type, p.id, NULL, WithDup(p))
      OBVIOUS
    <3>2. r.type # "PUBCOMP"
      BY <3>1, AckFields
    <3>3. acks' = acks \cup {r}
      BY <1>7, <3>1 DEF AppendRecord, mqtt_ack_list_record
    <3> QED
      BY <3>2, <3>3 DEF Comps
  <2>9. \A g : Copy(g).id = g.id /\ Copy(g).qos = g.qos /\ Copy(g).body = g.msg
    BY DEF Copy, Publish
  <2>10. \A g \in inflight : g.id # p.id /\ g.msg # p.body
    <3>1. ASSUME NEW g \in inflight PROVE Copy(g) \in Live \cup Gone
      BY DEF Live, Gone
    <3>2. \A g \in inflight : Copy(g).id = p.id <=> Copy(g).body = p.body
      BY <1>1, <1>3, <3>1 DEF Kept
    <3>3. \A g \in inflight : g.msg # p.body
      BY <1>5 DEF OutInv, CallsInv
    <3> QED
      BY <2>9, <3>2, <3>3
  <2>11. CallsInv'
    <3>1. \A j \in Users : Planning(j)' => u'[j].pkt.qos \in 1..2 /\ asked'[u'[j].pkt.body] = u'[j].pkt.qos
      BY <2>3, <2>5 DEF OutInv, CallsInv
    <3>2. \A j, k \in Users : Planning(j)' /\ Planning(k)' /\ u'[j].pkt.body = u'[k].pkt.body => j = k
      BY <2>3, <2>5 DEF OutInv, CallsInv
    <3>3. /\ asked' \in [Msgs -> 0..2] /\ got' \in [Msgs -> 0..2] /\ accepted' \subseteq Msgs \ Untried'
      BY <1>4, <2>6, <2>7 DEF OutInv, CallsInv
    <3>4. \A g \in inflight' : g \in inflight \/ g = f
      BY <1>7, <2>1
    <3>5. \A g \in inflight' : g.msg \in accepted'
      BY <2>2, <2>7, <3>4 DEF OutInv, CallsInv
    <3>6. \A g, h \in inflight' : g.id = h.id => g = h
      BY <2>2, <2>10, <3>4 DEF OutInv, CallsInv
    <3> QED
      BY <2>5, <3>1, <3>2, <3>3, <3>5, <3>6 DEF CallsInv
  <2>12. \A t : Same(t, t)
    BY DEF Same
  <2>13. \A t \in Live' : \E s \in Live : Same(s, t)
    <3>1. SUFFICES ASSUME NEW t \in Live' PROVE \E s \in Live : Same(s, t)
      OBVIOUS
    <3>2. PICK g \in inflight' : ~g.released /\ t = Copy(g)
      BY <2>5, <3>1 DEF Live, Copy
    <3>3. CASE g \in inflight
      BY <2>12, <3>2, <3>3 DEF Live
    <3>4. CASE g = f
      BY <1>1, <2>2, <2>9, <3>2, <3>4 DEF Same
    <3> QED
      BY <1>7, <2>1, <3>2, <3>3, <3>4
  <2>14. \A t \in Gone' : t \in Gone
    BY <1>7, <2>1, <2>2 DEF Gone, Copy
  <2>15. toBroker' = toBroker /\ toClient' \in Rest(toClient)
    BY <1>1, <1>2, WireQueues
  <2>16. Sent' = Sent /\ Rels' = Rels /\ Told' \subseteq Told /\ Behind(toBroker')
    <3>1. toClient \in Seq(Incoming) /\ Behind(toBroker)
      BY DEF WireInv, OutInv
    <3> QED
      BY <2>15, <3>1, RestNamed DEF Sent, Rels, Told
  <2>17. Kept(Sent, Rels, Told', bIds, Comps', Live', Gone', Untried, asked, got)
    <3>1. /\ \A t \in Sent : \E s \in Sent \cup Live : Same(s, t)
          /\ \A t \in Gone' : \E s \in Gone : Same(s, t)
      BY <2>12, <2>14
    <3> QED
      BY <1>3, <2>8, <2>13, <2>16, <3>1, KeptLess
  <2>18. OutInv'
    BY <2>6, <2>11, <2>16, <2>17 DEF OutInv
  <2>19. Confirmed' = Confirmed
    <3>1. inflight' = inflight \cup {f}
      BY <1>7, <2>1
    <3> QED
      BY <1>5, <2>2, <2>7, <2>10, <3>1 DEF Confirmed
  <2>20. Out!Accept(p.body)
    BY <1>4, <1>5, <2>7, <2>19 DEF Out!Accept
  <2> QED
    BY <1>4, <2>18, <2>20
<1> QED
  <2>1. \/ UNCHANGED <<acks, inflight>>
        \/ /\ AppendRecord(Ack(IF p.qos = 1 THEN "PUBACK" ELSE "PUBREC", p.id, NULL, WithDup(p)))
           /\ inflight' = inflight \cup {Flow(p)} /\ u' = [u EXCEPT ![i] = Idle]
    BY <1>0 DEF mqtt_publish_record, ackVars
  <2> QED
    BY <1>6, <1>7, <2>1

\* What flows say as copies.
LEMMA CopyFields ==
    ASSUME NEW f
    PROVE  /\ Copy(f).kind = "PUBLISH" /\ Copy(f).id = f.id
           /\ Copy(f).qos = f.qos /\ Copy(f).body = f.msg
BY DEF Copy, Publish

\* No two flows have the same message.
LEMMA FlowsApart ==
    ASSUME OutInv, NEW f \in inflight, NEW g \in inflight, f.msg = g.msg
    PROVE  f = g
<1>1. Copy(f) \in Live \cup Gone /\ Copy(g) \in Live \cup Gone
  BY DEF Live, Gone
<1>2. Copy(f).id = Copy(g).id
  BY <1>1, CopyFields DEF OutInv, Kept
<1> QED
  BY <1>2, CopyFields DEF OutInv, CallsInv

\* PUBACK or PUBCOMP arrives: the broker has the message that is forgotten.
LEMMA OutAck ==
    ASSUME WireInv, OutInv, toClient # <<>>, NEW p, p = Head(toClient),
           p.kind \in {"PUBACK", "PUBCOMP"}, mqtt_puback_and_pubcomp_packet_handle(p.kind, p.id),
           Wire(Tail(toClient)), UNCHANGED <<asked, got, bIds>>
    PROVE  OutInv' /\ (Steady \/ \E m \in Msgs : Out!Confirm(m))
<1>1. /\ out' = NULL /\ u' = u /\ acks' \subseteq acks
      /\ inflight' = inflight \ Finished(p.kind, p.id)
  BY DEF mqtt_puback_and_pubcomp_packet_handle, mqtt_ack_list_unrecord
<1>2. accepted' = accepted
  BY <1>1, WireAccepted DEF OutInv
<1>3. Kept(Sent, Rels, Told, bIds, Comps, Live, Gone, Untried, asked, got)
  BY DEF OutInv
<1>4. /\ Live' \subseteq Live /\ Gone' \subseteq Gone /\ Comps' \subseteq Comps /\ Untried' = Untried
  <2>1. \A j \in Users : (Planning(j)' <=> Planning(j)) /\ (Publishing(j)' <=> Publishing(j))
    BY <1>1 DEF Planning, Publishing
  <2>2. Live' \subseteq Live
    BY <1>1, <2>1 DEF Live, Copy
  <2>3. Gone' \subseteq Gone
    BY <1>1 DEF Gone, Copy
  <2>4. Comps' \subseteq Comps
    BY <1>1 DEF Comps
  <2>5. Untried' = Untried
    BY <1>1, <2>1 DEF Untried
  <2> QED
    BY <2>2, <2>3, <2>4, <2>5
<1>5. CallsInv'
  BY <1>1, <1>2, <1>4 DEF OutInv, CallsInv, Planning, Publishing
<1>6. /\ toBroker' = toBroker /\ toClient' \in Rest(toClient) /\ toClient \in Seq(Incoming)
  BY <1>1, ReadQueues
<1>7. Sent' = Sent /\ Rels' = Rels /\ Told' \subseteq Told /\ Behind(toBroker')
  BY <1>6, RestNamed DEF Sent, Rels, Told, OutInv
<1>8. Kept(Sent, Rels, Told', bIds, Comps', Live', Gone', Untried, asked, got)
  <2>1. \A t : Same(t, t)
    BY DEF Same
  <2>2. /\ \A t \in Sent : \E s \in Sent \cup Live : Same(s, t)
        /\ \A t \in Live' : \E s \in Live : Same(s, t)
        /\ \A t \in Gone' : \E s \in Gone : Same(s, t)
    BY <1>4, <2>1
  <2> QED
    BY <1>3, <1>4, <1>7, <2>2, KeptLess
<1>9. OutInv'
  BY <1>4, <1>5, <1>7, <1>8 DEF OutInv
<1>10. CASE Finished(p.kind, p.id) = {}
  BY <1>1, <1>2, <1>9, <1>10, SteadyMute
<1>11. ASSUME NEW f \in Finished(p.kind, p.id) PROVE \E m \in Msgs : Out!Confirm(m)
  <2>1. f \in inflight /\ f.id = p.id /\ (p.kind # "PUBACK" => f.released)
    BY <1>11 DEF Finished
  <2>2. inflight' = inflight \ {f}
    <3>1. \A g \in Finished(p.kind, p.id) : g = f
      BY <2>1 DEF Finished, OutInv, CallsInv
    <3> QED
      BY <1>1, <1>11, <3>1
  <2>3. f.msg \in accepted /\ f.msg \in Msgs
    BY <2>1 DEF OutInv, CallsInv
  <2>4. got[f.msg] > 0
    <3>1. Copy(f) \in Live \cup Gone /\ (f.released => Copy(f) \in Gone)
      BY <2>1 DEF Live, Gone
    <3>2. CASE p.kind = "PUBACK"
      <4>1. p.id \in Told
        BY <1>6, <3>2, HeadNamed DEF Told
      <4> QED
        BY <1>3, <2>1, <3>1, <4>1, CopyFields DEF Kept
    <3>3. CASE p.kind # "PUBACK"
      BY <1>3, <2>1, <3>1, <3>3, CopyFields DEF Kept
    <3> QED
      BY <3>2, <3>3
  <2>5. f.msg \notin Confirmed
    BY <2>1 DEF Confirmed
  <2>6. \A g \in inflight' : g \in inflight /\ g.msg # f.msg
    BY <2>1, <2>2, FlowsApart
  <2>7. Confirmed' = Confirmed \cup {f.msg}
    BY <1>2, <2>2, <2>3, <2>6 DEF Confirmed
  <2>8. Out!Confirm(f.msg)
    BY <1>2, <2>3, <2>4, <2>5, <2>7 DEF Out!Confirm
  <2> QED
    BY <2>3, <2>8
<1> QED
  BY <1>9, <1>10, <1>11

\* PUBREC arrives.
LEMMA OutPubrec ==
    ASSUME WireInv, OutInv, toClient # <<>>, NEW p, p = Head(toClient), p.kind = "PUBREC",
           mqtt_pubrec_packet_handle(p.id), Wire(Tail(toClient)), UNCHANGED <<asked, got, bIds>>
    PROVE  OutInv' /\ Steady
<1>0. PICK id : id = p.id
  OBVIOUS
<1>1. PICK r : r = Pkt("PUBREL", id, NULL)
  OBVIOUS
<1>2. r.kind = "PUBREL" /\ r.id = id
  BY <1>1, PktFresh
<1>3. /\ out' \in {NULL, r} /\ u' = u /\ WriteLockFree
      /\ inflight' = (inflight \ Receivable(id)) \cup {Released(f) : f \in Receivable(id)}
  BY <1>0, <1>1 DEF mqtt_pubrec_packet_handle, mqtt_send_packet
<1>4. Comps' \subseteq Comps \cup {id}
  <2>1. PICK a : a = Ack("PUBCOMP", id, NULL, r)
    OBVIOUS
  <2>2. a.id = id
    BY <2>1, AckFields
  <2>3. acks' \subseteq acks \cup {a}
    BY <1>0, <1>1, <2>1 DEF mqtt_pubrec_packet_handle, mqtt_ack_list_unrecord
  <2> QED
    BY <2>2, <2>3 DEF Comps
<1>5. Kept(Sent, Rels, Told, bIds, Comps, Live, Gone, Untried, asked, got)
  BY DEF OutInv
<1>6. \A f : /\ Released(f).id = f.id /\ Released(f).msg = f.msg /\ Released(f).released
             /\ Copy(Released(f)) = Copy(f)
  BY DEF Released, Copy
<1>7. \A g \in inflight' : \/ g \in inflight /\ g \notin Receivable(id)
                           \/ \E f \in Receivable(id) : g = Released(f)
  BY <1>3
<1>8. \A f \in Receivable(id) : f \in inflight /\ f.id = id /\ f.qos = 2
  BY DEF Receivable
<1>9. \A j \in Users : ~Publishing(j) /\ ~Publishing(j)' /\ (Planning(j)' <=> Planning(j))
  BY <1>3 DEF WriteLockFree, Publishing, Planning
<1>10. Untried' = Untried
  BY <1>3, <1>9 DEF Untried
<1>11. accepted' = accepted
  <2>1. \A f \in inflight : f.msg \in accepted
    BY DEF OutInv, CallsInv
  <2>2. \A g \in inflight' : g.msg \in accepted
    BY <1>6, <1>7, <1>8, <2>1
  <2> QED
    BY <2>2 DEF Wire
<1>12. CallsInv'
  <2>1. \A f, g \in inflight : f.id = g.id => f = g
    BY DEF OutInv, CallsInv
  <2>2. \A f \in inflight' : \E g \in inflight : /\ f.id = g.id /\ f.msg = g.msg
                                               /\ f = IF g \in Receivable(id) THEN Released(g) ELSE g
    BY <1>6, <1>7, <1>8
  <2>3. \A f, g \in inflight' : f.id = g.id => f = g
    BY <2>1, <2>2
  <2>4. \A f \in inflight' : f.msg \in accepted'
    BY <1>11, <2>2 DEF OutInv, CallsInv
  <2>5. \A j \in Users : Planning(j)' => u'[j].pkt.qos \in 1..2 /\ asked'[u'[j].pkt.body] = u'[j].pkt.qos
    BY <1>3, <1>9 DEF OutInv, CallsInv
  <2>6. \A j, k \in Users : Planning(j)' /\ Planning(k)' /\ u'[j].pkt.body = u'[k].pkt.body => j = k
    BY <1>3, <1>9 DEF OutInv, CallsInv
  <2>7. /\ asked' \in [Msgs -> 0..2] /\ got' \in [Msgs -> 0..2] /\ accepted' \subseteq Msgs \ Untried'
    BY <1>10, <1>11 DEF OutInv, CallsInv
  <2> QED
    BY <1>9, <2>3, <2>4, <2>5, <2>6, <2>7 DEF CallsInv
<1>13. \A t \in Live' : t \in Live /\ ~(t.id = id /\ t.qos = 2)
  <2>1. SUFFICES ASSUME NEW t \in Live' PROVE t \in Live /\ ~(t.id = id /\ t.qos = 2)
    OBVIOUS
  <2>2. PICK g \in inflight' : ~g.released /\ t = Copy(g)
    BY <1>9, <2>1 DEF Live, Copy
  <2>3. g \in inflight /\ g \notin Receivable(id)
    BY <1>6, <1>7, <2>2
  <2>4. ~(g.id = id /\ g.qos = 2)
    BY <2>3 DEF Receivable
  <2> QED
    BY <2>2, <2>3, <2>4, CopyFields DEF Live
<1>14. \A t \in Gone' : t \in Gone \/ (t \in Live /\ t.id = id)
  <2>1. SUFFICES ASSUME NEW t \in Gone' PROVE t \in Gone \/ (t \in Live /\ t.id = id)
    OBVIOUS
  <2>2. PICK g \in inflight' : g.released /\ t = Copy(g)
    BY <2>1 DEF Gone, Copy
  <2>3. CASE g \in inflight
    BY <2>2, <2>3 DEF Gone
  <2>4. ASSUME NEW f \in Receivable(id), g = Released(f) PROVE t \in Gone \/ (t \in Live /\ t.id = id)
    <3>1. f \in inflight /\ t = Copy(f) /\ t.id = id
      BY <1>6, <1>8, <2>2, <2>4, CopyFields
    <3> QED
      BY <3>1 DEF Live, Gone
  <2> QED
    BY <1>7, <2>3, <2>4
<1>15. /\ toBroker \in Seq(Outgoing) /\ toClient \in Seq(Incoming) /\ Tail(toClient) \in Rest(toClient)
       /\ Behind(toBroker)
  BY DEF WireInv, Rest, OutInv
<1>16. toClient' \in Rest(toClient) /\ (toBroker' = toBroker \/ toBroker' = Append(toBroker, r))
  BY <1>3, <1>15, WireQueues
<1>17. id \in Told /\ Told' \subseteq Told
  <2>1. p.id \in Named(toClient, {"PUBACK", "PUBREC"})
    BY <1>15, HeadNamed
  <2> QED
    BY <1>0, <1>15, <1>16, <2>1, RestNamed DEF Told
<1>18. Sent' = Sent /\ Rels' \subseteq Rels \cup {id} /\ Behind(toBroker')
  <2>1. CASE toBroker' = toBroker
    BY <1>15, <2>1 DEF Sent, Rels
  <2>2. CASE toBroker' = Append(toBroker, r)
    BY <1>2, <1>15, <2>2, AppendOf, AppendNamed, BehindAppend DEF Sent, Rels
  <2> QED
    BY <1>16, <2>1, <2>2
<1>19. Kept(Sent, Rels', Told', bIds, Comps', Live', Gone', Untried, asked, got)
  BY <1>4, <1>5, <1>13, <1>14, <1>17, <1>18, KeptRelease
<1>20. OutInv'
  BY <1>10, <1>12, <1>18, <1>19 DEF OutInv
<1>21. Confirmed' = Confirmed
  <2>1. \A f \in inflight' : \E g \in inflight : g.msg = f.msg
    BY <1>6, <1>7, <1>8
  <2>2. \A g \in inflight : \E f \in inflight' : g.msg = f.msg
    <3>1. SUFFICES ASSUME NEW g \in inflight PROVE \E f \in inflight' : g.msg = f.msg
      OBVIOUS
    <3>2. CASE g \in Receivable(id)
      BY <1>3, <1>6, <3>2
    <3>3. CASE g \notin Receivable(id)
      BY <1>3, <3>3
    <3> QED
      BY <3>2, <3>3
  <2> QED
    BY <1>11, <2>1, <2>2 DEF Confirmed
<1> QED
  BY <1>11, <1>20, <1>21 DEF Steady

\* What a record of a publication repeats.
LEMMA RepeatsCopy ==
    ASSUME ListInv, ResendInv, TrackInv, NEW r \in acks, r.type \in {"PUBACK", "PUBREC"}
    PROVE  \E f \in inflight : ~f.released /\ r.payload = Copy(f)
<1>1. PICK f : f = Flow(r.payload)
  OBVIOUS
<1>2. f.id = r.payload.id /\ f.qos = r.payload.qos /\ ~f.released
  BY <1>1 DEF Flow
<1>3. f \in inflight /\ r.payload.id = r.id /\ ((r.type = "PUBACK") <=> (r.payload.qos = 1))
  BY <1>1 DEF ResendInv, PayloadShape, PayloadOK
<1>4. TrackRecord(f) \in acks /\ TrackRecord(f).type = r.type /\ TrackRecord(f).id = r.id
  BY <1>2, <1>3, TrackFields DEF TrackInv
<1>5. r = TrackRecord(f)
  BY <1>4 DEF ListInv, AckUnique
<1>6. TrackRecord(f).payload = Copy(f)
  BY <1>2, AckFields DEF TrackRecord, Copy
<1> QED
  BY <1>2, <1>3, <1>5, <1>6

\* A record is sent again, or a topic subscribed again.
LEMMA OutResend ==
    ASSUME ListInv, TypeInv, ResendInv, TrackInv, WireInv, RepeatInv, OutInv, Resend
    PROVE  OutInv' /\ Steady
<1>1. Wire(toClient) /\ toClient \in Rest(toClient) /\ UNCHANGED <<asked, got, bIds>>
  BY DEF Resend, brokerVars, callVars, Rest
<1>2. Mute /\ inflight' = inflight
  BY MuteYield DEF Resend, Mute
<1>3. accepted' = accepted /\ Steady
  <2>1. accepted' = accepted
    BY <1>1, <1>2, WireAccepted DEF OutInv
  <2> QED
    BY <1>1, <1>2, <2>1, SteadyMute
<1>4. ASSUME out' # NULL => out'.kind \notin {"PUBLISH", "PUBREL"} PROVE OutInv' /\ Steady
  BY <1>1, <1>2, <1>3, <1>4, OutWire
<1>5. CASE mqtt_try_resubscribe
  <2>1. PICK h : out' \in {NULL, Pkt("SUBSCRIBE", mqtt_get_next_packet_id, mem[h])}
    BY <1>5 DEF mqtt_try_resubscribe, mqtt_send_packet
  <2>2. out' # NULL => out'.kind = "SUBSCRIBE"
    BY <2>1, PktFresh
  <2> QED
    BY <1>4, <2>2
<1>6. CASE mqtt_ack_handler_resend
  <2>1. PICK r \in todo : /\ out' \in {NULL, r.payload}
                          /\ r.type \in {"PUBACK", "PUBREC", "PUBREL", "PUBCOMP"}
    BY <1>6 DEF mqtt_ack_handler_resend, mqtt_send_packet
  <2>2. r \in acks /\ RepeatOK(r) /\ PayloadOK(r)
    BY DEF TypeInv, TypeOK, RepeatInv, ResendInv, PayloadShape
  <2>3. PICK q : q = r.payload
    OBVIOUS
  <2>4. /\ toClient' \in Rest(toClient) /\ (toBroker' = toBroker \/ toBroker' = Append(toBroker, q))
    BY <1>1, <2>1, <2>3, WireQueues
  <2>5. /\ toBroker \in Seq(Outgoing) /\ toClient \in Seq(Incoming) /\ Behind(toBroker)
    BY DEF WireInv, OutInv
  <2>6. Told' \subseteq Told
    BY <2>4, <2>5, RestNamed DEF Told
  <2>7. ASSUME Behind(toBroker'), \A t \in Sent' : t \in Sent \/ \E s \in Live : Same(s, t),
               Rels' \subseteq Rels \cup Comps
        PROVE  OutInv' /\ Steady
    BY <1>1, <1>2, <1>3, <2>6, <2>7, OutLess
  <2>8. CASE toBroker' = toBroker
    BY <2>5, <2>7, <2>8 DEF Sent, Rels
  <2>9. CASE toBroker' = Append(toBroker, q) /\ r.type \in {"PUBACK", "PUBREC"}
    <3>1. PICK f \in inflight : ~f.released /\ q = Copy(f)
      BY <2>2, <2>3, <2>9, RepeatsCopy
    <3>2. q \in Live /\ q.kind = "PUBLISH" /\ Same(q, q)
      BY <3>1, CopyFields DEF Live, Same
    <3>3. Sent' = Sent \cup {q}
      BY <2>5, <2>9, <3>2, AppendOf DEF Sent
    <3>4. Rels' = Rels
      BY <2>5, <2>9, <3>2, AppendNamed DEF Rels
    <3>5. q.qos = 2 => q.id \notin Named(toBroker, {"PUBREL"})
      BY <3>2 DEF OutInv, Kept, Rels
    <3>6. Behind(toBroker')
      BY <2>5, <2>9, <3>5, BehindAppend
    <3> QED
      BY <2>7, <3>2, <3>3, <3>4, <3>6
  <2>10. CASE toBroker' = Append(toBroker, q) /\ r.type = "PUBCOMP"
    <3>1. q = Pkt("PUBREL", r.id, NULL)
      BY <2>2, <2>3, <2>10, AckFields DEF PayloadOK
    <3>2. q.kind = "PUBREL" /\ q.id = r.id /\ r.id \in Comps
      BY <2>2, <2>10, <3>1, PktFresh DEF Comps
    <3>3. Sent' = Sent
      BY <2>5, <2>10, <3>2, AppendOf DEF Sent
    <3>4. Rels' = Rels \cup {r.id}
      BY <2>5, <2>10, <3>2, AppendNamed DEF Rels
    <3>5. Behind(toBroker')
      BY <2>5, <2>10, <3>2, BehindAppend
    <3> QED
      BY <2>7, <3>2, <3>3, <3>4, <3>5
  <2>11. CASE r.type = "PUBREL"
    <3>1. q = Pkt("PUBREC", BrokerId, NULL)
      BY <2>2, <2>3, <2>11, AckFields DEF RepeatOK
    <3>2. q.kind = "PUBREC"
      BY <3>1, PktFresh
    <3> QED
      BY <1>4, <2>1, <2>3, <3>2
  <2> QED
    BY <2>1, <2>4, <2>8, <2>9, <2>10, <2>11
<1> QED
  BY <1>5, <1>6 DEF Resend

\* The broker reads.
LEMMA OutBrokerRead ==
    ASSUME WireInv, OutInv, BrokerRead
    PROVE  OutInv' /\ (Steady \/ \E m \in Msgs : Out!Deliver(m))
<1>0. PICK p : p = Head(toBroker)
  OBVIOUS
<1>1. /\ UNCHANGED <<vars, asked, accepted>> /\ toBroker # <<>> /\ toBroker' = Tail(toBroker)
      /\ BrokerReceive(p)
  BY <1>0 DEF BrokerRead, callVars
<1>2. /\ toBroker' \in Rest(toBroker) /\ toClient \in Rest(toClient)
      /\ toBroker \in Seq(Outgoing) /\ toClient \in Seq(Incoming) /\ Behind(toBroker)
  BY <1>1 DEF Rest, WireInv, OutInv
<1>3. UNCHANGED <<acks, u, inflight>>
  BY <1>1 DEF vars
<1>4. Mute /\ Confirmed' = Confirmed
  BY <1>1, <1>3, MuteRecords DEF Confirmed
<1>5. Live' = Live /\ Gone' = Gone /\ Comps' = Comps /\ Untried' = Untried
  BY <1>1, <1>3 DEF Live, Gone, Comps, Untried, Publishing, Planning, Copy
<1>6. Kept(Sent, Rels, Told, bIds, Comps, Live, Gone, Untried, asked, got)
  BY DEF OutInv
<1>7. Sent' \subseteq Sent /\ Rels' \subseteq Rels /\ Behind(toBroker')
  BY <1>2, RestOf, RestNamed, BehindRest DEF Sent, Rels
<1>8. ASSUME NEW kind, NEW id, NEW body, ReplyWith(kind, id, body)
      PROVE  \/ toClient' = toClient
             \/ \E q : /\ q.kind = kind /\ q.id = id /\ toClient' = Append(toClient, q)
  <2>1. PICK q : q = Pkt(kind, id, body)
    OBVIOUS
  <2>2. q.kind = kind /\ q.id = id
    BY <2>1, PktFresh
  <2>3. toClient' = toClient \/ toClient' = Append(toClient, q)
    BY <1>8, <2>1 DEF ReplyWith
  <2> QED
    BY <2>2, <2>3
<1>9. ASSUME got' = got PROVE CallsInv'
  BY <1>1, <1>3, <1>5, <1>9 DEF OutInv, CallsInv, Planning, Publishing
<1>10. ASSUME NEW kind \in {"PUBACK", "PUBREC"}, NEW id, Reply(kind, id)
       PROVE  Told' \subseteq Told \cup {id}
  <2>1. CASE toClient' = toClient
    BY <2>1 DEF Told
  <2>2. ASSUME NEW q, q.kind = kind, q.id = id, toClient' = Append(toClient, q)
        PROVE  Told' \subseteq Told \cup {id}
    BY <1>2, <2>2, AppendNamed DEF Told
  <2> QED
    BY <1>8, <1>10, <2>1, <2>2 DEF Reply
<1>11. CASE p.kind = "PUBLISH" /\ BrokerPublish(p)
  <2>1. p \in Sent
    BY <1>0, <1>1, <1>2, <1>11, HeadNamed DEF Sent
  <2>2. /\ p.body \in Msgs /\ p.qos \in 1..2 /\ asked[p.body] = p.qos
        /\ p.id \in bIds => got[p.body] > 0
        /\ p.qos = 2 /\ p.id \notin bIds => got[p.body] = 0
    BY <1>6, <2>1 DEF Kept
  <2>3. got \in [Msgs -> 0..2]
    BY DEF OutInv, CallsInv
  <2>4. Told' \subseteq Told \cup {p.id}
    BY <1>10, <1>11 DEF BrokerPublish
  <2>5. /\ bIds \subseteq bIds' /\ bIds' \subseteq bIds \cup {p.id} /\ (p.qos = 2 => p.id \in bIds')
    BY <1>11 DEF BrokerPublish
  <2>6. ASSUME NEW count \in [Msgs -> 0..2], count[p.body] > 0,
               \A m \in Msgs : m # p.body => count[m] = got[m], got' = count
        PROVE  OutInv'
    <3>1. CallsInv'
      BY <1>1, <1>3, <1>5, <2>6 DEF OutInv, CallsInv, Planning, Publishing
    <3>2. \A m \in Msgs \cup Untried : m # p.body => count[m] = got[m]
      BY <2>6 DEF Untried
    <3>3. Kept(Sent', Rels', Told', bIds', Comps, Live, Gone, Untried, asked, count)
      BY <1>6, <1>7, <2>1, <2>4, <2>5, <2>6, <3>2, KeptDeliver
    <3> QED
      BY <1>1, <1>5, <1>7, <2>6, <3>1, <3>3 DEF OutInv
  <2>7. CASE got' = got /\ p.id \in bIds
    <3>1. OutInv'
      BY <2>2, <2>3, <2>6, <2>7
    <3> QED
      BY <1>1, <1>4, <2>7, <3>1 DEF Steady
  <2>8. CASE PassOn(p.body) /\ (p.qos = 2 => p.id \notin bIds)
    <3>1. PICK count : count = [got EXCEPT ![p.body] = IF @ = 2 THEN 2 ELSE @ + 1]
      OBVIOUS
    <3>2. /\ count \in [Msgs -> 0..2] /\ count[p.body] > 0
          /\ \A m \in Msgs : m # p.body => count[m] = got[m]
      BY <2>2, <2>3, <3>1
    <3>3. OutInv'
      BY <2>6, <2>8, <3>1, <3>2 DEF PassOn
    <3>4. Out!Deliver(p.body)
      BY <1>1, <1>4, <2>2, <2>8 DEF PassOn, Out!Deliver
    <3> QED
      BY <2>2, <3>3, <3>4
  <2> QED
    BY <1>11, <2>7, <2>8 DEF BrokerPublish
<1>12. CASE p.kind = "PUBREL" /\ bIds' = bIds \ {p.id} /\ Reply("PUBCOMP", p.id) /\ got' = got
  <2>1. Told' = Told
    <3>1. CASE toClient' = toClient
      BY <3>1 DEF Told
    <3>2. ASSUME NEW q, q.kind = "PUBCOMP", toClient' = Append(toClient, q) PROVE Told' = Told
      BY <1>2, <3>2, AppendNamed DEF Told
    <3> QED
      BY <1>8, <1>12, <3>1, <3>2 DEF Reply
  <2>2. p.id \in Rels
    BY <1>0, <1>1, <1>2, <1>12, HeadNamed DEF Rels
  <2>3. \A t \in Sent' : t.qos = 2 => t.id # p.id
    BY <1>0, <1>1, <1>2, <1>12, BehindHead DEF Sent
  <2>4. Kept(Sent', Rels', Told, bIds \ {p.id}, Comps, Live, Gone, Untried, asked, got)
    BY <1>6, <1>7, <2>2, <2>3, KeptForget
  <2>5. OutInv'
    BY <1>1, <1>5, <1>7, <1>9, <1>12, <2>1, <2>4 DEF OutInv
  <2> QED
    BY <1>1, <1>4, <1>12, <2>5 DEF Steady
<1>13. ASSUME UNCHANGED <<got, bIds>>,
              \/ toClient' = toClient
              \/ \E kind \in {"PUBREL", "PINGRESP", "SUBACK", "UNSUBACK"} :
                    \E id, body : ReplyWith(kind, id, body)
       PROVE  OutInv' /\ Steady
  <2>1. \/ toClient' \in Rest(toClient)
        \/ \E q : q.kind \notin {"PUBACK", "PUBREC"} /\ \E r \in Rest(toClient) : toClient' = Append(r, q)
    <3>1. CASE toClient' = toClient
      BY <1>2, <3>1
    <3>2. ASSUME NEW kind \in {"PUBREL", "PINGRESP", "SUBACK", "UNSUBACK"},
                 NEW id, NEW body, ReplyWith(kind, id, body), toClient' # toClient
          PROVE  \E q : q.kind \notin {"PUBACK", "PUBREC"}
                           /\ \E r \in Rest(toClient) : toClient' = Append(r, q)
      <4>1. PICK q : q.kind = kind /\ toClient' = Append(toClient, q)
        BY <1>8, <3>2
      <4> QED
        BY <1>2, <4>1
    <3> QED
      BY <1>13, <3>1, <3>2
  <2>2. OutInv'
    BY <1>1, <1>2, <1>4, <1>13, <2>1, OutQueues
  <2> QED
    BY <1>1, <1>4, <1>13, <2>2 DEF Steady
<1>14. CASE \/ p.kind = "PUBREC" /\ Reply("PUBREL", p.id) /\ UNCHANGED <<got, bIds>>
            \/ p.kind = "PINGREQ" /\ Reply("PINGRESP", 0) /\ UNCHANGED <<got, bIds>>
            \/ p.kind = "UNSUBSCRIBE" /\ Reply("UNSUBACK", p.id) /\ UNCHANGED <<got, bIds>>
            \/ /\ p.kind = "SUBSCRIBE" /\ UNCHANGED <<got, bIds>>
               /\ \E code \in SubCodes : ReplyWith("SUBACK", p.id, code)
  BY <1>13, <1>14 DEF Reply
<1>15. CASE UNCHANGED <<toClient, got, bIds>>
  BY <1>13, <1>15
<1> QED
  BY <1>1, <1>11, <1>12, <1>14, <1>15 DEF BrokerReceive

\* The client reads.
LEMMA OutRead ==
    ASSUME WireInv, OutInv, Read
    PROVE  OutInv' /\ (Steady \/ \E m \in Msgs : Out!Confirm(m))
<1>0. PICK p : p = Head(toClient)
  OBVIOUS
<1>1. toClient # <<>> /\ Handle(p) /\ Wire(Tail(toClient)) /\ UNCHANGED <<asked, got, bIds>>
  BY <1>0 DEF Read, brokerVars, callVars
<1>2. Tail(toClient) \in Rest(toClient)
  BY <1>1 DEF Rest
<1>3. CASE p.kind \in {"PUBACK", "PUBCOMP"} /\ mqtt_puback_and_pubcomp_packet_handle(p.kind, p.id)
  BY <1>0, <1>1, <1>3, OutAck
<1>4. CASE p.kind = "PUBREC" /\ mqtt_pubrec_packet_handle(p.id)
  BY <1>0, <1>1, <1>4, OutPubrec
<1>5. CASE \/ \E ok \in BOOLEAN : mqtt_pubrel_packet_handle(p.id, ok)
           \/ \E ok \in BOOLEAN : mqtt_publish_packet_handle(p.id, p.qos, ok)
           \/ mqtt_suback_packet_handle(p.id, p.body) \/ mqtt_unsuback_packet_handle(p.id)
           \/ pingresp_packet_handle
  <2>1. Mute /\ (out' # NULL => out'.kind \notin {"PUBLISH", "PUBREL"})
    BY <1>5, MutePacket
  <2>2. OutInv' /\ accepted' = accepted
    BY <1>1, <1>2, <2>1, OutWire
  <2> QED
    BY <1>1, <2>1, <2>2, SteadyMute DEF Mute
<1> QED
  BY <1>1, <1>3, <1>4, <1>5 DEF Handle

\* Every step of the system.
LEMMA OutStep ==
    ASSUME ~CleanSession, 0 \notin PubQos, IdFree, ListInv, TypeInv, WindowInv, ResendInv,
           TrackInv, WireInv, RepeatInv, OutInv, [SystemNext]_systemVars
    PROVE  OutInv' /\ \/ Steady
                      \/ \E m \in Msgs : \/ Out!Offer(m) \/ Out!Accept(m)
                                         \/ Out!Deliver(m) \/ Out!Confirm(m)
<1>0. toClient \in Rest(toClient) /\ toBroker \in Rest(toBroker)
  BY DEF Rest
<1>1. ASSUME Mute, out' # NULL => out'.kind \notin {"PUBLISH", "PUBREL"}, Wire(toClient),
             UNCHANGED <<asked, got, bIds>>
      PROVE  OutInv' /\ Steady
  <2>1. OutInv' /\ accepted' = accepted
    BY <1>0, <1>1, OutWire
  <2> QED
    BY <1>1, <2>1, SteadyMute DEF Mute
<1>2. ASSUME Mute, UNCHANGED <<asked, got, accepted, bIds>>,
             toBroker' \in Rest(toBroker), toClient' \in Rest(toClient)
      PROVE  OutInv' /\ Steady
  <2>1. OutInv'
    BY <1>2, OutQueues
  <2> QED
    BY <1>2, <2>1, SteadyMute DEF Mute
<1>3. CASE UNCHANGED systemVars \/ Cut
  <2>1. /\ UNCHANGED <<vars, asked, got, accepted, bIds>>
        /\ toClient' \in {toClient, <<>>} /\ toBroker' \in {toBroker, <<>>}
    BY <1>3 DEF systemVars, Cut, brokerVars, wireVars, callVars
  <2>2. Mute
    BY <2>1, MuteRecords DEF vars
  <2>3. toClient' \in Rest(toClient) /\ toBroker' \in Rest(toBroker)
    BY <2>1 DEF Rest
  <2> QED
    BY <1>2, <2>1, <2>2, <2>3
<1>4. CASE Reconnect
  <2>1. Mute
    BY <1>4, MuteYield DEF Reconnect
  <2>2. /\ toClient' \in Rest(toClient) /\ toBroker' \in Rest(toBroker)
        /\ UNCHANGED <<asked, got, accepted, bIds>>
    BY <1>4 DEF Reconnect, Rest, brokerVars, callVars
  <2> QED
    BY <1>2, <2>1, <2>2
<1>5. CASE Read
  BY <1>5, OutRead
<1>6. CASE ReadNothing \/ Deliver
  <2>1. /\ nothing_read \/ mqtt_deliver_message
        /\ out' = NULL /\ Wire(toClient) /\ UNCHANGED <<asked, got, bIds>>
    BY <1>6 DEF ReadNothing, Deliver, brokerVars, callVars, nothing_read, mqtt_deliver_message
  <2>2. Mute
    BY <2>1, MuteYield
  <2> QED
    BY <1>1, <2>1, <2>2
<1>7. CASE KeepAlive
  <2>1. Mute
    BY <1>7, MuteYield DEF KeepAlive
  <2>2. out' # NULL => out'.kind \notin {"PUBLISH", "PUBREL"}
    BY <1>7, PktFresh DEF KeepAlive, mqtt_keep_alive, mqtt_send_packet
  <2>3. Wire(toClient) /\ UNCHANGED <<asked, got, bIds>>
    BY <1>7 DEF KeepAlive, brokerVars, callVars
  <2> QED
    BY <1>1, <2>1, <2>2, <2>3
<1>8. CASE Resend
  BY <1>8, OutResend
<1>9. CASE Other
  <2>1. Mute
    BY <1>9, MuteYield DEF Other
  <2>2. Wire(toClient) /\ UNCHANGED <<asked, got, bIds>>
    BY <1>9 DEF Other, brokerVars, callVars
  <2>3. out' = NULL
    BY <1>9 DEF Other, mqtt_keep_alive_drop, mqtt_ack_list_scan_destroy, mqtt_ack_list_scan_end,
       mqtt_reconnect_done, mqtt_resubscribed
  <2> QED
    BY <1>1, <2>1, <2>2, <2>3
<1>10. CASE Handshake
  <2>1. Mute
    BY <1>10, MuteYield DEF Handshake
  <2>2. CASE Connected
    BY <2>1, <2>2, OutConnected
  <2>3. CASE toClient' = <<>> /\ UNCHANGED <<toBroker, brokerVars, callVars, accepted>>
    <3>1. /\ toClient' \in Rest(toClient) /\ toBroker' \in Rest(toBroker)
          /\ UNCHANGED <<asked, got, accepted, bIds>>
      BY <2>3 DEF Rest, brokerVars, callVars
    <3> QED
      BY <1>2, <2>1, <3>1
  <2> QED
    BY <1>10, <2>2, <2>3 DEF Handshake
<1>11. CASE BrokerRead
  BY <1>11, OutBrokerRead
<1>12. CASE BrokerSend
  <2>1. UNCHANGED <<vars, toBroker, asked, got, accepted, bIds>>
    BY <1>12 DEF BrokerSend, callVars
  <2>2. Mute
    BY <2>1, MuteRecords DEF vars
  <2>3. PICK q \in InQos \ {0} : toClient' = Append(toClient, Publish(BrokerId, q, 0, Len(bQos) + 1))
    BY <1>12 DEF BrokerSend
  <2>4. PICK p : p = Publish(BrokerId, q, 0, Len(bQos) + 1)
    OBVIOUS
  <2>5. p.kind \notin {"PUBACK", "PUBREC"}
    BY <2>4 DEF Publish
  <2>6. \E a : a.kind \notin {"PUBACK", "PUBREC"} /\ \E r \in Rest(toClient) : toClient' = Append(r, a)
    BY <1>0, <2>3, <2>4, <2>5
  <2>7. OutInv'
    BY <1>0, <2>1, <2>2, <2>6, OutQueues
  <2> QED
    BY <2>1, <2>2, <2>7, SteadyMute DEF Mute
<1>13. ASSUME NEW i \in Users, Connect(i) PROVE OutInv' /\ Steady
  <2>1. Mute
    BY <1>13, MuteCall DEF Connect
  <2>2. CASE Connected
    BY <2>1, <2>2, OutConnected
  <2>3. CASE UNCHANGED <<wireVars, brokerVars, callVars, accepted>>
    BY <1>0, <1>2, <2>1, <2>3 DEF wireVars, brokerVars, callVars
  <2> QED
    BY <1>13, <2>2, <2>3 DEF Connect
<1>14. ASSUME NEW i \in Users, Ask(i) PROVE OutInv' /\ \E m \in Msgs : Out!Offer(m)
  BY <1>14, OutAsk
<1>15. ASSUME NEW i \in Users, AskTopic(i) PROVE OutInv' /\ Steady
  <2>1. Mute
    BY <1>15, MuteCall DEF AskTopic
  <2>2. UNCHANGED <<wireVars, brokerVars, asked, accepted>>
    BY <1>15 DEF AskTopic
  <2> QED
    BY <1>0, <1>2, <2>1, <2>2 DEF wireVars, brokerVars
<1>16. ASSUME NEW i \in Users, InCall(i)
       PROVE  OutInv' /\ (Steady \/ \E m \in Msgs : Out!Accept(m))
  <2>1. Wire(toClient) /\ UNCHANGED <<asked, got, bIds>>
    BY <1>16 DEF InCall, brokerVars, callVars
  <2>2. CASE mqtt_publish_send(i)
    BY <2>1, <2>2, OutSend
  <2>3. CASE mqtt_publish_record(i)
    BY <2>1, <2>3, OutRecord
  <2>4. CASE \/ mqtt_request_send(i) \/ mqtt_subscribe_record(i) \/ mqtt_unsubscribe_record(i)
             \/ mqtt_publish_release(i) \/ mqtt_publish_disconnected(i)
    <3>1. Mute
      BY <2>4, MuteCall
    <3>2. out' # NULL => out'.kind \notin {"PUBLISH", "PUBREL"}
      <4>1. CASE mqtt_request_send(i)
        BY <4>1 DEF mqtt_request_send, mqtt_send_packet, WithId
      <4>2. CASE ~mqtt_request_send(i)
        BY <2>4, <4>2 DEF mqtt_subscribe_record, mqtt_unsubscribe_record, mqtt_publish_release,
           mqtt_publish_disconnected
      <4> QED
        BY <4>1, <4>2
    <3> QED
      BY <1>1, <2>1, <3>1, <3>2
  <2> QED
    BY <1>16, <2>2, <2>3, <2>4 DEF InCall
<1> QED
  BY <1>3, <1>4, <1>5, <1>6, <1>7, <1>8, <1>9, <1>10, <1>11, <1>12, <1>13, <1>14, <1>15, <1>16
     DEF SystemNext, YieldThread

\* No message is asked for at the start.
LEMMA OutInit == SystemInit => OutInv /\ Out!Init
<1> SUFFICES ASSUME SystemInit PROVE OutInv /\ Out!Init
    OBVIOUS
<1> USE DEF SystemInit, Init
<1>1. \A i \in Users : ~Planning(i) /\ ~Publishing(i)
  BY DEF Idle, At, Planning, Publishing
<1>2. Sent = {} /\ Rels = {} /\ Told = {} /\ Behind(toBroker)
  BY DEF Sent, Rels, Told, Named, Of, Behind
<1>3. Live = {} /\ Gone = {} /\ Comps = {}
  BY <1>1 DEF Live, Gone, Comps
<1>4. Kept(Sent, Rels, Told, bIds, Comps, Live, Gone, Untried, asked, got)
  BY <1>2, <1>3 DEF Kept, Untried
<1>5. CallsInv
  BY <1>1 DEF CallsInv
<1>6. Out!Init
  BY DEF Out!Init, Confirmed
<1> QED
  BY <1>2, <1>4, <1>5, <1>6 DEF OutInv

\* The messages of the application, published at QoS 1 or 2, reach the broker
\* as MQTT promises, as far as safety goes: the client forgets a message it
\* accepted only when the broker has passed it on, at QoS 2 exactly once.  The
\* session is kept, allocations succeed and no packet id is taken while its
\* last use is unfinished; whatever is lost, late or repeated, and whichever
\* thread comes first.
THEOREM OutboundCorrect ==
    ASSUME ~AllocMayFail, ~CleanSession, 0 \notin PubQos
    PROVE  SystemSpec /\ []IdFree => Out!SafeSpec
<1>1. SystemInit => Init
  BY DEF SystemInit
<1>2. InInv /\ [SystemNext]_systemVars => [Next]_vars
  BY ClientStep DEF InInv, ExInv
<1>3. TypeInv /\ InInv /\ [SystemNext]_systemVars => InInv'
  BY InStep
<1>4. TypeInv /\ ResendInv /\ TrackInv /\ [Next]_vars => TrackInv'
  BY TrackStep
<1>5. SystemInit => InInv
  BY InboundInit
<1>6. /\ IdFree /\ ListInv /\ TypeInv /\ WindowInv /\ ResendInv /\ TrackInv /\ InInv /\ OutInv
      /\ [SystemNext]_systemVars
      => OutInv' /\ [Out!Next]_(Out!deliveryVars)
  <2> SUFFICES ASSUME IdFree, ListInv, TypeInv, WindowInv, ResendInv, TrackInv, InInv, OutInv,
                      [SystemNext]_systemVars
               PROVE  OutInv' /\ [Out!Next]_(Out!deliveryVars)
    OBVIOUS
  <2>1. OutInv' /\ \/ Steady
                   \/ \E m \in Msgs : \/ Out!Offer(m) \/ Out!Accept(m)
                                      \/ Out!Deliver(m) \/ Out!Confirm(m)
    BY OutStep DEF InInv, ExInv
  <2> QED
    BY <2>1 DEF Steady, Out!Next, Out!deliveryVars
<1> QED
  BY <1>1, <1>2, <1>3, <1>4, <1>5, <1>6, ListInit, ListStep, TypeInit, TypeStep, WindowInit,
     WindowStep, ResendInit, ResendStep, TrackInit, OutInit, PTL DEF SystemSpec, Out!SafeSpec

-----------------------------------------------------------------------------
(* Packet ids in use.  As long as the id space has not been used up, they  *)
(* are ids that were taken before.                                         *)

\* Ids of the publications the client has recorded or is about to record.
HeldIds == {r.id : r \in {s \in acks : s.type \in PubTypes}}
              \cup {u[i].pkt.id : i \in {j \in Users : Publishing(j)}}

OnWay == Named(toBroker, {"PUBLISH", "PUBREL"})

InUse == HeldIds \cup bIds \cup OnWay \cup Told

UsedInv == InUse \subseteq 0..packetId

\* Ids are taken in order.
LEMMA IdsInOrder ==
    ASSUME TypeInv, NoWrap, [Next]_vars
    PROVE  packetId \in Nat /\ packetId' \in {packetId, packetId + 1}
<1>1. packetId \in Nat /\ mqtt_get_next_packet_id = packetId + 1
  BY MaxPacketIdAssumption DEF TypeInv, TypeOK, NoWrap, mqtt_get_next_packet_id
<1>2. packetId' \in {packetId, mqtt_get_next_packet_id}
  <2>1. CASE UNCHANGED vars
    BY <2>1 DEF vars
  <2>2. CASE mqtt_packet_handle
    BY <2>2 DEF mqtt_packet_handle, mqtt_puback_and_pubcomp_packet_handle, mqtt_suback_packet_handle,
       mqtt_unsuback_packet_handle, mqtt_publish_packet_handle, mqtt_pubrec_packet_handle,
       mqtt_pubrel_packet_handle, pingresp_packet_handle, nothing_read, ignored_packet
  <2>3. CASE YieldStep /\ ~mqtt_packet_handle
    <3>1. CASE mqtt_try_resubscribe
      <4>1. PICK h \in resub :
               packetId' \in {packetId, Pkt("SUBSCRIBE", mqtt_get_next_packet_id, mem[h]).id}
        BY <3>1 DEF mqtt_try_resubscribe
      <4> QED
        BY <4>1, PktFresh
    <3>2. CASE ~mqtt_try_resubscribe
      BY <2>3, <3>2 DEF YieldStep, mqtt_deliver_message, mqtt_keep_alive, mqtt_keep_alive_drop,
         mqtt_ack_handler_resend,
         mqtt_ack_list_scan_destroy, mqtt_ack_list_scan_end, mqtt_try_reconnect,
         mqtt_reconnect_handshake, mqtt_reconnect_done, mqtt_resubscribed, mqtt_clean_session
    <3> QED
      BY <3>1, <3>2
  <2>4. ASSUME NEW i \in Users, ApplicationStep(i) PROVE packetId' \in {packetId, mqtt_get_next_packet_id}
    BY <2>4 DEF ApplicationStep, mqtt_connect, mqtt_publish, mqtt_subscribe, mqtt_unsubscribe,
       CheckConnected, mqtt_request_send, mqtt_publish_send, WithId, mqtt_subscribe_record,
       mqtt_unsubscribe_record, mqtt_publish_record, mqtt_publish_release,
       mqtt_publish_disconnected, mqtt_disconnect, mqtt_disconnect_clean
  <2> QED
    BY <2>1, <2>2, <2>3, <2>4 DEF Next, Stopped
<1> QED
  BY <1>1, <1>2

\* An id that is in use stays so, goes, or is the one just taken.
LEMMA UsedWithin ==
    ASSUME TypeInv, NoWrap, [Next]_vars, UsedInv, InUse' \subseteq InUse \cup {0, packetId'}
    PROVE  UsedInv'
<1>1. packetId \in Nat /\ packetId' \in {packetId, packetId + 1}
  BY IdsInOrder
<1>2. 0..packetId \subseteq 0..packetId' /\ {0, packetId'} \subseteq 0..packetId'
  BY <1>1
<1> QED
  BY <1>2 DEF UsedInv

LEMMA MuteHeld == ASSUME Mute PROVE HeldIds' \subseteq HeldIds
<1>1. \A r \in acks' : r.type \in PubTypes => r \in acks
  BY DEF Mute
<1>2. \A i \in Users : Publishing(i)' => Publishing(i) /\ u'[i] = u[i]
  BY DEF Mute
<1> QED
  BY <1>1, <1>2 DEF HeldIds

\* Packets are lost, or one of no concern is added.
LEMMA UsedQueues ==
    ASSUME WireInv, HeldIds' \subseteq HeldIds, bIds' = bIds, toBroker' \in Rest(toBroker),
           \/ toClient' \in Rest(toClient)
           \/ \E p : p.kind \notin {"PUBACK", "PUBREC"} /\ \E r \in Rest(toClient) : toClient' = Append(r, p)
    PROVE  InUse' \subseteq InUse \cup {0, packetId'}
<1>1. toBroker \in Seq(Outgoing) /\ toClient \in Seq(Incoming)
  BY DEF WireInv
<1>2. OnWay' \subseteq OnWay
  BY <1>1, RestNamed DEF OnWay
<1>3. Told' \subseteq Told
  <2>1. CASE toClient' \in Rest(toClient)
    BY <1>1, <2>1, RestNamed DEF Told
  <2>2. ASSUME NEW p, p.kind \notin {"PUBACK", "PUBREC"}, NEW r \in Rest(toClient),
               toClient' = Append(r, p)
        PROVE  Told' \subseteq Told
    <3>1. r \in Seq(Incoming)
      BY <1>1, RestPackets
    <3>2. Named(r, {"PUBACK", "PUBREC"}) \subseteq Told
      BY <1>1, RestNamed DEF Told
    <3>3. Named(Append(r, p), {"PUBACK", "PUBREC"}) = Named(r, {"PUBACK", "PUBREC"})
      BY <2>2, <3>1, AppendNamed
    <3> QED
      BY <2>2, <3>2, <3>3 DEF Told
  <2> QED
    BY <2>1, <2>2
<1> QED
  BY <1>2, <1>3 DEF InUse

\* A step of the client that takes no other id than the next.
LEMMA UsedWire ==
    ASSUME WireInv, NEW unread \in Rest(toClient), Wire(unread), bIds' = bIds,
           HeldIds' \subseteq InUse \cup {0, packetId'},
           out' # NULL => \/ out'.kind \notin {"PUBLISH", "PUBREL"}
                          \/ out'.id \in InUse \cup {0, packetId'}
    PROVE  InUse' \subseteq InUse \cup {0, packetId'}
<1>1. toBroker \in Seq(Outgoing) /\ toClient \in Seq(Incoming)
  BY DEF WireInv
<1>2. /\ toClient' \in Rest(toClient)
      /\ toBroker' = toBroker \/ (out' # NULL /\ toBroker' = Append(toBroker, out'))
  BY WireQueues
<1>3. Told' \subseteq Told
  BY <1>1, <1>2, RestNamed DEF Told
<1>4. OnWay' \subseteq InUse \cup {0, packetId'}
  <2>1. CASE toBroker' = toBroker
    BY <2>1 DEF OnWay, InUse
  <2>2. CASE out' # NULL /\ toBroker' = Append(toBroker, out')
    <3>1. PICK q : q = out'
      OBVIOUS
    <3>2. CASE q.kind \in {"PUBLISH", "PUBREL"}
      <4>1. OnWay' = OnWay \cup {q.id}
        BY <1>1, <2>2, <3>1, <3>2, AppendNamed DEF OnWay
      <4> QED
        BY <2>2, <3>1, <3>2, <4>1 DEF InUse
    <3>3. CASE q.kind \notin {"PUBLISH", "PUBREL"}
      <4>1. OnWay' = OnWay
        BY <1>1, <2>2, <3>1, <3>3, AppendNamed DEF OnWay
      <4> QED
        BY <4>1 DEF InUse
    <3> QED
      BY <3>2, <3>3
  <2> QED
    BY <1>2, <2>1, <2>2
<1> QED
  BY <1>3, <1>4 DEF InUse

\* mqtt_publish takes the next id, or none.
LEMMA UsedSend ==
    ASSUME TypeInv, WireInv, NEW i \in Users, mqtt_publish_send(i), Wire(toClient), bIds' = bIds
    PROVE  InUse' \subseteq InUse \cup {0, packetId'}
<1>0. PICK p : p = u[i].pkt
  OBVIOUS
<1>1. PICK id : id = IF p.qos = 0 THEN 0 ELSE mqtt_get_next_packet_id
  OBVIOUS
<1>2. PICK s : s = WithId(p, id)
  OBVIOUS
<1>3. p.kind = "PUBLISH" /\ WriteLockFree /\ acks' = acks
  BY <1>0 DEF mqtt_publish_send, ackVars
<1>4. s.id = id
  BY <1>2, <1>3 DEF WithId
<1>5. /\ \/ u' = [u EXCEPT ![i] = At("failed", p)] /\ out' = NULL
         \/ u' = [u EXCEPT ![i] = Idle] /\ id \in {0, packetId'} /\ out' \in {NULL, s}
         \/ u' = [u EXCEPT ![i] = At("record", s)] /\ id = packetId' /\ out' \in {NULL, s}
  BY <1>0, <1>1, <1>2 DEF mqtt_publish_send, mqtt_send_packet
<1>6. u \in [Users -> Calls] /\ toClient \in Rest(toClient)
  BY DEF TypeInv, CallShape, Rest
<1>7. \A j \in Users : ~Publishing(j)
  BY <1>3 DEF WriteLockFree, Publishing
<1>8. out' # NULL => out'.id \in InUse \cup {0, packetId'}
  BY <1>4, <1>5
<1>9. ASSUME NEW c, u' = [u EXCEPT ![i] = c],
             c.pc = "record" /\ c.pkt.kind = "PUBLISH" => c.pkt.id \in {0, packetId'}
      PROVE  HeldIds' \subseteq HeldIds \cup {0, packetId'}
  <2>1. u'[i] = c /\ \A j \in Users \ {i} : u'[j] = u[j]
    BY <1>6, <1>9
  <2>2. \A j \in Users : Publishing(j)' => u'[j].pkt.id \in {0, packetId'}
    BY <1>7, <1>9, <2>1 DEF Publishing
  <2> QED
    BY <1>3, <2>2 DEF HeldIds
<1>10. HeldIds' \subseteq HeldIds \cup {0, packetId'}
  <2>1. At("failed", p).pc = "failed" /\ Idle.pc = "idle" /\ At("record", s).pkt = s
    BY DEF At, Idle
  <2> QED
    BY <1>4, <1>5, <1>9, <2>1
<1>11. HeldIds' \subseteq InUse \cup {0, packetId'}
  BY <1>10 DEF InUse
<1> QED
  BY <1>6, <1>8, <1>11, UsedWire

\* The id of the call is now that of the record.
LEMMA UsedRecord ==
    ASSUME TypeInv, NEW i \in Users, mqtt_publish_record(i)
    PROVE  HeldIds' \subseteq HeldIds /\ out' = NULL
<1>0. PICK p : p = u[i].pkt
  OBVIOUS
<1>1. PICK r : r = Ack(IF p.qos = 1 THEN "PUBACK" ELSE "PUBREC", p.id, NULL, WithDup(p))
  OBVIOUS
<1>2. r.id = p.id
  BY <1>1, AckFields
<1>3. Publishing(i) /\ out' = NULL /\ acks' \subseteq acks \cup {r}
  BY <1>0, <1>1 DEF mqtt_publish_record, Publishing, ackVars, AppendRecord, mqtt_ack_list_record
<1>4. PICK c : u' = [u EXCEPT ![i] = c] /\ c.pc \in {"idle", "failed"}
  <2>1. At("failed", p).pc = "failed" /\ Idle.pc = "idle"
    BY DEF At, Idle
  <2> QED
    BY <1>0, <2>1 DEF mqtt_publish_record
<1>5. u \in [Users -> Calls]
  BY DEF TypeInv, CallShape
<1>6. u'[i] = c /\ \A j \in Users \ {i} : u'[j] = u[j]
  BY <1>4, <1>5
<1>7. \A j \in Users : Publishing(j)' => Publishing(j) /\ u'[j] = u[j]
  BY <1>4, <1>6 DEF Publishing
<1>8. p.id \in HeldIds
  BY <1>0, <1>3 DEF HeldIds
<1>9. \A x \in HeldIds' : x \in HeldIds \/ x = r.id
  BY <1>3, <1>7 DEF HeldIds
<1> QED
  BY <1>2, <1>3, <1>8, <1>9

\* The client reads: a PUBREC is answered, and recorded, under its own id.
LEMMA UsedRead ==
    ASSUME WireInv, Read
    PROVE  InUse' \subseteq InUse \cup {0, packetId'}
<1>0. PICK p : p = Head(toClient)
  OBVIOUS
<1>1. toClient # <<>> /\ Handle(p) /\ Wire(Tail(toClient)) /\ bIds' = bIds
  BY <1>0 DEF Read, brokerVars
<1>2. Tail(toClient) \in Rest(toClient) /\ toClient \in Seq(Incoming)
  BY <1>1 DEF Rest, WireInv
<1>3. ASSUME HeldIds' \subseteq InUse,
             out' # NULL => out'.kind \notin {"PUBLISH", "PUBREL"} \/ out'.id \in InUse
      PROVE  InUse' \subseteq InUse \cup {0, packetId'}
  BY <1>1, <1>2, <1>3, UsedWire
<1>4. HeldIds \subseteq InUse
  BY DEF InUse
<1>5. CASE mqtt_puback_and_pubcomp_packet_handle(p.kind, p.id)
  <2>1. out' = NULL /\ acks' \subseteq acks /\ u' = u
    BY <1>5 DEF mqtt_puback_and_pubcomp_packet_handle, mqtt_ack_list_unrecord, ackVars
  <2>2. HeldIds' \subseteq HeldIds
    BY <2>1 DEF HeldIds, Publishing
  <2> QED
    BY <1>3, <1>4, <2>1, <2>2
<1>6. CASE p.kind = "PUBREC" /\ mqtt_pubrec_packet_handle(p.id)
  <2>0. PICK id : id = p.id
    OBVIOUS
  <2>1. PICK q : q = Pkt("PUBREL", id, NULL)
    OBVIOUS
  <2>2. PICK a : a = Ack("PUBCOMP", id, NULL, q)
    OBVIOUS
  <2>3. q.id = id /\ a.id = id
    BY <2>1, <2>2, PktFresh, AckFields
  <2>4. out' \in {NULL, q} /\ u' = u /\ acks' \subseteq acks \cup {a}
    BY <1>6, <2>0, <2>1, <2>2 DEF mqtt_pubrec_packet_handle, mqtt_send_packet, mqtt_ack_list_unrecord
  <2>5. id \in InUse
    <3>1. p.id \in Named(toClient, {"PUBACK", "PUBREC"})
      BY <1>0, <1>1, <1>2, <1>6, HeadNamed
    <3> QED
      BY <2>0, <3>1 DEF InUse, Told
  <2>6. \A x \in HeldIds' : x \in HeldIds \/ x = id
    BY <2>3, <2>4 DEF HeldIds, Publishing
  <2> QED
    BY <1>3, <1>4, <2>3, <2>4, <2>5, <2>6
<1>7. CASE \/ \E ok \in BOOLEAN : mqtt_pubrel_packet_handle(p.id, ok)
           \/ \E ok \in BOOLEAN : mqtt_publish_packet_handle(p.id, p.qos, ok)
           \/ mqtt_suback_packet_handle(p.id, p.body) \/ mqtt_unsuback_packet_handle(p.id)
           \/ pingresp_packet_handle
  <2>1. Mute /\ (out' # NULL => out'.kind \notin {"PUBLISH", "PUBREL"})
    BY <1>7, MutePacket
  <2> QED
    BY <1>3, <1>4, <2>1, MuteHeld
<1> QED
  BY <1>1, <1>5, <1>6, <1>7 DEF Handle

\* A record is sent again under its own id.
LEMMA UsedResend ==
    ASSUME ListInv, TypeInv, ResendInv, TrackInv, WireInv, RepeatInv, Resend
    PROVE  InUse' \subseteq InUse \cup {0, packetId'}
<1>1. Wire(toClient) /\ toClient \in Rest(toClient) /\ bIds' = bIds
  BY DEF Resend, brokerVars, Rest
<1>2. HeldIds' \subseteq InUse
  <2>1. Mute
    BY MuteYield DEF Resend
  <2> QED
    BY <2>1, MuteHeld DEF InUse
<1>3. out' # NULL => out'.kind \notin {"PUBLISH", "PUBREL"} \/ out'.id \in InUse
  <2>1. CASE mqtt_try_resubscribe
    <3>1. PICK h : out' \in {NULL, Pkt("SUBSCRIBE", mqtt_get_next_packet_id, mem[h])}
      BY <2>1 DEF mqtt_try_resubscribe, mqtt_send_packet
    <3> QED
      BY <3>1, PktFresh
  <2>2. CASE mqtt_ack_handler_resend
    <3>1. PICK r \in todo : /\ out' \in {NULL, r.payload}
                            /\ r.type \in {"PUBACK", "PUBREC", "PUBREL", "PUBCOMP"}
      BY <2>2 DEF mqtt_ack_handler_resend, mqtt_send_packet
    <3>2. r \in acks /\ RepeatOK(r) /\ PayloadOK(r)
      BY DEF TypeInv, TypeOK, RepeatInv, ResendInv, PayloadShape
    <3>3. PICK q : q = r.payload
      OBVIOUS
    <3>4. CASE r.type = "PUBREL"
      <4>1. q = Pkt("PUBREC", BrokerId, NULL)
        BY <3>2, <3>3, <3>4, AckFields DEF RepeatOK
      <4>2. q.kind = "PUBREC"
        BY <4>1, PktFresh
      <4> QED
        BY <3>1, <3>3, <4>2
    <3>5. CASE r.type \in PubTypes
      <4>1. r.id \in InUse
        BY <3>2, <3>5 DEF InUse, HeldIds
      <4>2. q.id = r.id
        <5>1. CASE r.type \in {"PUBACK", "PUBREC"}
          BY <3>2, <3>3, <5>1 DEF PayloadOK
        <5>2. CASE r.type = "PUBCOMP"
          <6>1. q = Pkt("PUBREL", r.id, NULL)
            BY <3>2, <3>3, <5>2, AckFields DEF PayloadOK
          <6> QED
            BY <6>1, PktFresh
        <5> QED
          BY <3>5, <5>1, <5>2 DEF PubTypes
      <4> QED
        BY <3>1, <3>3, <4>1, <4>2
    <3> QED
      BY <3>1, <3>4, <3>5 DEF PubTypes
  <2> QED
    BY <2>1, <2>2 DEF Resend
<1> QED
  BY <1>1, <1>2, <1>3, UsedWire

\* The broker reads: it answers, and remembers, ids that were on their way.
LEMMA UsedBrokerRead ==
    ASSUME WireInv, BrokerRead
    PROVE  InUse' \subseteq InUse \cup {0, packetId'}
<1>0. PICK p : p = Head(toBroker)
  OBVIOUS
<1>1. /\ UNCHANGED vars /\ toBroker # <<>> /\ toBroker' = Tail(toBroker) /\ BrokerReceive(p)
  BY <1>0 DEF BrokerRead
<1>2. /\ toBroker' \in Rest(toBroker) /\ toClient \in Rest(toClient)
      /\ toBroker \in Seq(Outgoing) /\ toClient \in Seq(Incoming)
  BY <1>1 DEF Rest, WireInv
<1>3. HeldIds' = HeldIds
  BY <1>1 DEF HeldIds, Publishing, vars
<1>4. OnWay' \subseteq OnWay
  BY <1>2, RestNamed DEF OnWay
<1>5. ASSUME NEW kind, NEW id, NEW body, ReplyWith(kind, id, body)
      PROVE  /\ Told' \subseteq Told \cup {id}
             /\ kind \notin {"PUBACK", "PUBREC"} => Told' \subseteq Told
  <2>1. PICK q : q = Pkt(kind, id, body)
    OBVIOUS
  <2>2. q.kind = kind /\ q.id = id
    BY <2>1, PktFresh
  <2>3. toClient' = toClient \/ toClient' = Append(toClient, q)
    BY <1>5, <2>1 DEF ReplyWith
  <2>4. CASE toClient' = toClient
    BY <2>4 DEF Told
  <2>5. CASE toClient' = Append(toClient, q)
    BY <1>2, <2>2, <2>5, AppendNamed DEF Told
  <2> QED
    BY <2>3, <2>4, <2>5
<1>6. ASSUME NEW id, id \in OnWay, bIds' \subseteq bIds \cup {id}, Told' \subseteq Told \cup {id}
      PROVE  InUse' \subseteq InUse \cup {0, packetId'}
  BY <1>3, <1>4, <1>6 DEF InUse
<1>7. ASSUME bIds' \subseteq bIds, Told' \subseteq Told
      PROVE  InUse' \subseteq InUse \cup {0, packetId'}
  BY <1>3, <1>4, <1>7 DEF InUse
<1>8. CASE p.kind = "PUBLISH" /\ BrokerPublish(p)
  <2>1. p.id \in OnWay
    BY <1>0, <1>1, <1>2, <1>8, HeadNamed DEF OnWay
  <2>2. Told' \subseteq Told \cup {p.id}
    BY <1>5, <1>8 DEF BrokerPublish, Reply
  <2>3. bIds' \subseteq bIds \cup {p.id}
    BY <1>8 DEF BrokerPublish
  <2> QED
    BY <1>6, <2>1, <2>2, <2>3
<1>9. CASE p.kind = "PUBREL" /\ bIds' = bIds \ {p.id} /\ Reply("PUBCOMP", p.id)
  BY <1>5, <1>7, <1>9 DEF Reply
<1>10. CASE bIds' = bIds /\ \/ Reply("PUBREL", p.id) \/ Reply("PINGRESP", 0) \/ Reply("UNSUBACK", p.id)
                            \/ \E code \in SubCodes : ReplyWith("SUBACK", p.id, code)
  <2>1. Told' \subseteq Told
    BY <1>5, <1>10 DEF Reply
  <2> QED
    BY <1>7, <1>10, <2>1
<1>11. CASE UNCHANGED <<toClient, bIds>>
  BY <1>7, <1>11 DEF Told
<1> QED
  BY <1>1, <1>8, <1>9, <1>10, <1>11 DEF BrokerReceive

\* Every step of the system.
LEMMA UsedStep ==
    ASSUME ~CleanSession, ListInv, TypeInv, ResendInv, TrackInv, WireInv, RepeatInv,
           [SystemNext]_systemVars
    PROVE  InUse' \subseteq InUse \cup {0, packetId'}
<1>0. toClient \in Rest(toClient) /\ toBroker \in Rest(toBroker)
  BY DEF Rest
<1>1. ASSUME Mute, out' # NULL => out'.kind \notin {"PUBLISH", "PUBREL"}, Wire(toClient), bIds' = bIds
      PROVE  InUse' \subseteq InUse \cup {0, packetId'}
  <2>1. HeldIds' \subseteq InUse
    BY <1>1, MuteHeld DEF InUse
  <2> QED
    BY <1>0, <1>1, <2>1, UsedWire
<1>2. ASSUME Mute, bIds' = bIds, toBroker' \in Rest(toBroker), toClient' \in Rest(toClient)
      PROVE  InUse' \subseteq InUse \cup {0, packetId'}
  BY <1>2, MuteHeld, UsedQueues
<1>3. ASSUME Mute, Connected PROVE InUse' \subseteq InUse \cup {0, packetId'}
  <2>1. toBroker' = <<>> /\ toClient' = Resume /\ bIds' = bIds
    BY <1>3 DEF Connected
  <2>2. <<>> \in Rest(toClient) /\ toBroker' \in Rest(toBroker)
    BY <2>1 DEF Rest
  <2>3. \/ toClient' \in Rest(toClient)
        \/ \E p : p.kind \notin {"PUBACK", "PUBREC"} /\ \E r \in Rest(toClient) : toClient' = Append(r, p)
    <3>1. CASE bPhase = "idle"
      BY <2>1, <2>2, <3>1 DEF Resume
    <3>2. CASE bPhase = "ack"
      <4>1. PICK p : p = Publish(BrokerId, bQos[Len(bQos)], 1, Len(bQos))
        OBVIOUS
      <4>2. p.kind \notin {"PUBACK", "PUBREC"}
        BY <4>1 DEF Publish
      <4>3. toClient' = Append(<<>>, p)
        BY <2>1, <3>2, <4>1 DEF Resume
      <4> QED
        BY <2>2, <4>2, <4>3
    <3>3. CASE bPhase = "release"
      <4>1. PICK p : p = Pkt("PUBREL", BrokerId, NULL)
        OBVIOUS
      <4>2. p.kind \notin {"PUBACK", "PUBREC"}
        BY <4>1, PktFresh
      <4>3. toClient' = Append(<<>>, p)
        BY <2>1, <3>3, <4>1 DEF Resume
      <4> QED
        BY <2>2, <4>2, <4>3
    <3> QED
      BY <3>1, <3>2, <3>3 DEF WireInv
  <2> QED
    BY <1>3, <2>1, <2>2, <2>3, MuteHeld, UsedQueues
<1>4. CASE UNCHANGED systemVars \/ Cut
  <2>1. /\ UNCHANGED <<vars, bIds>>
        /\ toClient' \in {toClient, <<>>} /\ toBroker' \in {toBroker, <<>>}
    BY <1>4 DEF systemVars, Cut, brokerVars, wireVars
  <2>2. Mute
    BY <2>1, MuteRecords DEF vars
  <2>3. toClient' \in Rest(toClient) /\ toBroker' \in Rest(toBroker)
    BY <2>1 DEF Rest
  <2> QED
    BY <1>2, <2>1, <2>2, <2>3
<1>5. CASE Reconnect
  <2>1. Mute
    BY <1>5, MuteYield DEF Reconnect
  <2>2. /\ toClient' \in Rest(toClient) /\ toBroker' \in Rest(toBroker) /\ bIds' = bIds
    BY <1>5 DEF Reconnect, Rest, brokerVars
  <2> QED
    BY <1>2, <2>1, <2>2
<1>6. CASE Read
  BY <1>6, UsedRead
<1>7. CASE ReadNothing \/ Deliver \/ Other
  <2>1. Mute
    BY <1>7, MuteYield DEF ReadNothing, Deliver, Other
  <2>2. Wire(toClient) /\ bIds' = bIds
    BY <1>7 DEF ReadNothing, Deliver, Other, brokerVars
  <2>3. out' = NULL
    BY <1>7 DEF ReadNothing, Deliver, Other, nothing_read, mqtt_deliver_message, mqtt_keep_alive_drop, mqtt_ack_list_scan_destroy,
       mqtt_ack_list_scan_end, mqtt_reconnect_done, mqtt_resubscribed
  <2> QED
    BY <1>1, <2>1, <2>2, <2>3
<1>8. CASE KeepAlive
  <2>1. Mute
    BY <1>8, MuteYield DEF KeepAlive
  <2>2. out' # NULL => out'.kind \notin {"PUBLISH", "PUBREL"}
    BY <1>8, PktFresh DEF KeepAlive, mqtt_keep_alive, mqtt_send_packet
  <2>3. Wire(toClient) /\ bIds' = bIds
    BY <1>8 DEF KeepAlive, brokerVars
  <2> QED
    BY <1>1, <2>1, <2>2, <2>3
<1>9. CASE Resend
  BY <1>9, UsedResend
<1>10. CASE Handshake
  <2>1. Mute
    BY <1>10, MuteYield DEF Handshake
  <2>2. CASE Connected
    BY <1>3, <2>1, <2>2
  <2>3. CASE toClient' = <<>> /\ UNCHANGED <<toBroker, brokerVars>>
    <3>1. toClient' \in Rest(toClient) /\ toBroker' \in Rest(toBroker) /\ bIds' = bIds
      BY <2>3 DEF Rest, brokerVars
    <3> QED
      BY <1>2, <2>1, <3>1
  <2> QED
    BY <1>10, <2>2, <2>3 DEF Handshake
<1>11. CASE BrokerRead
  BY <1>11, UsedBrokerRead
<1>12. CASE BrokerSend
  <2>1. UNCHANGED <<vars, toBroker, bIds>>
    BY <1>12 DEF BrokerSend
  <2>2. Mute
    BY <2>1, MuteRecords DEF vars
  <2>3. PICK q \in InQos \ {0} : toClient' = Append(toClient, Publish(BrokerId, q, 0, Len(bQos) + 1))
    BY <1>12 DEF BrokerSend
  <2>4. PICK p : p = Publish(BrokerId, q, 0, Len(bQos) + 1)
    OBVIOUS
  <2>5. p.kind \notin {"PUBACK", "PUBREC"}
    BY <2>4 DEF Publish
  <2>6. \E a : a.kind \notin {"PUBACK", "PUBREC"} /\ \E r \in Rest(toClient) : toClient' = Append(r, a)
    BY <1>0, <2>3, <2>4, <2>5
  <2> QED
    BY <1>0, <2>1, <2>2, <2>6, MuteHeld, UsedQueues
<1>13. ASSUME NEW i \in Users, Connect(i) PROVE InUse' \subseteq InUse \cup {0, packetId'}
  <2>1. Mute
    BY <1>13, MuteCall DEF Connect
  <2>2. CASE Connected
    BY <1>3, <2>1, <2>2
  <2>3. CASE UNCHANGED <<wireVars, brokerVars>>
    BY <1>0, <1>2, <2>1, <2>3 DEF wireVars, brokerVars
  <2> QED
    BY <1>13, <2>2, <2>3 DEF Connect
<1>14. ASSUME NEW i \in Users, Ask(i) PROVE InUse' \subseteq InUse \cup {0, packetId'}
  <2>1. PICK p : CheckConnected(i, p)
    BY <1>14 DEF Ask, mqtt_publish
  <2>2. acks' = acks /\ u' = [u EXCEPT ![i] = At("send", p)] /\ UNCHANGED <<toBroker, toClient, bIds>>
    BY <1>14, <2>1 DEF Ask, CheckConnected, ackVars, wireVars, brokerVars
  <2>3. u \in [Users -> Calls] /\ At("send", p).pc = "send"
    BY DEF TypeInv, CallShape, At
  <2>4. u'[i].pc = "send" /\ \A j \in Users \ {i} : u'[j] = u[j]
    BY <2>2, <2>3
  <2>5. \A j \in Users : Publishing(j)' => Publishing(j) /\ u'[j] = u[j]
    BY <2>4 DEF Publishing
  <2>6. HeldIds' \subseteq HeldIds
    BY <2>2, <2>5 DEF HeldIds
  <2> QED
    BY <1>0, <2>2, <2>6, UsedQueues
<1>15. ASSUME NEW i \in Users, AskTopic(i) PROVE InUse' \subseteq InUse \cup {0, packetId'}
  <2>1. Mute
    BY <1>15, MuteCall DEF AskTopic
  <2>2. UNCHANGED <<wireVars, brokerVars>>
    BY <1>15 DEF AskTopic
  <2> QED
    BY <1>0, <1>2, <2>1, <2>2 DEF wireVars, brokerVars
<1>16. ASSUME NEW i \in Users, InCall(i) PROVE InUse' \subseteq InUse \cup {0, packetId'}
  <2>1. Wire(toClient) /\ bIds' = bIds
    BY <1>16 DEF InCall, brokerVars
  <2>2. CASE mqtt_publish_send(i)
    BY <2>1, <2>2, UsedSend
  <2>3. CASE mqtt_publish_record(i)
    <3>1. HeldIds' \subseteq InUse /\ out' = NULL
      BY <2>3, UsedRecord DEF InUse
    <3> QED
      BY <1>0, <2>1, <3>1, UsedWire
  <2>4. CASE \/ mqtt_request_send(i) \/ mqtt_subscribe_record(i) \/ mqtt_unsubscribe_record(i)
             \/ mqtt_publish_release(i) \/ mqtt_publish_disconnected(i)
    <3>1. Mute
      BY <2>4, MuteCall
    <3>2. out' # NULL => out'.kind \notin {"PUBLISH", "PUBREL"}
      <4>1. CASE mqtt_request_send(i)
        BY <4>1 DEF mqtt_request_send, mqtt_send_packet, WithId
      <4>2. CASE ~mqtt_request_send(i)
        BY <2>4, <4>2 DEF mqtt_subscribe_record, mqtt_unsubscribe_record, mqtt_publish_release,
           mqtt_publish_disconnected
      <4> QED
        BY <4>1, <4>2
    <3> QED
      BY <1>1, <2>1, <3>1, <3>2
  <2> QED
    BY <1>16, <2>2, <2>3, <2>4 DEF InCall
<1> QED
  BY <1>4, <1>5, <1>6, <1>7, <1>8, <1>9, <1>10, <1>11, <1>12, <1>13, <1>14, <1>15, <1>16
     DEF SystemNext, YieldThread

\* No id is in use at the start.
LEMMA UsedInit == SystemInit => UsedInv
<1> SUFFICES ASSUME SystemInit PROVE UsedInv
    OBVIOUS
<1> USE DEF SystemInit, Init
<1>1. \A i \in Users : ~Publishing(i)
  BY DEF Idle, At, Publishing
<1>2. HeldIds = {}
  BY <1>1 DEF HeldIds
<1>3. OnWay = {} /\ Told = {}
  BY DEF OnWay, Told, Named, Of
<1> QED
  BY <1>2, <1>3 DEF UsedInv, InUse

\* The next id is beyond them.
LEMMA UsedFree == ASSUME TypeInv, NoWrap, UsedInv PROVE IdFree
<1>1. packetId \in Nat /\ mqtt_get_next_packet_id = packetId + 1
  BY MaxPacketIdAssumption DEF TypeInv, TypeOK, NoWrap, mqtt_get_next_packet_id
<1>2. packetId + 1 \notin 0..packetId
  BY <1>1
<1>3. mqtt_get_next_packet_id \notin InUse
  BY <1>1, <1>2 DEF UsedInv
<1>4. \A r \in acks : r.type \in PubTypes => r.id \in InUse
  BY DEF InUse, HeldIds
<1> QED
  BY <1>3, <1>4 DEF IdFree, PubTypes, InUse, OnWay, Told

\* Until all MaxPacketId ids have been used, no id that mqtt_publish takes is
\* still in use for another message, anywhere: in a record of the client, on its
\* way in either direction or with the broker.  What OutboundCorrect asks of ids
\* is so about each of the first MaxPacketId - 1 of them.
THEOREM IdsStayFree ==
    ASSUME ~AllocMayFail, ~CleanSession
    PROVE  SystemSpec /\ []NoWrap => []IdFree
<1>1. SystemInit => Init
  BY DEF SystemInit
<1>2. InInv /\ [SystemNext]_systemVars => [Next]_vars
  BY ClientStep DEF InInv, ExInv
<1>3. TypeInv /\ InInv /\ [SystemNext]_systemVars => InInv'
  BY InStep
<1>4. TypeInv /\ ResendInv /\ TrackInv /\ [Next]_vars => TrackInv'
  BY TrackStep
<1>5. SystemInit => InInv
  BY InboundInit
<1>6. /\ NoWrap /\ ListInv /\ TypeInv /\ ResendInv /\ TrackInv /\ InInv /\ UsedInv
      /\ [SystemNext]_systemVars
      => UsedInv'
  <2> SUFFICES ASSUME NoWrap, ListInv, TypeInv, ResendInv, TrackInv, InInv, UsedInv,
                      [SystemNext]_systemVars
               PROVE  UsedInv'
    OBVIOUS
  <2>1. [Next]_vars
    BY <1>2
  <2>2. InUse' \subseteq InUse \cup {0, packetId'}
    BY UsedStep DEF InInv, ExInv
  <2> QED
    BY <2>1, <2>2, UsedWithin
<1>7. TypeInv /\ NoWrap /\ UsedInv => IdFree
  BY UsedFree
<1> QED
  BY <1>1, <1>2, <1>3, <1>4, <1>5, <1>6, <1>7, ListInit, ListStep, TypeInit, TypeStep, WindowInit,
     WindowStep, ResendInit, ResendStep, TrackInit, UsedInit, PTL DEF SystemSpec
=============================================================================
