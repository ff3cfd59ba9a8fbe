----------------------------- MODULE MqttSystem -----------------------------
(***************************************************************************)
(* The client of MqttClient and a broker that follows MQTT 3.1.1, joined   *)
(* by a connection that keeps the order of packets and may fail.           *)
(*                                                                         *)
(* A fault is a connection that dies without notice, a send that fails, a  *)
(* connect that fails or a timer that expires although the answer is on    *)
(* its way.  There are at most MaxFaults of them; without a fault, timers  *)
(* expire only when no packet is under way, which is when time passes.     *)
(* Behaviours in which the client runs into undefined behaviour (a late    *)
(* UNSUBACK, c:1094, read as anything but NULL) are left out.              *)
(***************************************************************************)
EXTENDS MqttClient, Sequences

CONSTANTS
    BrokerMsgs,    \* most messages the broker sends, one after the other
    MaxExchanges,  \* bound on messages, both ways, and (un)subscribes together
    MaxRequests,   \* bound on subscribes and unsubscribes without messages
    MaxFaults,     \* bound on faults
    CleanSession   \* c->mqtt_clean_session

ASSUME SystemAssumption ==
    {BrokerMsgs, MaxExchanges, MaxRequests, MaxFaults} \subseteq Nat /\ CleanSession \in BOOLEAN

VARIABLES
    toBroker,   \* packets under way to the broker
    toClient,   \* packets under way to the client
    link,       \* the connection: none (no CONNECT yet), open or dead
    faults,     \* faults so far
    bIds,       \* broker: QoS 2 ids received and not released
    bQos,       \* broker: QoS of each message it has started to send
    bSubs,      \* broker: topic filters subscribed in this session
    bPhase,     \* broker: what it awaits for the last of them
    asked,      \* history: QoS of the mqtt_publish call of a message, 0 before
    requests,   \* history: subscribes and unsubscribes called so far
    accepted,   \* history: messages that were recorded
    got,        \* history: how often the broker passed a message on
    hand,       \* the broker's message mqtt_deliver_message is called with, or 0
    rcvd        \* history: how often the client delivered a message of the broker

wireVars == <<toBroker, toClient, link>>
brokerVars == <<bIds, bQos, bPhase, bSubs, got>>
callVars == <<asked, requests>>
systemVars == <<vars, wireVars, faults, brokerVars, callVars, accepted, hand, rcvd>>

SystemInit ==
    /\ Init
    /\ toBroker = <<>> /\ toClient = <<>> /\ link = "dead" /\ faults = 0
    /\ bIds = {} /\ bQos = <<>> /\ bPhase = "idle" /\ bSubs = {} /\ requests = 0
    /\ asked = [m \in Msgs |-> 0] /\ accepted = {}
    /\ got = [m \in Msgs |-> 0] /\ hand = 0 /\ rcvd = [n \in 1..BrokerMsgs |-> 0]

-----------------------------------------------------------------------------
(* The connection.                                                         *)

Fault == faults < MaxFaults /\ faults' = faults + 1
FaultUnless(ok) == IF ok THEN UNCHANGED faults ELSE Fault

Started == Cardinality({m \in Msgs : asked[m] # 0}) + Len(bQos) + requests

Quiet == toBroker = <<>> /\ toClient = <<>>

\* A step of the client: what it sent goes to the broker, unread is what it
\* left.  A broker that gets another packet before CONNECT closes the connection.
Wire(unread) ==
    /\ toClient' = IF net' = "up" THEN unread ELSE <<>>
    /\ toBroker' = IF out' # NULL /\ link = "open" THEN Append(toBroker, out') ELSE toBroker
    /\ link' = IF out' # NULL /\ link = "none" THEN "dead" ELSE link
    /\ accepted' = accepted \cup {f.msg : f \in inflight'}

\* The connection dies and neither side is told.
Cut ==
    /\ link = "open"
    /\ Fault
    /\ link' = "dead" /\ toBroker' = <<>> /\ toClient' = <<>>
    /\ UNCHANGED <<vars, brokerVars, callVars, accepted, hand, rcvd>>

-----------------------------------------------------------------------------
(* The broker.                                                             *)

BrokerId == 1   \* the one packet id it uses, again for every message

\* What a broker sends first on a connection of a session it knows.
Resume ==
    CASE bPhase = "idle"    -> <<>>
      [] bPhase = "ack"     -> <<Publish(BrokerId, bQos[Len(bQos)], 1, Len(bQos))>>
      [] bPhase = "release" -> <<Pkt("PUBREL", BrokerId, NULL)>>

\* CONNECT arrives and CONNACK is awaited by the client; without its old
\* session the broker starts anew.
Connected ==
    /\ link' = "open" /\ toBroker' = <<>>
    /\ toClient' = IF CleanSession THEN <<>> ELSE Resume
    /\ bIds' = IF CleanSession THEN {} ELSE bIds
    /\ bPhase' = IF CleanSession THEN "idle" ELSE bPhase
    /\ bSubs' = IF CleanSession THEN {} ELSE bSubs
    /\ UNCHANGED <<bQos, got, callVars, accepted, hand, rcvd>>

ReplyWith(kind, id, body) ==
    toClient' = IF net = "up" THEN Append(toClient, Pkt(kind, id, body)) ELSE toClient
Reply(kind, id) == ReplyWith(kind, id, NULL)

PassOn(m) == got' = [got EXCEPT ![m] = IF @ = 2 THEN 2 ELSE @ + 1]

BrokerPublish(p) ==
    \/ p.qos = 1 /\ PassOn(p.body) /\ Reply("PUBACK", p.id) /\ UNCHANGED bIds
    \/ /\ p.qos = 2 /\ Reply("PUBREC", p.id)
       /\ bIds' = bIds \cup {p.id}
       /\ IF p.id \in bIds THEN UNCHANGED got ELSE PassOn(p.body)

\* The answer that ends what the broker awaits.
Ends(p) == <<p.kind, bPhase>> \in {<<"PUBACK", "ack">>, <<"PUBCOMP", "release">>}

BrokerReceive(p) ==
    \/ /\ p.kind = "PUBLISH"
       /\ BrokerPublish(p)
       /\ UNCHANGED <<bPhase, bSubs>>
    \/ /\ p.kind = "PUBREL"
       /\ bIds' = bIds \ {p.id}
       /\ Reply("PUBCOMP", p.id)
       /\ UNCHANGED <<got, bPhase, bSubs>>
    \/ /\ p.kind = "PUBREC" /\ bPhase # "idle"
       /\ bPhase' = "release"
       /\ Reply("PUBREL", p.id)
       /\ UNCHANGED <<got, bIds, bSubs>>
    \/ /\ Ends(p)
       /\ bPhase' = "idle"
       /\ UNCHANGED <<toClient, got, bIds, bSubs>>
    \/ /\ \/ p.kind = "PUBREC" /\ bPhase = "idle"
          \/ p.kind \in {"PUBACK", "PUBCOMP"} /\ ~Ends(p)
       /\ UNCHANGED <<toClient, got, bIds, bPhase, bSubs>>
    \/ /\ p.kind = "PINGREQ"
       /\ Reply("PINGRESP", 0)
       /\ UNCHANGED <<got, bIds, bPhase, bSubs>>
    \/ /\ p.kind = "SUBSCRIBE"
       /\ \E code \in SubCodes :
             /\ ReplyWith("SUBACK", p.id, code)
             /\ bSubs' = IF code = SUBFAIL THEN bSubs ELSE bSubs \cup {p.body}
       /\ UNCHANGED <<got, bIds, bPhase>>
    \/ /\ p.kind = "UNSUBSCRIBE"
       /\ Reply("UNSUBACK", p.id)
       /\ bSubs' = bSubs \ {p.body}
       /\ UNCHANGED <<got, bIds, bPhase>>

\* The broker reads on after the client has closed its side.
BrokerRead ==
    /\ link = "open" /\ toBroker # <<>>
    /\ BrokerReceive(Head(toBroker))
    /\ toBroker' = Tail(toBroker)
    /\ UNCHANGED <<vars, link, faults, bQos, callVars, accepted, hand, rcvd>>

BrokerSend ==
    /\ link = "open" /\ net = "up"
    /\ bPhase = "idle" /\ Len(bQos) < BrokerMsgs /\ Started < MaxExchanges
    /\ \E q \in InQos \ {0} :
          /\ bQos' = Append(bQos, q)
          /\ toClient' = Append(toClient, Publish(BrokerId, q, 0, Len(bQos) + 1))
    /\ bPhase' = "ack"
    /\ UNCHANGED <<vars, toBroker, link, faults, bIds, bSubs, got, callVars, accepted, hand, rcvd>>

-----------------------------------------------------------------------------
(* The client's steps on this connection.                                  *)

\* An application that connects, publishes each message once and stays.
Connect(i) ==
    /\ mqtt_connect(i)
    /\ \/ y' = "loop" /\ UNCHANGED faults /\ Connected
       \/ y' = "off" /\ Fault /\ UNCHANGED <<wireVars, brokerVars, callVars, accepted, hand, rcvd>>

Ask(i) ==
    /\ Started < MaxExchanges
    /\ mqtt_publish(i)
    /\ LET p == u'[i].pkt
       IN  asked[p.body] = 0 /\ asked' = [asked EXCEPT ![p.body] = p.qos]
    /\ UNCHANGED <<wireVars, faults, brokerVars, requests, accepted, hand, rcvd>>

\* It unsubscribes from topics whose handler is installed.
AskTopic(i) ==
    /\ Started < IF Started = requests THEN MaxRequests ELSE MaxExchanges
    /\ \/ mqtt_subscribe(i)
       \/ mqtt_unsubscribe(i) /\ Installed(u'[i].pkt.body) # {}
    /\ requests' = requests + 1
    /\ UNCHANGED <<wireVars, faults, brokerVars, asked, accepted, hand, rcvd>>

InCall(i) ==
    /\ \/ mqtt_request_send(i) \/ mqtt_subscribe_record(i) \/ mqtt_unsubscribe_record(i)
       \/ mqtt_publish_send(i) \/ mqtt_publish_record(i)
       \/ mqtt_publish_release(i) \/ mqtt_publish_disconnected(i)
    /\ Wire(toClient)
    /\ UNCHANGED <<faults, brokerVars, callVars, hand, rcvd>>

Handle(p) ==
    \/ p.kind \in {"PUBACK", "PUBCOMP"} /\ mqtt_puback_and_pubcomp_packet_handle(p.kind, p.id)
    \/ p.kind = "PUBREC" /\ mqtt_pubrec_packet_handle(p.id)
    \/ p.kind = "PUBREL" /\ \E ok \in BOOLEAN : mqtt_pubrel_packet_handle(p.id, ok)
    \/ p.kind = "PUBLISH" /\ \E ok \in BOOLEAN : mqtt_publish_packet_handle(p.id, p.qos, ok)
    \/ p.kind = "SUBACK" /\ mqtt_suback_packet_handle(p.id, p.body)
    \/ p.kind = "UNSUBACK" /\ mqtt_unsuback_packet_handle(p.id)
    \/ p.kind = "PINGRESP" /\ pingresp_packet_handle

\* Whether handling p sends a packet.
Answers(p) == \/ p.kind \in {"PUBREL", "PUBLISH"}
              \/ p.kind = "PUBREC" /\ ~mqtt_ack_list_node_is_exist("PUBCOMP", p.id)

Read ==
    /\ toClient # <<>>
    /\ LET p == Head(toClient)
       IN  /\ Handle(p) /\ ub' = "none"
           /\ FaultUnless(Answers(p) => out' # NULL)
           /\ hand' = IF y' = "deliver" THEN p.body ELSE hand
    /\ Wire(Tail(toClient))
    /\ UNCHANGED <<brokerVars, callVars, rcvd>>

\* The application has set the interceptor, or a handler that matches every
\* message of the broker: otherwise mqtt_deliver_message drops the message.
Deliver ==
    /\ mqtt_deliver_message
    /\ rcvd' = [rcvd EXCEPT ![hand] = IF @ = 2 THEN 2 ELSE @ + 1]
    /\ hand' = 0
    /\ Wire(toClient)
    /\ UNCHANGED <<faults, brokerVars, callVars>>

\* Packets under way arrive before the read timer expires; one that is slow is
\* one the broker is slow to send.
ReadNothing ==
    /\ toClient = <<>> /\ nothing_read
    /\ Wire(toClient)
    /\ UNCHANGED <<faults, brokerVars, callVars, hand, rcvd>>

\* Timers in mqtt_keep_alive and the scan after it: when nothing is under way
\* they all expire, otherwise none does.
Timely ==
    \/ state # "CONNECTED"
    \/ ~Quiet /\ ping' = ping /\ y' # "drop" /\ todo' = {}
    \/ Quiet /\ y' = "drop"
    \/ /\ Quiet /\ ping = 0 /\ ping' = 1
       /\ net = "up" => out' # NULL /\ todo' = acks

\* All records have the same timeout, and those of requests are never started
\* again: they expire in the order in which they were made, which is that of
\* their ids.
Requests(S) == {r \in S : r.type \in {"SUBACK", "UNSUBACK"}}
InOrder == \A r \in Requests(todo'), s \in Requests(acks) : s.id < r.id => s \in todo'

KeepAlive ==
    /\ mqtt_keep_alive
    /\ InOrder
    /\ FaultUnless(Timely)
    /\ Wire(toClient)
    /\ UNCHANGED <<brokerVars, callVars, hand, rcvd>>

Resend ==
    /\ \/ mqtt_ack_handler_resend /\ FaultUnless(net = "up" => out' # NULL)
       \/ /\ mqtt_try_resubscribe
          /\ FaultUnless(net = "up" /\ state = "CONNECTED" => out' # NULL)
    /\ Wire(toClient)
    /\ UNCHANGED <<brokerVars, callVars, hand, rcvd>>

Other ==
    /\ \/ mqtt_keep_alive_drop \/ mqtt_ack_list_scan_destroy \/ mqtt_ack_list_scan_end
       \/ mqtt_reconnect_done \/ mqtt_resubscribed
    /\ ub' = "none"
    /\ Wire(toClient)
    /\ UNCHANGED <<faults, brokerVars, callVars, hand, rcvd>>

Reconnect ==
    /\ mqtt_try_reconnect
    /\ FaultUnless(net' = "up")
    /\ IF net' = "up" THEN link' = "none" /\ toBroker' = <<>> ELSE UNCHANGED <<link, toBroker>>
    /\ toClient' = <<>>
    /\ UNCHANGED <<brokerVars, callVars, accepted, hand, rcvd>>

Handshake ==
    /\ mqtt_reconnect_handshake
    /\ \/ y' = "connected" /\ link = "none" /\ UNCHANGED faults /\ Connected
       \/ /\ y' = "loop"
          /\ FaultUnless(link # "none" \/ net = "down")
          /\ link' = "dead" /\ toClient' = <<>>
          /\ UNCHANGED <<toBroker, brokerVars, callVars, accepted, hand, rcvd>>

YieldThread ==
    \/ Read \/ Deliver \/ ReadNothing \/ KeepAlive \/ Resend \/ Other
    \/ Reconnect \/ Handshake

SystemNext ==
    \/ YieldThread
    \/ BrokerRead \/ BrokerSend \/ Cut
    \/ \E i \in Users : Connect(i) \/ Ask(i) \/ AskTopic(i) \/ InCall(i)

\* Both threads and the broker run; nothing makes the application call.
SystemSpec ==
    /\ SystemInit /\ [][SystemNext]_systemVars
    /\ WF_systemVars(YieldThread)
    /\ WF_systemVars(BrokerRead)
    /\ \A i \in Users : WF_systemVars(InCall(i))

-----------------------------------------------------------------------------
(* Properties.                                                             *)

Confirmed == {m \in accepted : \A f \in inflight : f.msg # m}

Out == INSTANCE Delivery WITH
    Messages <- Msgs, level <- asked, confirmed <- Confirmed

\* Every message mqtt_publish recorded reaches the subscribers of the broker,
\* at QoS 2 exactly once, and is then forgotten: through acknowledgements that
\* arrive before the record, timeouts that repeat what is on its way, half of
\* an exchange lost with its connection, and replay after a reconnect.
OutboundDelivery == Out!Spec

BrokerDone == IF bPhase = "idle" THEN Len(bQos) ELSE Len(bQos) - 1

In == INSTANCE Delivery WITH
    Messages <- 1..BrokerMsgs,
    level <- [n \in 1..BrokerMsgs |-> IF n <= Len(bQos) THEN bQos[n] ELSE 0],
    accepted <- 1..Len(bQos), got <- rcvd, confirmed <- (1..BrokerDone) \ {hand}

\* The broker forgets a message only when the application got it, or its
\* PUBACK left the client just before and mqtt_deliver_message is running with
\* it; at QoS 2 the application gets it exactly once, also when the broker uses
\* the packet id again for the next message.  Without liveness: a PUBACK or
\* PUBREC that fails to be sent drops the message until the broker repeats it
\* on a new connection.
InboundDelivery == In!SafeSpec

\* A connection that died without notice is given up by mqtt_keep_alive, and
\* mqtt_try_reconnect opens a session again.
SessionResumes == (y # "off" /\ link # "open") ~> link = "open"

\* A call or a record that will remove the handler of topic t.
Leaving(t) ==
    \/ \E r \in acks : r.type = "UNSUBACK" /\ mem[r.handler] = t
    \/ \E i \in Users : u[i].pc = "record" /\ u[i].pkt = Pkt("UNSUBSCRIBE", u[i].pkt.id, t)

\* A message handler is installed only while the broker has the subscription,
\* or the handler is about to go: the application never waits for messages
\* that nobody will send.
HandlersHeard == \A h \in installed : mem[h] \in bSubs \/ Leaving(mem[h])
=============================================================================
