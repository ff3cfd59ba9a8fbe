----------------------------- MODULE MqttClient -----------------------------
(***************************************************************************)
(* The protocol engine of mqttclient.c: the ack list, the message-handler  *)
(* list, the application calls that fill them and the yield thread that    *)
(* empties them.                                                           *)
(*                                                                         *)
(* Two kinds of threads run.  Application threads i \in Users call         *)
(* mqtt_publish, mqtt_subscribe, mqtt_unsubscribe and mqtt_disconnect; the *)
(* yield thread reads packets, keeps the connection alive, scans the ack   *)
(* list and reconnects.  A step of the model is the code a thread runs     *)
(* between two points at which another thread can see or change what it    *)
(* uses: an application call is its state check, then lock-and-send, then  *)
(* record-and-unlock.  The broker is not constrained: any acknowledgement  *)
(* and any PUBLISH may arrive whenever the socket is readable.             *)
(***************************************************************************)
EXTENDS Integers, FiniteSets

CONSTANTS
    Users,            \* application threads
    Topics,           \* topic filters the application subscribes to
    Handlers,         \* addresses malloc can return for a message_handlers_t
    Msgs,             \* payloads the application publishes
    PubQos,           \* QoS levels the application publishes with
    InQos,            \* QoS levels of the PUBLISH packets that arrive
    SubCodes,         \* return codes a SUBACK can carry, as bytes
    MaxPacketId,      \* MQTT_MAX_PACKET_ID
    AckMax,           \* MQTT_ACK_HANDLER_NUM_MAX
    CharSigned,       \* whether the build's plain char is signed
    AllocMayFail,     \* whether malloc may fail while memory is left
    OverlappingUnsub, \* whether unsubscribes of one topic may overlap
    NULL

ASSUME UsersAssumption == NULL \notin Users
ASSUME HandlersAssumption == NULL \notin Handlers /\ IsFiniteSet(Handlers)
ASSUME NamesAssumption == NULL \notin Topics /\ NULL \notin Msgs
ASSUME QosAssumption == PubQos \subseteq 0..2 /\ InQos \subseteq 0..2
ASSUME SubCodesAssumption == SubCodes \subseteq 0..255
ASSUME MaxPacketIdAssumption == MaxPacketId \in Nat \ {0}
ASSUME AckMaxAssumption == AckMax \in Nat \ {0}
ASSUME FlagsAssumption ==
    CharSigned \in BOOLEAN /\ AllocMayFail \in BOOLEAN /\ OverlappingUnsub \in BOOLEAN

VARIABLES
    state,      \* c->mqtt_client_state
    net,        \* whether c->mqtt_network holds an open connection
    ping,       \* c->mqtt_ping_outstanding
    packetId,   \* c->mqtt_packet_id
    acks,       \* c->mqtt_ack_handler_list, as the set of its records
    ackNum,     \* c->mqtt_ack_handler_number
    mem,        \* the heap of message handlers: the topic filter at an address, or NULL
    installed,  \* c->mqtt_msg_handler_list, as the set of its addresses
    u,          \* the call each application thread is in
    y,          \* where the yield thread is
    todo,       \* records the running mqtt_ack_list_scan has still to visit
    resub,      \* handlers the running mqtt_try_resubscribe has still to visit
    out,        \* the packet this step put on the connection, or NULL
    ub,         \* undefined behaviour executed so far
    inflight,   \* history: QoS 1/2 messages accepted and not yet acknowledged
    del2,       \* history: QoS 2 messages of each id delivered since its last PUBREL
    early,      \* history: publications acknowledged between their send and their record
    refused     \* history: handlers whose SUBACK carried the failure code

connVars == <<state, net, ping>>
ackVars == <<acks, ackNum>>
handlerVars == <<mem, installed, refused>>
yieldVars == <<y, todo, resub>>
qosVars == <<inflight, del2, early>>
vars == <<state, net, ping, packetId, acks, ackNum, mem, installed, u, y, todo,
          resub, out, ub, inflight, del2, early, refused>>

-----------------------------------------------------------------------------
(* Data.                                                                   *)

Ids == 1..MaxPacketId

\* client_state_t
States == {"INVALID", "INITIALIZED", "CONNECTED", "DISCONNECTED", "CLEAN_SESSION"}

\* The acknowledgements a record can wait for.
AckTypes == {"PUBACK", "PUBREC", "PUBREL", "PUBCOMP", "SUBACK", "UNSUBACK"}

Kinds == {"PUBLISH", "PUBACK", "PUBREC", "PUBREL", "PUBCOMP", "SUBSCRIBE",
          "UNSUBSCRIBE", "PINGREQ", "CONNECT", "DISCONNECT"}

Packets == [kind : Kinds, id : 0..MaxPacketId, qos : 0..2, dup : 0..1,
            body : Topics \cup Msgs \cup {NULL}]

ASSUME PacketsAssumption == NULL \notin Packets

Pkt(kind, id, body) == [kind |-> kind, id |-> id, qos |-> 0, dup |-> 0, body |-> body]

Publish(id, qos, dup, msg) ==
    [kind |-> "PUBLISH", id |-> id, qos |-> qos, dup |-> dup, body |-> msg]

\* ack_handlers_t: the reply awaited, its packet id, the handler it concerns
\* and the packet to send again.
AckRecords == [type : AckTypes, id : Ids, handler : Handlers \cup {NULL}, payload : Packets]

Ack(type, id, handler, payload) ==
    [type |-> type, id |-> id, handler |-> handler, payload |-> payload]

WithId(p, id) == [kind |-> p.kind, id |-> id, qos |-> p.qos, dup |-> p.dup, body |-> p.body]

\* mqtt_set_publish_dup(c, 1) on the packet in the write buffer.
WithDup(p) == [kind |-> p.kind, id |-> p.id, qos |-> p.qos, dup |-> 1, body |-> p.body]

\* An application thread at a point of a call, with the packet of the call.
At(pc, p) == [pc |-> pc, pkt |-> p]

Idle == At("idle", Pkt("DISCONNECT", 0, NULL))

Calls == [pc : {"idle", "send", "record", "failed", "released", "disconnected"},
          pkt : Packets]

\* A QoS 1/2 publication; released once its PUBREC has been processed.
Flows == [id : Ids, qos : 1..2, msg : Msgs, released : BOOLEAN]

Released(f) == [id |-> f.id, qos |-> f.qos, msg |-> f.msg, released |-> TRUE]

Flow(p) == [id |-> p.id, qos |-> p.qos, msg |-> p.body, released |-> FALSE]

-----------------------------------------------------------------------------
(* Helpers.                                                                *)

\* The write lock is held from the send of a call to its record, and by the
\* yield thread from CONNACK to the update of the state; every other critical
\* section is a single step.
Mutant_WriteLockFree == y # "connected"   \* mqtt_publish without the lock
WriteLockFree == (\A i \in Users : u[i].pc # "record") /\ y # "connected"

Mutant_next_packet_id == packetId + 1     \* no wrap-around
mqtt_get_next_packet_id == IF packetId = MaxPacketId THEN 1 ELSE packetId + 1

mqtt_ack_handler_is_maximum == ackNum >= AckMax

\* mqtt_subtract_ack_handler_num, k times.
Mutant_Subtract(n, k) == n                \* the decrement forgotten
Subtract(n, k) == IF n <= k THEN 0 ELSE n - k

Mutant_Matching(type, id) == {r \in acks : r.type = type}   \* the id not compared
Matching(type, id) == {r \in acks : r.type = type /\ r.id = id}

Mutant_node_is_exist(type, id) == FALSE   \* duplicates not detected
mqtt_ack_list_node_is_exist(type, id) == Matching(type, id) # {}

mqtt_ack_list_record(r) == /\ acks' = acks \cup {r}
                           /\ ackNum' = ackNum + 1

\* The record is left on the list.
Mutant_unrecord(type, id) == UNCHANGED <<acks, ackNum>>
mqtt_ack_list_unrecord(type, id) ==
    /\ acks' = acks \ Matching(type, id)
    /\ ackNum' = Subtract(ackNum, Cardinality(Matching(type, id)))

\* Outcomes of the allocation of an ack record, and of a message handler.
AckAlloc == IF AllocMayFail THEN BOOLEAN ELSE {TRUE}
Free == {h \in Handlers : mem[h] = NULL}
HandlerAlloc == Free \cup (IF AllocMayFail \/ Free = {} THEN {NULL} ELSE {})

\* mqtt_send_packet: when the write succeeds (ok) the packet is on the
\* connection if there is one; a write to the stale descriptor of a released
\* network_t may succeed too, and reaches no broker.
mqtt_send_packet(p, ok) == out' = IF ok /\ net = "up" THEN p ELSE NULL

\* mqtt_get_msg_handler as mqtt_unsubscribe uses it: an exact topic match.
Installed(t) == {h \in installed : mem[h] = t}

\* The handler h is unlinked and freed; a second time, memory is used after free.
\* The handler is freed without being unlinked.
Mutant_handler_destory(h) ==
    /\ mem' = [mem EXCEPT ![h] = NULL]
    /\ UNCHANGED <<installed, refused, ub>>
mqtt_msg_handler_destory(h) ==
    /\ mem' = [mem EXCEPT ![h] = NULL]
    /\ installed' = installed \ {h}
    /\ refused' = refused \ {h}
    /\ ub' = IF mem[h] = NULL THEN "use_after_free" ELSE ub

-----------------------------------------------------------------------------
(* Application threads.                                                    *)

\* mqtt_connect from the application, before the yield thread exists.  On
\* success the state is CONNECTED and the thread runs; on any failure (socket,
\* CONNECT, CONNACK, thread creation) the network is released, and a failure
\* after the socket is open resets the state.
mqtt_connect(i) ==
    /\ u[i].pc = "idle"
    /\ y = "off"
    /\ \/ /\ state' = "CONNECTED"
          /\ net' = "up"
          /\ ping' = 0
          /\ y' = "loop"
          /\ out' = Pkt("CONNECT", 0, NULL)
       \/ /\ state' \in {state, "INITIALIZED"}
          /\ net' = "down"
          /\ out' = NULL
          /\ UNCHANGED <<ping, y>>
    /\ UNCHANGED <<packetId, ackVars, handlerVars, u, todo, resub, ub, qosVars>>

\* The unlocked check every call starts with; the packet is remembered.
CheckConnected(i, p) ==
    /\ u[i].pc = "idle"
    /\ state = "CONNECTED"
    /\ u' = [u EXCEPT ![i] = At("send", p)]
    /\ out' = NULL
    /\ UNCHANGED <<connVars, packetId, ackVars, handlerVars, yieldVars, ub, qosVars>>

mqtt_publish(i) ==
    \E m \in Msgs, q \in PubQos : CheckConnected(i, Publish(0, q, 0, m))

mqtt_subscribe(i) == \E t \in Topics : CheckConnected(i, Pkt("SUBSCRIBE", 0, t))

\* OverlappingUnsub = FALSE states a discipline on the application: no second
\* unsubscribe of a topic while the first is unanswered.
mqtt_unsubscribe(i) ==
    \E t \in Topics :
        /\ \/ OverlappingUnsub
           \/ /\ \A r \in acks : r.type = "UNSUBACK" => r.payload.body # t
              /\ \A j \in Users : u[j].pc # "idle" => u[j].pkt # Pkt("UNSUBSCRIBE", u[j].pkt.id, t)
        /\ CheckConnected(i, Pkt("UNSUBSCRIBE", 0, t))

\* mqtt_publish under the write lock: refuse when the ack list is full, else
\* take an id (QoS 1/2), serialize and send.  A failed send returns.
mqtt_publish_send(i) ==
    LET p == u[i].pkt
        id == IF p.qos = 0 THEN 0 ELSE mqtt_get_next_packet_id
        sent == WithId(p, id)
    IN  /\ u[i].pc = "send" /\ p.kind = "PUBLISH"
        /\ WriteLockFree
        /\ \/ /\ p.qos # 0 /\ mqtt_ack_handler_is_maximum
              /\ u' = [u EXCEPT ![i] = At("failed", u[i].pkt)]
              /\ out' = NULL
              /\ UNCHANGED <<packetId, early>>
           \/ /\ p.qos = 0 \/ ~mqtt_ack_handler_is_maximum
              /\ packetId' = IF p.qos = 0 THEN packetId ELSE id
              /\ early' = {f \in early : f.id # id}
              /\ \E ok \in BOOLEAN :
                    /\ mqtt_send_packet(sent, ok)
                    /\ u' = [u EXCEPT ![i] = IF ok /\ p.qos # 0
                                               THEN At("record", sent)
                                               ELSE Idle]
        /\ UNCHANGED <<connVars, ackVars, handlerVars, yieldVars, ub, inflight, del2>>

\* mqtt_subscribe and mqtt_unsubscribe under the write lock, up to the send.
mqtt_request_send(i) ==
    LET sent == WithId(u[i].pkt, mqtt_get_next_packet_id)
    IN  /\ u[i].pc = "send" /\ sent.kind \in {"SUBSCRIBE", "UNSUBSCRIBE"}
        /\ WriteLockFree
        /\ packetId' = sent.id
        /\ \E ok \in BOOLEAN :
              /\ mqtt_send_packet(sent, ok)
              /\ u' = [u EXCEPT ![i] = IF ok THEN At("record", sent) ELSE Idle]
        /\ UNCHANGED <<connVars, ackVars, handlerVars, yieldVars, ub, qosVars>>

\* The walk of mqtt_ack_list_scan(c, 0) has passed the tail: a request that it
\* visits is destroyed, so one that is on the list and not due was left behind.
PassedTail == \E r \in acks \ todo : r.type \in {"SUBACK", "UNSUBACK"}

\* A record appended while mqtt_ack_list_scan(c, 0) walks the list is visited
\* too, unless the walk has already passed the tail; mqtt_ack_list_scan(c, 1)
\* skips it, its timer being fresh.
AppendRecord(r) ==
    /\ mqtt_ack_list_record(r)
    /\ \/ UNCHANGED todo
       \/ y = "scan0" /\ todo # {} /\ ~PassedTail /\ todo' = todo \cup {r}

\* Second half of mqtt_publish, still under the lock: set DUP in the buffer
\* and copy the packet into a new record.
mqtt_publish_record(i) ==
    LET p == u[i].pkt
        type == IF p.qos = 1 THEN "PUBACK" ELSE "PUBREC"
    IN  /\ u[i].pc = "record" /\ p.kind = "PUBLISH"
        /\ \/ /\ mqtt_ack_list_node_is_exist(type, p.id)
              /\ u' = [u EXCEPT ![i] = Idle]
              /\ UNCHANGED <<ackVars, todo, inflight>>
           \/ /\ ~mqtt_ack_list_node_is_exist(type, p.id)
              /\ FALSE \in AckAlloc
              /\ u' = [u EXCEPT ![i] = At("failed", u[i].pkt)]
              /\ UNCHANGED <<ackVars, todo, inflight>>
           \/ /\ ~mqtt_ack_list_node_is_exist(type, p.id)
              /\ AppendRecord(Ack(type, p.id, NULL, WithDup(p)))
              /\ inflight' = inflight \cup {Flow(p)}
              /\ u' = [u EXCEPT ![i] = Idle]
        /\ out' = NULL
        /\ UNCHANGED <<connVars, packetId, handlerVars, y, resub, ub, del2, early>>

\* The end of a mqtt_publish that found no room or no memory: the lock is
\* released, then the network, then the state is overwritten.
mqtt_publish_release(i) ==
    /\ u[i].pc = "failed"
    /\ net' = "down"
    /\ u' = [u EXCEPT ![i] = At("released", u[i].pkt)]
    /\ out' = NULL
    /\ UNCHANGED <<state, ping, packetId, ackVars, handlerVars, yieldVars, ub, qosVars>>

mqtt_publish_disconnected(i) ==
    /\ u[i].pc = "released"
    /\ state' = "DISCONNECTED"
    /\ u' = [u EXCEPT ![i] = Idle]
    /\ out' = NULL
    /\ UNCHANGED <<net, ping, packetId, ackVars, handlerVars, yieldVars, ub, qosVars>>

\* The rest of mqtt_subscribe after a successful send of packet p: allocate a
\* handler (h, or NULL) and record it.  The handler is not freed when the
\* record fails.
SubscribeRecord(p, h) ==
    IF h = NULL
      THEN UNCHANGED <<ackVars, mem, todo>>
      ELSE /\ mem' = [mem EXCEPT ![h] = p.body]
           /\ \/ /\ mqtt_ack_list_node_is_exist("SUBACK", p.id) \/ FALSE \in AckAlloc
                 /\ UNCHANGED <<ackVars, todo>>
              \/ /\ ~mqtt_ack_list_node_is_exist("SUBACK", p.id)
                 /\ AppendRecord(Ack("SUBACK", p.id, h, p))

mqtt_subscribe_record(i) ==
    /\ u[i].pc = "record" /\ u[i].pkt.kind = "SUBSCRIBE"
    /\ \E h \in HandlerAlloc : SubscribeRecord(u[i].pkt, h)
    /\ u' = [u EXCEPT ![i] = Idle]
    /\ out' = NULL
    /\ UNCHANGED <<connVars, packetId, installed, refused, y, resub, ub, qosVars>>

\* The rest of mqtt_unsubscribe: the record refers to the installed handler.
mqtt_unsubscribe_record(i) ==
    LET p == u[i].pkt
    IN  /\ u[i].pc = "record" /\ p.kind = "UNSUBSCRIBE"
        /\ \/ /\ \/ Installed(p.body) = {}
                 \/ mqtt_ack_list_node_is_exist("UNSUBACK", p.id)
                 \/ FALSE \in AckAlloc
              /\ UNCHANGED <<ackVars, todo>>
           \/ /\ ~mqtt_ack_list_node_is_exist("UNSUBACK", p.id)
              /\ \E h \in Installed(p.body) : AppendRecord(Ack("UNSUBACK", p.id, h, p))
        /\ u' = [u EXCEPT ![i] = Idle]
        /\ out' = NULL
        /\ UNCHANGED <<connVars, packetId, handlerVars, y, resub, ub, qosVars>>

\* mqtt_disconnect: DISCONNECT is sent under the lock whatever the state, then
\* the state is overwritten.
mqtt_disconnect(i) ==
    /\ u[i].pc = "idle"
    /\ WriteLockFree
    /\ \E ok \in BOOLEAN : mqtt_send_packet(Pkt("DISCONNECT", 0, NULL), ok)
    /\ u' = [u EXCEPT ![i] = At("disconnected", u[i].pkt)]
    /\ UNCHANGED <<connVars, packetId, ackVars, handlerVars, yieldVars, ub, qosVars>>

mqtt_disconnect_clean(i) ==
    /\ u[i].pc = "disconnected"
    /\ state' = "CLEAN_SESSION"
    /\ u' = [u EXCEPT ![i] = Idle]
    /\ out' = NULL
    /\ UNCHANGED <<net, ping, packetId, ackVars, handlerVars, yieldVars, ub, qosVars>>

-----------------------------------------------------------------------------
(* The yield thread: receiving packets.  A handler runs at y = "loop" when *)
(* the state is CONNECTED (its own mqtt_is_connected) and leaves the       *)
(* thread before mqtt_keep_alive.                                          *)

CanRead == y = "loop" /\ state = "CONNECTED" /\ net = "up"

ThenKeepAlive == y' = "keep" /\ UNCHANGED <<todo, resub>>

\* The publications a PUBACK or PUBCOMP completes, and those a PUBREC releases.
Finished(type, id) ==
    {f \in inflight : f.id = id /\ IF type = "PUBACK" THEN f.qos = 1 ELSE f.released}
Receivable(id) == {f \in inflight : f.id = id /\ f.qos = 2}

\* Publications sent and not recorded yet: an acknowledgement of one finds no
\* record to remove.
Unrecorded(qos, id) ==
    {Flow(u[i].pkt) : i \in {j \in Users : /\ u[j].pc = "record"
                                          /\ u[j].pkt.kind = "PUBLISH"
                                          /\ u[j].pkt.qos = qos /\ u[j].pkt.id = id}}

mqtt_puback_and_pubcomp_packet_handle(type, id) ==
    /\ CanRead
    /\ mqtt_ack_list_unrecord(type, id)
    /\ inflight' = inflight \ Finished(type, id)
    /\ early' = IF type = "PUBACK" THEN early \cup Unrecorded(1, id) ELSE early
    /\ ThenKeepAlive
    /\ out' = NULL
    /\ UNCHANGED <<connVars, packetId, handlerVars, u, ub, del2>>

SUBFAIL == 128

\* readChar returns a plain char: a byte above 127 is negative where char is
\* signed, and is then never equal to SUBFAIL (0x80).
readChar(byte) == IF CharSigned /\ byte > 127 THEN byte - 256 ELSE byte

Mutant_handler_is_exist(h) == FALSE       \* the topic's handler not looked up
mqtt_msg_handler_is_exist(h) == \E g \in installed : mem[g] = mem[h]

mqtt_msg_handlers_install(h, code) ==
    /\ installed' = installed \cup {h}
    /\ refused' = IF code = SUBFAIL THEN refused \cup {h} ELSE refused
    /\ UNCHANGED <<mem, ub>>

\* A SUBACK moves the handler of its record to the message-handler list, or
\* destroys it when the code decodes as a refusal or the topic already has a
\* handler.  Without a record the SUBACK is dropped.
mqtt_suback_packet_handle(id, code) ==
    /\ CanRead
    /\ mqtt_ack_list_unrecord("SUBACK", id)
    /\ \/ /\ ~mqtt_ack_list_node_is_exist("SUBACK", id)
          /\ UNCHANGED <<handlerVars, ub>>
       \/ \E r \in Matching("SUBACK", id) :
             IF readChar(code) = SUBFAIL \/ mqtt_msg_handler_is_exist(r.handler)
               THEN mqtt_msg_handler_destory(r.handler)
               ELSE mqtt_msg_handlers_install(r.handler, code)
    /\ ThenKeepAlive
    /\ out' = NULL
    /\ UNCHANGED <<connVars, packetId, u, qosVars>>

\* An UNSUBACK destroys the handler of its record.  Without a record the local
\* msg_handler is never assigned: it reads as NULL, or as any other value.
mqtt_unsuback_packet_handle(id) ==
    /\ CanRead
    /\ mqtt_ack_list_unrecord("UNSUBACK", id)
    /\ \/ /\ ~mqtt_ack_list_node_is_exist("UNSUBACK", id)
          /\ ub' \in {ub, "uninitialised_read"}
          /\ UNCHANGED handlerVars
       \/ \E r \in Matching("UNSUBACK", id) : mqtt_msg_handler_destory(r.handler)
    /\ ThenKeepAlive
    /\ out' = NULL
    /\ UNCHANGED <<connVars, packetId, u, qosVars>>

\* A PUBLISH: QoS 1/2 is acknowledged first, and not delivered when that send
\* fails; QoS 2 is delivered unless a PUBREL record says it already was.  The
\* lock is released and the acknowledgement on its way before the message is
\* delivered, in the thread's next step.
mqtt_publish_packet_handle(id, q, ok) ==
    LET reply == Pkt(IF q = 1 THEN "PUBACK" ELSE "PUBREC", id, NULL)
        first == ~mqtt_ack_list_node_is_exist("PUBREL", id)
    IN  /\ CanRead
        /\ q # 0 => WriteLockFree
        /\ IF q = 0 THEN out' = NULL ELSE mqtt_send_packet(reply, ok)
        /\ \/ /\ q # 2 \/ ~ok \/ ~first
              /\ UNCHANGED <<ackVars, del2>>
           \/ /\ q = 2 /\ ok /\ first
              /\ del2' = [del2 EXCEPT ![id] = IF @ = 2 THEN 2 ELSE @ + 1]
              /\ \/ mqtt_ack_list_record(Ack("PUBREL", id, NULL, reply))
                 \/ FALSE \in AckAlloc /\ UNCHANGED ackVars
        /\ y' = IF q = 0 \/ (ok /\ (q = 2 => first)) THEN "deliver" ELSE "keep"
        /\ UNCHANGED <<todo, resub>>
        /\ UNCHANGED <<connVars, packetId, handlerVars, u, ub, inflight, early>>

\* The message reaches the handler of its topic or the interceptor, which may
\* take its time; other threads run meanwhile.
mqtt_deliver_message ==
    /\ y = "deliver"
    /\ ThenKeepAlive
    /\ out' = NULL
    /\ UNCHANGED <<connVars, packetId, ackVars, handlerVars, u, ub, qosVars>>

\* PUBREC: record PUBCOMP with the PUBREL to repeat, send PUBREL, and drop the
\* PUBREC record whatever became of that.
mqtt_pubrec_packet_handle(id) ==
    LET pubrel == Pkt("PUBREL", id, NULL)
        old == Matching("PUBREC", id)
    IN  /\ CanRead
        /\ WriteLockFree
        /\ \/ /\ mqtt_ack_list_node_is_exist("PUBCOMP", id) \/ FALSE \in AckAlloc
              /\ mqtt_ack_list_unrecord("PUBREC", id)
              /\ out' = NULL
           \/ /\ ~mqtt_ack_list_node_is_exist("PUBCOMP", id)
              /\ acks' = (acks \ old) \cup {Ack("PUBCOMP", id, NULL, pubrel)}
              /\ ackNum' = Subtract(ackNum + 1, Cardinality(old))
              /\ \E ok \in BOOLEAN : mqtt_send_packet(pubrel, ok)
        /\ inflight' = (inflight \ Receivable(id))
                          \cup {Released(f) : f \in Receivable(id)}
        /\ early' = early \cup Unrecorded(2, id)
        /\ ThenKeepAlive
        /\ UNCHANGED <<connVars, packetId, handlerVars, u, ub, del2>>

\* PUBREL: send PUBCOMP and forget the id, whether or not the send succeeds.
mqtt_pubrel_packet_handle(id, ok) ==
    /\ CanRead
    /\ WriteLockFree
    /\ mqtt_send_packet(Pkt("PUBCOMP", id, NULL), ok)
    /\ mqtt_ack_list_unrecord("PUBREL", id)
    /\ del2' = [del2 EXCEPT ![id] = 0]
    /\ ThenKeepAlive
    /\ UNCHANGED <<connVars, packetId, handlerVars, u, ub, inflight, early>>

pingresp_packet_handle ==
    /\ CanRead
    /\ ping' = 0
    /\ ThenKeepAlive
    /\ out' = NULL
    /\ UNCHANGED <<state, net, packetId, ackVars, handlerVars, u, ub, qosVars>>

\* mqtt_read_packet got nothing, or a packet that does not fit the buffer.
nothing_read ==
    /\ y = "loop" /\ state = "CONNECTED"
    /\ ThenKeepAlive
    /\ out' = NULL
    /\ UNCHANGED <<connVars, packetId, ackVars, handlerVars, u, ub, qosVars>>

-----------------------------------------------------------------------------
(* The yield thread: keep-alive, scan, reconnect, exit.                    *)

\* mqtt_ack_list_scan starts: nothing to do when the list is empty or the
\* state is no longer CONNECTED; due are the records it will act on.
StartScan(pc, due) ==
    IF acks = {} \/ state # "CONNECTED"
      THEN y' = "loop" /\ UNCHANGED todo
      ELSE y' = pc /\ todo' = due

\* A CONNACK or an unknown packet type skips mqtt_keep_alive; the list is
\* scanned for records whose timer has expired, any of them.
ignored_packet ==
    /\ CanRead
    /\ \E expired \in SUBSET acks : StartScan("scan", expired)
    /\ out' = NULL
    /\ UNCHANGED <<connVars, packetId, ackVars, handlerVars, u, resub, ub, qosVars>>

mqtt_keep_alive ==
    /\ y = "keep"
    /\ \/ /\ state # "CONNECTED"                     \* mqtt_is_connected
          /\ y' = "loop"
          /\ out' = NULL
          /\ UNCHANGED <<net, ping, todo>>
       \/ /\ state = "CONNECTED"                     \* no timer has expired
          /\ \E expired \in SUBSET acks : StartScan("scan", expired)
          /\ out' = NULL
          /\ UNCHANGED <<net, ping>>
       \/ /\ state = "CONNECTED" /\ ping # 0         \* no PINGRESP: drop
          /\ net' = "down"
          /\ y' = "drop"
          /\ out' = NULL
          /\ UNCHANGED <<ping, todo>>
       \/ /\ state = "CONNECTED" /\ ping = 0         \* PINGREQ, without the lock
          /\ ping' = 1
          /\ \/ /\ mqtt_send_packet(Pkt("PINGREQ", 0, NULL), TRUE)
                /\ \E expired \in SUBSET acks : StartScan("scan", expired)
             \/ /\ mqtt_send_packet(Pkt("PINGREQ", 0, NULL), FALSE)
                /\ y' = "loop"
                /\ UNCHANGED todo
          /\ UNCHANGED net
    /\ UNCHANGED <<state, packetId, ackVars, handlerVars, u, resub, ub, qosVars>>

\* The state is left CONNECTED.
Mutant_keep_alive_drop ==
    /\ y = "drop" /\ y' = "loop"
    /\ out' = NULL
    /\ UNCHANGED <<connVars, packetId, ackVars, handlerVars, u, todo, resub, ub, qosVars>>
mqtt_keep_alive_drop ==
    /\ y = "drop"
    /\ state' = "DISCONNECTED"
    /\ y' = "loop"
    /\ out' = NULL
    /\ UNCHANGED <<net, ping, packetId, ackVars, handlerVars, u, todo, resub, ub, qosVars>>

Scanning == y \in {"scan0", "scan"}

\* mqtt_ack_list_scan visits a record of a publication: send it again.
mqtt_ack_handler_resend ==
    \E r \in todo, ok \in BOOLEAN :
        /\ Scanning
        /\ r.type \in {"PUBACK", "PUBREC", "PUBREL", "PUBCOMP"}
        /\ WriteLockFree
        /\ mqtt_send_packet(r.payload, ok)
        /\ todo' = todo \ {r}
        /\ UNCHANGED <<connVars, packetId, ackVars, handlerVars, u, y, resub, ub, qosVars>>

\* mqtt_ack_list_scan visits a SUBACK or UNSUBACK record: the record and its
\* handler are destroyed.
mqtt_ack_list_scan_destroy ==
    \E r \in todo :
        /\ Scanning
        /\ r.type \in {"SUBACK", "UNSUBACK"}
        /\ mqtt_msg_handler_destory(r.handler)
        /\ acks' = acks \ {r}
        /\ ackNum' = Subtract(ackNum, 1)
        /\ todo' = todo \ {r}
        /\ out' = NULL
        /\ UNCHANGED <<connVars, packetId, u, y, resub, qosVars>>

mqtt_ack_list_scan_end ==
    /\ Scanning
    /\ todo = {}
    /\ y' = "loop"
    /\ out' = NULL
    /\ UNCHANGED <<connVars, packetId, ackVars, handlerVars, u, todo, resub, ub, qosVars>>

\* mqtt_try_reconnect up to network_connect.  When that fails the thread
\* sleeps and comes back to the loop.
mqtt_try_reconnect ==
    /\ y = "loop"
    /\ state \notin {"CONNECTED", "CLEAN_SESSION"}
    /\ \/ net' = "up" /\ y' = "connect"
       \/ net' = "down" /\ y' = "loop"
    /\ out' = NULL
    /\ UNCHANGED <<state, ping, packetId, ackVars, handlerVars, u, todo, resub, ub, qosVars>>

\* mqtt_connect_with_results takes the lock, sends CONNECT and waits: CONNACK
\* arrives (the lock is kept), or anything else happens and it gives up.
mqtt_reconnect_handshake ==
    /\ y = "connect"
    /\ WriteLockFree
    /\ \/ /\ net = "up"
          /\ y' = "connected"
          /\ mqtt_send_packet(Pkt("CONNECT", 0, NULL), TRUE)
          /\ UNCHANGED <<state, net>>
       \/ /\ net' = "down"
          /\ state' = "INITIALIZED"
          /\ y' = "loop"
          /\ \E ok \in BOOLEAN : mqtt_send_packet(Pkt("CONNECT", 0, NULL), ok)
    /\ UNCHANGED <<ping, packetId, ackVars, handlerVars, u, todo, resub, ub, qosVars>>

mqtt_reconnect_done ==
    /\ y = "connected"
    /\ state' = "CONNECTED"
    /\ ping' = 0
    /\ y' = "resub"
    /\ resub' = installed
    /\ out' = NULL
    /\ UNCHANGED <<net, packetId, ackVars, handlerVars, u, todo, ub, qosVars>>

\* One round of mqtt_try_resubscribe: a whole mqtt_subscribe for the topic of
\* an installed handler.
mqtt_try_resubscribe ==
    \E h \in resub :
        LET p == Pkt("SUBSCRIBE", mqtt_get_next_packet_id, mem[h])
        IN  /\ y = "resub"
            /\ resub' = resub \ {h}
            /\ \/ /\ state # "CONNECTED"
                  /\ out' = NULL
                  /\ UNCHANGED <<packetId, ackVars, mem, todo>>
               \/ /\ state = "CONNECTED"
                  /\ WriteLockFree
                  /\ packetId' = p.id
                  /\ \/ /\ mqtt_send_packet(p, FALSE)
                        /\ UNCHANGED <<ackVars, mem, todo>>
                     \/ /\ mqtt_send_packet(p, TRUE)
                        /\ \E g \in HandlerAlloc : SubscribeRecord(p, g)
            /\ UNCHANGED <<connVars, installed, refused, u, y, ub, qosVars>>

\* mqtt_try_do_reconnect ends with mqtt_ack_list_scan(c, 0): every record.
mqtt_resubscribed ==
    /\ y = "resub" /\ resub = {}
    /\ StartScan("scan0", acks)
    /\ out' = NULL
    /\ UNCHANGED <<connVars, packetId, ackVars, handlerVars, u, resub, ub, qosVars>>

\* Handlers mqtt_clean_session frees through the ack list, in list order; the
\* second record of one handler frees it twice.
AckHandlers == {r.handler : r \in {s \in acks : s.handler # NULL}}
DoubleFree == \/ \E h \in AckHandlers : mem[h] = NULL
              \/ \E r, s \in acks : r # s /\ r.handler # NULL /\ r.handler = s.handler

\* MQTT_CLEAN_SESSION_ERROR: the thread closes the network, frees both lists
\* (mqtt_clean_session) and exits.
mqtt_clean_session ==
    /\ y = "loop" /\ state = "CLEAN_SESSION"
    /\ net' = "down"
    /\ acks' = {} /\ ackNum' = 0
    /\ mem' = [h \in Handlers |-> IF h \in AckHandlers \cup installed THEN NULL ELSE mem[h]]
    /\ installed' = {} /\ refused' = {}
    /\ ub' = IF DoubleFree THEN "use_after_free" ELSE ub
    /\ state' = "INVALID"
    /\ y' = "exit"
    /\ inflight' = {} /\ early' = {} /\ del2' = [id \in Ids |-> 0]
    /\ out' = NULL
    /\ UNCHANGED <<ping, packetId, u, todo, resub>>

-----------------------------------------------------------------------------
Init ==
    /\ state = "INITIALIZED" /\ net = "down" /\ ping = 0
    /\ packetId = 1
    /\ acks = {} /\ ackNum = 0
    /\ mem = [h \in Handlers |-> NULL] /\ installed = {} /\ refused = {}
    /\ u = [i \in Users |-> Idle]
    /\ y = "off" /\ todo = {} /\ resub = {}
    /\ out = NULL /\ ub = "none"
    /\ inflight = {} /\ early = {} /\ del2 = [id \in Ids |-> 0]

ApplicationStep(i) ==
    \/ mqtt_connect(i)
    \/ mqtt_publish(i) \/ mqtt_publish_send(i) \/ mqtt_publish_record(i)
    \/ mqtt_publish_release(i) \/ mqtt_publish_disconnected(i)
    \/ mqtt_subscribe(i) \/ mqtt_unsubscribe(i) \/ mqtt_request_send(i)
    \/ mqtt_subscribe_record(i) \/ mqtt_unsubscribe_record(i)
    \/ mqtt_disconnect(i) \/ mqtt_disconnect_clean(i)

mqtt_packet_handle ==
    \/ \E id \in Ids :
          \/ \E type \in {"PUBACK", "PUBCOMP"} :
                mqtt_puback_and_pubcomp_packet_handle(type, id)
          \/ \E code \in SubCodes : mqtt_suback_packet_handle(id, code)
          \/ mqtt_unsuback_packet_handle(id)
          \/ \E q \in InQos, ok \in BOOLEAN : mqtt_publish_packet_handle(id, q, ok)
          \/ mqtt_pubrec_packet_handle(id)
          \/ \E ok \in BOOLEAN : mqtt_pubrel_packet_handle(id, ok)
    \/ pingresp_packet_handle
    \/ nothing_read
    \/ ignored_packet

YieldStep ==
    \/ mqtt_packet_handle \/ mqtt_deliver_message
    \/ mqtt_keep_alive \/ mqtt_keep_alive_drop
    \/ mqtt_ack_handler_resend \/ mqtt_ack_list_scan_destroy \/ mqtt_ack_list_scan_end
    \/ mqtt_try_reconnect \/ mqtt_reconnect_handshake \/ mqtt_reconnect_done
    \/ mqtt_try_resubscribe \/ mqtt_resubscribed
    \/ mqtt_clean_session

\* After undefined behaviour nothing is claimed; a session ends by stopping.
Stopped == (ub # "none" \/ y = "exit") /\ UNCHANGED vars

Next == \/ ub = "none" /\ (YieldStep \/ \E i \in Users : ApplicationStep(i))
        \/ Stopped

Spec == Init /\ [][Next]_vars

-----------------------------------------------------------------------------
(* Properties.                                                             *)

\* Every variable has its type: what the C declarations promise.
TypeOK ==
    /\ state \in States /\ net \in {"up", "down"} /\ ping \in 0..1
    /\ packetId \in Ids
    /\ acks \subseteq AckRecords /\ ackNum \in Nat
    /\ mem \in [Handlers -> Topics \cup {NULL}]
    /\ installed \subseteq Handlers /\ refused \subseteq Handlers
    /\ u \in [Users -> Calls]
    /\ y \in {"off", "loop", "deliver", "keep", "drop", "scan0", "scan", "connect", "connected",
              "resub", "exit"}
    /\ todo \subseteq acks /\ resub \subseteq Handlers
    /\ out \in Packets \cup {NULL}
    /\ ub \in {"none", "use_after_free", "uninitialised_read"}
    /\ inflight \subseteq Flows /\ early \subseteq Flows /\ del2 \in [Ids -> 0..2]

\* mqtt_ack_handler_number is the length of the ack list, through records made
\* by every thread, timeouts, reconnects and the clean-up of the session.
AckCount == ackNum = Cardinality(acks)

\* No two records wait for the same acknowledgement of the same packet id, so
\* an incoming acknowledgement names one record.
AckUnique == \A r, s \in acks : r.type = s.type /\ r.id = s.id => r = s

\* A QoS 1/2 message mqtt_publish accepted stays recorded, with the packet to
\* send again or its PUBREL, until PUBACK or PUBCOMP for it is processed
\* (note of mqtt_publish: recorded for retransmission until acknowledged).
PublishTracked ==
    \A f \in inflight :
        IF f.released
          THEN Ack("PUBCOMP", f.id, NULL, Pkt("PUBREL", f.id, NULL)) \in acks
          ELSE Ack(IF f.qos = 1 THEN "PUBACK" ELSE "PUBREC", f.id, NULL,
                   Publish(f.id, f.qos, 1, f.msg)) \in acks

\* A PUBLISH with the DUP flag on the wire repeats a recorded message whose
\* PUBACK or PUBREC has not been processed since: neither a late timeout nor
\* a reconnect revives a publication whose record was acknowledged.
NoResendAfterAck ==
    out # NULL /\ out.kind = "PUBLISH" /\ out.dup = 1 => Flow(out) \in inflight

\* A QoS 2 publication is not recorded for repetition after its PUBREC was
\* processed: the PUBREC handler waits for the write lock, so it never runs
\* between the send and the record, where it would find nothing to remove and
\* the message would be published a second time.
Qos2RecordedFirst == \A r \in acks : r.type = "PUBREC" => Flow(r.payload) \notin early

\* A QoS 2 message is handed to the application at most once until the broker
\* releases its id with PUBREL, however often the PUBLISH is repeated.
DeliveredOnce == \A id \in Ids : del2[id] <= 1

\* At most MQTT_ACK_HANDLER_NUM_MAX publications wait for their first
\* acknowledgement, although the limit is tested before the record is made.
PublishWindow == Cardinality({r \in acks : r.type \in {"PUBACK", "PUBREC"}}) <= AckMax

\* No message handler is unlinked or freed twice.
NoUseAfterFree == ub # "use_after_free"

\* Who owns a handler: installed handlers are allocated; the handler of a
\* SUBACK record is allocated, belongs to that record alone and is not
\* installed yet.
HandlerOwnership ==
    ub = "none" =>
        /\ \A h \in installed : mem[h] # NULL
        /\ \A r \in acks : r.type = "SUBACK" =>
              /\ r.handler \in Handlers \ installed
              /\ mem[r.handler] # NULL
              /\ \A s \in acks : s.type = "SUBACK" /\ s.handler = r.handler => s = r

\* At most one installed handler per topic filter, so that a message is
\* delivered once and mqtt_unsubscribe finds the one to remove.
OneHandlerPerTopic ==
    ub = "none" => \A g, h \in installed : mem[g] = mem[h] => g = h

-----------------------------------------------------------------------------
(* What a comment of the code says, and the code does not do in every build. *)

\* A subscription the broker refused is never installed (comment of
\* mqtt_suback_packet_handle: subscribe topic failed, destory message handler).
RefusedNotInstalled == refused \cap installed = {}
=============================================================================
