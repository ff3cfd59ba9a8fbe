-------------------------- MODULE MqttClientProofs --------------------------
(***************************************************************************)
(* Proofs about MqttClient for every value of its constants: the ack list, *)
(* types and the limit on publications, then repetition, tracking and QoS  *)
(* 2 delivery, then the message handlers.                                  *)
(***************************************************************************)
EXTENDS MqttClient, FiniteSetTheorems, TLAPS

USE MaxPacketIdAssumption DEF Ids

-----------------------------------------------------------------------------
(* The ack list.  The counter, the uniqueness of records and the set of    *)
(* records a scan still has to visit are preserved together: the counter   *)
(* is right after an unrecord only because at most one record matches, and *)
(* a scan removes only records still on the list because nothing else      *)
(* removes any while it runs.                                              *)

ListInv ==
    /\ IsFiniteSet(acks)
    /\ AckCount
    /\ AckUnique
    /\ todo \subseteq acks
    /\ ~Scanning => todo = {}

\* A record whose type and id are not on the list is added and counted.
LEMMA ListAdd ==
    ASSUME IsFiniteSet(acks), AckCount, AckUnique, NEW r,
           ~mqtt_ack_list_node_is_exist(r.type, r.id), mqtt_ack_list_record(r)
    PROVE  IsFiniteSet(acks)' /\ AckCount' /\ AckUnique'
<1>1. acks' = acks \cup {r} /\ ackNum' = ackNum + 1
  BY DEF mqtt_ack_list_record
<1>2. r \notin acks
  BY DEF mqtt_ack_list_node_is_exist, Matching
<1>3. IsFiniteSet(acks)' /\ Cardinality(acks') = Cardinality(acks) + 1
  BY <1>1, <1>2, FS_AddElement
<1>4. AckUnique'
  BY <1>1 DEF AckUnique, mqtt_ack_list_node_is_exist, Matching
<1> QED
  BY <1>1, <1>3, <1>4 DEF AckCount

\* A record on the list is removed and the counter decremented.
LEMMA ListRemove ==
    ASSUME IsFiniteSet(acks), AckCount, AckUnique, NEW r \in acks,
           acks' = acks \ {r}, ackNum' = Subtract(ackNum, 1)
    PROVE  IsFiniteSet(acks)' /\ AckCount' /\ AckUnique'
<1>1. IsFiniteSet(acks)' /\ Cardinality(acks') = Cardinality(acks) - 1
  BY FS_RemoveElement
<1>2. Cardinality(acks) \in Nat /\ Cardinality(acks') \in Nat
  BY <1>1, FS_CardinalityType
<1> QED
  BY <1>1, <1>2 DEF AckCount, AckUnique, Subtract

\* An acknowledgement matches at most one record.
LEMMA MatchingSmall ==
    ASSUME AckUnique, NEW type, NEW id
    PROVE  /\ Matching(type, id) \subseteq acks
           /\ \/ Matching(type, id) = {} /\ Cardinality(Matching(type, id)) = 0
              \/ \E r \in acks : Matching(type, id) = {r} /\ Cardinality(Matching(type, id)) = 1
<1>1. CASE Matching(type, id) = {}
  BY <1>1, FS_EmptySet DEF Matching
<1>2. CASE Matching(type, id) # {}
  <2>1. PICK r \in acks : r \in Matching(type, id)
    BY <1>2 DEF Matching
  <2>2. Matching(type, id) = {r}
    BY <2>1 DEF Matching, AckUnique
  <2> QED
    BY <2>2, FS_Singleton DEF Matching
<1> QED
  BY <1>1, <1>2

\* mqtt_ack_list_unrecord keeps the count and uniqueness of the list.
LEMMA ListUnrecord ==
    ASSUME IsFiniteSet(acks), AckCount, AckUnique, NEW type, NEW id,
           mqtt_ack_list_unrecord(type, id)
    PROVE  IsFiniteSet(acks)' /\ AckCount' /\ AckUnique'
<1>1. acks' = acks \ Matching(type, id)
      /\ ackNum' = Subtract(ackNum, Cardinality(Matching(type, id)))
  BY DEF mqtt_ack_list_unrecord
<1>2. CASE Matching(type, id) = {} /\ Cardinality(Matching(type, id)) = 0
  <2>1. Cardinality(acks) \in Nat
    BY FS_CardinalityType
  <2>2. acks' = acks /\ ackNum' = ackNum
    BY <1>1, <1>2, <2>1 DEF Subtract, AckCount
  <2> QED
    BY <2>2 DEF AckCount, AckUnique
<1>3. CASE \E r \in acks : Matching(type, id) = {r} /\ Cardinality(Matching(type, id)) = 1
  BY <1>1, <1>3, ListRemove
<1> QED
  BY <1>2, <1>3, MatchingSmall

\* A record appended by a thread while the yield thread may be scanning.
LEMMA ListAppend ==
    ASSUME ListInv, NEW r, ~mqtt_ack_list_node_is_exist(r.type, r.id), AppendRecord(r), y' = y
    PROVE  ListInv'
<1>1. IsFiniteSet(acks)' /\ AckCount' /\ AckUnique'
  BY ListAdd DEF ListInv, AppendRecord
<1>2. todo' \subseteq acks'
  BY DEF ListInv, AppendRecord, mqtt_ack_list_record
<1>3. ~Scanning' => todo' = {}
  BY DEF ListInv, AppendRecord, Scanning
<1> QED
  BY <1>1, <1>2, <1>3 DEF ListInv

\* The end of mqtt_subscribe keeps the count and uniqueness of the list.
LEMMA ListSubscribe ==
    ASSUME ListInv, NEW p, NEW h, SubscribeRecord(p, h), y' = y
    PROVE  ListInv'
<1>1. CASE UNCHANGED <<acks, ackNum, todo>>
  BY <1>1 DEF ListInv, AckCount, AckUnique, Scanning
<1>2. CASE ~mqtt_ack_list_node_is_exist("SUBACK", p.id) /\ AppendRecord(Ack("SUBACK", p.id, h, p))
  <2>1. Ack("SUBACK", p.id, h, p).type = "SUBACK" /\ Ack("SUBACK", p.id, h, p).id = p.id
    BY DEF Ack
  <2> QED
    BY <1>2, <2>1, ListAppend
<1> QED
  BY <1>1, <1>2 DEF SubscribeRecord, ackVars

\* The list is empty at the start.
LEMMA ListInit == Init => ListInv
BY FS_EmptySet DEF Init, ListInv, AckCount, AckUnique

\* Every step of every thread preserves the ack-list invariant.
LEMMA ListStep == ListInv /\ [Next]_vars => ListInv'
<1> SUFFICES ASSUME ListInv, [Next]_vars PROVE ListInv'
    OBVIOUS
<1>1. CASE UNCHANGED <<acks, ackNum, todo>> /\ (~Scanning' => todo = {})
  BY <1>1 DEF ListInv, AckCount, AckUnique
<1>2. CASE \E i \in Users : ApplicationStep(i)
  <2> PICK i \in Users : ApplicationStep(i)
    BY <1>2
  <2>1. CASE mqtt_publish_record(i)
    <3> DEFINE p == u[i].pkt
               type == IF p.qos = 1 THEN "PUBACK" ELSE "PUBREC"
               r == Ack(type, p.id, NULL, WithDup(p))
    <3>1. r.type = type /\ r.id = p.id
      BY DEF Ack
    <3> HIDE DEF r
    <3>2. CASE ~mqtt_ack_list_node_is_exist(type, p.id) /\ AppendRecord(r) /\ y' = y
      BY <3>1, <3>2, ListAppend
    <3> QED
      BY <1>1, <2>1, <3>2 DEF mqtt_publish_record, ackVars, r, ListInv, Scanning
  <2>2. CASE mqtt_subscribe_record(i)
    BY <2>2, ListSubscribe DEF mqtt_subscribe_record
  <2>3. CASE mqtt_unsubscribe_record(i)
    <3> DEFINE p == u[i].pkt
    <3>1. \A h : Ack("UNSUBACK", p.id, h, p).type = "UNSUBACK" /\ Ack("UNSUBACK", p.id, h, p).id = p.id
      BY DEF Ack
    <3>2. CASE /\ ~mqtt_ack_list_node_is_exist("UNSUBACK", p.id)
               /\ \E h \in Installed(p.body) : AppendRecord(Ack("UNSUBACK", p.id, h, p))
               /\ y' = y
      BY <3>1, <3>2, ListAppend
    <3> QED
      BY <1>1, <2>3, <3>2 DEF mqtt_unsubscribe_record, ackVars, ListInv, Scanning
  <2>4. CASE mqtt_connect(i)
    BY <1>1, <2>4 DEF mqtt_connect, ackVars, ListInv, Scanning
  <2>5. CASE \/ mqtt_publish(i) \/ mqtt_subscribe(i) \/ mqtt_unsubscribe(i)
             \/ mqtt_publish_send(i) \/ mqtt_request_send(i) \/ mqtt_publish_release(i)
             \/ mqtt_publish_disconnected(i) \/ mqtt_disconnect(i) \/ mqtt_disconnect_clean(i)
    BY <1>1, <2>5 DEF mqtt_publish, mqtt_subscribe, mqtt_unsubscribe, CheckConnected,
       mqtt_publish_send, mqtt_request_send, mqtt_publish_release, mqtt_publish_disconnected,
       mqtt_disconnect, mqtt_disconnect_clean, ackVars, yieldVars, ListInv, Scanning
  <2> QED
    BY <2>1, <2>2, <2>3, <2>4, <2>5 DEF ApplicationStep
<1>3. CASE mqtt_packet_handle
  <2>1. CASE ignored_packet
    BY <2>1 DEF ignored_packet, StartScan, CanRead, ackVars, ListInv, AckCount, AckUnique, Scanning
  <2>2. CASE pingresp_packet_handle \/ nothing_read
    BY <1>1, <2>2 DEF pingresp_packet_handle, nothing_read, CanRead, ThenKeepAlive, ackVars,
       ListInv, Scanning
  <2>3. CASE \E id \in Ids :
               \/ \E type \in {"PUBACK", "PUBCOMP"} : mqtt_puback_and_pubcomp_packet_handle(type, id)
               \/ \E code \in SubCodes : mqtt_suback_packet_handle(id, code)
               \/ mqtt_unsuback_packet_handle(id)
               \/ \E ok \in BOOLEAN : mqtt_pubrel_packet_handle(id, ok)
    <3>1. todo = {} /\ todo' = {} /\ ~Scanning' /\ \E type, id : mqtt_ack_list_unrecord(type, id)
      BY <2>3 DEF mqtt_puback_and_pubcomp_packet_handle, mqtt_suback_packet_handle,
         mqtt_unsuback_packet_handle, mqtt_pubrel_packet_handle, CanRead, ThenKeepAlive,
         ListInv, Scanning
    <3> QED
      BY <3>1, ListUnrecord DEF ListInv
  <2>4. ASSUME NEW id \in Ids, NEW q \in InQos, NEW ok \in BOOLEAN,
               mqtt_publish_packet_handle(id, q, ok)
        PROVE  ListInv'
    <3>1. todo = {} /\ todo' = {} /\ ~Scanning'
      BY <2>4 DEF mqtt_publish_packet_handle, CanRead, ThenKeepAlive, ListInv, Scanning
    <3>2. CASE UNCHANGED <<acks, ackNum>>
      BY <1>1, <3>1, <3>2
    <3>3. CASE /\ ~mqtt_ack_list_node_is_exist("PUBREL", id)
               /\ \E p : mqtt_ack_list_record(Ack("PUBREL", id, NULL, p))
      <4>1. \A p : Ack("PUBREL", id, NULL, p).type = "PUBREL" /\ Ack("PUBREL", id, NULL, p).id = id
        BY DEF Ack
      <4> QED
        BY <3>1, <3>3, <4>1, ListAdd DEF ListInv
    <3> QED
      BY <2>4, <3>2, <3>3 DEF mqtt_publish_packet_handle, ackVars
  <2>5. ASSUME NEW id \in Ids, mqtt_pubrec_packet_handle(id)
        PROVE  ListInv'
    <3> DEFINE new == Ack("PUBCOMP", id, NULL, Pkt("PUBREL", id, NULL))
               old == Matching("PUBREC", id)
    <3>1. todo = {} /\ todo' = {} /\ ~Scanning'
      BY <2>5 DEF mqtt_pubrec_packet_handle, CanRead, ThenKeepAlive, ListInv, Scanning
    <3>2. CASE mqtt_ack_list_unrecord("PUBREC", id)
      BY <3>1, <3>2, ListUnrecord DEF ListInv
    <3>3. CASE /\ ~mqtt_ack_list_node_is_exist("PUBCOMP", id)
               /\ acks' = (acks \ old) \cup {new}
               /\ ackNum' = Subtract(ackNum + 1, Cardinality(old))
      <4>1. new.type = "PUBCOMP" /\ new.id = id
        BY DEF Ack
      <4>2. new \notin acks
        BY <3>3, <4>1 DEF mqtt_ack_list_node_is_exist, Matching
      <4>3. AckUnique'
        BY <3>3, <4>1 DEF ListInv, AckUnique, mqtt_ack_list_node_is_exist, Matching
      <4> HIDE DEF new
      <4>4. IsFiniteSet(acks \ old) /\ IsFiniteSet(acks)
            /\ Cardinality(acks) \in Nat /\ Cardinality(acks \ old) \in Nat
        BY FS_Subset, FS_CardinalityType DEF ListInv
      <4>5. IsFiniteSet(acks') /\ Cardinality(acks') = Cardinality(acks \ old) + 1
        BY <3>3, <4>2, <4>4, FS_AddElement
      <4>6. ackNum' = Cardinality(acks \ old) + 1
        <5>1. CASE old = {} /\ Cardinality(old) = 0
          <6>1. acks \ old = acks
            BY <5>1
          <6> HIDE DEF old
          <6> QED
            BY <3>3, <4>4, <5>1, <6>1 DEF Subtract, ListInv, AckCount
        <5>2. CASE \E r \in acks : old = {r} /\ Cardinality(old) = 1
          <6>1. Cardinality(acks \ old) = Cardinality(acks) - 1
            BY <4>4, <5>2, FS_RemoveElement
          <6> QED
            BY <3>3, <4>4, <5>2, <6>1 DEF Subtract, ListInv, AckCount
        <5> QED
          BY <5>1, <5>2, MatchingSmall DEF ListInv
      <4> QED
        BY <3>1, <4>3, <4>5, <4>6 DEF ListInv, AckCount
    <3> QED
      BY <2>5, <3>2, <3>3 DEF mqtt_pubrec_packet_handle
  <2> QED
    BY <1>3, <2>1, <2>2, <2>3, <2>4, <2>5 DEF mqtt_packet_handle
<1>4. CASE mqtt_keep_alive \/ mqtt_resubscribed
  BY <1>4 DEF mqtt_keep_alive, mqtt_resubscribed, StartScan, ackVars, ListInv, AckCount, AckUnique,
     Scanning
<1>5. CASE mqtt_ack_handler_resend
  BY <1>5 DEF mqtt_ack_handler_resend, ackVars, ListInv, AckCount, AckUnique, Scanning
<1>6. CASE mqtt_ack_list_scan_destroy
  <2>1. PICK r \in todo : /\ Scanning
                          /\ acks' = acks \ {r} /\ ackNum' = Subtract(ackNum, 1)
                          /\ todo' = todo \ {r} /\ y' = y
    BY <1>6 DEF mqtt_ack_list_scan_destroy
  <2>2. IsFiniteSet(acks)' /\ AckCount' /\ AckUnique'
    BY <2>1, ListRemove DEF ListInv
  <2> QED
    BY <2>1, <2>2 DEF ListInv, Scanning
<1>7. CASE \/ mqtt_keep_alive_drop \/ mqtt_ack_list_scan_end \/ mqtt_try_reconnect
           \/ mqtt_reconnect_handshake \/ mqtt_reconnect_done \/ mqtt_deliver_message
  BY <1>1, <1>7 DEF mqtt_deliver_message, ThenKeepAlive, mqtt_keep_alive_drop, mqtt_ack_list_scan_end, mqtt_try_reconnect,
     mqtt_reconnect_handshake, mqtt_reconnect_done, ackVars, ListInv, Scanning
<1>8. CASE mqtt_try_resubscribe
  <2>1. \/ UNCHANGED <<acks, ackNum, todo>>
        \/ \E p, h : SubscribeRecord(p, h)
    BY <1>8 DEF mqtt_try_resubscribe, ackVars
  <2>2. y' = y
    BY <1>8 DEF mqtt_try_resubscribe
  <2> QED
    BY <1>1, <2>1, <2>2, ListSubscribe DEF ListInv, Scanning
<1>9. CASE mqtt_clean_session
  BY <1>9, FS_EmptySet DEF mqtt_clean_session, ListInv, AckCount, AckUnique, Scanning
<1>10. CASE UNCHANGED vars
  BY <1>1, <1>10 DEF vars, ListInv, Scanning
<1> QED
  BY <1>2, <1>3, <1>4, <1>5, <1>6, <1>7, <1>8, <1>9, <1>10 DEF Next, YieldStep, Stopped

\* The counter mqtt_ack_handler_number always equals the length of the ack
\* list, whichever threads add and remove records.
THEOREM AckListCorrect == Spec => []AckCount
<1>1. ListInv => AckCount
  BY DEF ListInv
<1> QED
  BY <1>1, ListInit, ListStep, PTL DEF Spec

\* The list never holds two records that wait for one acknowledgement, although
\* packet ids wrap around while old records are still on it.
THEOREM AckUniqueCorrect == Spec => []AckUnique
<1>1. ListInv => AckUnique
  BY DEF ListInv
<1> QED
  BY <1>1, ListInit, ListStep, PTL DEF Spec

-----------------------------------------------------------------------------
(* Typing.  TypeOK alone is not inductive: what a call may carry depends   *)
(* on its kind and what a record holds on its type.                        *)

CallOK(c) ==
    /\ c \in Calls
    /\ c.pkt.kind \in {"SUBSCRIBE", "UNSUBSCRIBE"} => c.pkt.body \in Topics
    /\ c.pkt.kind = "PUBLISH" => c.pkt.body \in Msgs
    /\ c.pc = "record" => c.pkt.id \in Ids
    /\ c.pc = "record" /\ c.pkt.kind = "PUBLISH" => c.pkt.qos \in 1..2

CallShape == u \in [Users -> Calls] /\ \A i \in Users : CallOK(u[i])

RecordOK(r) ==
    /\ r \in AckRecords
    /\ IF r.type \in {"SUBACK", "UNSUBACK"} THEN r.handler \in Handlers ELSE r.handler = NULL

RecordShape == \A r \in acks : RecordOK(r)

TypeInv == TypeOK /\ CallShape /\ RecordShape

\* A packet the client builds has its type.
LEMMA PktType ==
    ASSUME NEW kind \in Kinds, NEW id \in 0..MaxPacketId,
           NEW body \in Topics \cup Msgs \cup {NULL}
    PROVE  Pkt(kind, id, body) \in Packets
BY DEF Pkt, Packets

\* A record the client builds has its type.
LEMMA AckType ==
    ASSUME NEW type \in AckTypes, NEW id \in Ids, NEW h \in Handlers \cup {NULL},
           NEW p \in Packets
    PROVE  /\ Ack(type, id, h, p) \in AckRecords
           /\ Ack(type, id, h, p).type = type
           /\ Ack(type, id, h, p).id = id
           /\ Ack(type, id, h, p).handler = h
           /\ Ack(type, id, h, p).payload = p
BY DEF Ack, AckRecords

\* mqtt_get_next_packet_id stays within 1..MaxPacketId.
LEMMA NextIdType == TypeOK => mqtt_get_next_packet_id \in Ids
BY DEF TypeOK, mqtt_get_next_packet_id

\* A thread outside every call is well-formed.
LEMMA IdleOK == CallOK(Idle) /\ Idle.pc = "idle"
BY PktType DEF CallOK, Idle, At, Calls, Kinds, Pkt, Packets

\* Moving a call to another point keeps the packet's shape.
LEMMA AtOK ==
    ASSUME NEW c, CallOK(c), NEW pc \in {"idle", "send", "failed", "released", "disconnected"}
    PROVE  CallOK(At(pc, c.pkt))
BY DEF CallOK, At, Calls

\* A call that moves to a well-formed point keeps all calls well-formed.
LEMMA CallStep ==
    ASSUME CallShape, NEW i \in Users, NEW c, CallOK(c), u' = [u EXCEPT ![i] = c]
    PROVE  CallShape'
BY DEF CallShape, CallOK

\* A well-formed record appended keeps the list well-formed.
LEMMA AppendStep ==
    ASSUME acks \subseteq AckRecords, RecordShape, NEW r, RecordOK(r), AppendRecord(r)
    PROVE  acks' \subseteq AckRecords /\ RecordShape'
BY DEF AppendRecord, mqtt_ack_list_record, RecordShape, RecordOK

\* The types hold at the start.
LEMMA TypeInit == Init => TypeInv
<1> SUFFICES ASSUME Init PROVE TypeInv
    OBVIOUS
<1>1. TypeOK
  BY IdleOK DEF Init, TypeOK, States, CallOK
<1>2. CallShape
  BY IdleOK DEF Init, CallShape, CallOK
<1>3. RecordShape
  BY DEF Init, RecordShape
<1> QED BY <1>1, <1>2, <1>3 DEF TypeInv

\* mqtt_subscribe after the send, called by an application or the yield thread.
LEMMA SubscribeType ==
    ASSUME TypeInv, NEW p \in Packets, p.id \in Ids, p.body \in Topics \cup {NULL},
           NEW h \in HandlerAlloc, SubscribeRecord(p, h)
    PROVE  /\ acks' \subseteq AckRecords /\ RecordShape'
           /\ mem' \in [Handlers -> Topics \cup {NULL}]
<1> USE DEF TypeInv
<1>1. CASE acks' = acks
  BY <1>1 DEF SubscribeRecord, TypeOK, RecordShape
<1>2. CASE h # NULL /\ AppendRecord(Ack("SUBACK", p.id, h, p))
  <2>1. h \in Handlers
    BY <1>2 DEF HandlerAlloc, Free
  <2>2. RecordOK(Ack("SUBACK", p.id, h, p))
    BY <2>1 DEF RecordOK, Ack, AckRecords, AckTypes
  <2>3. mem' \in [Handlers -> Topics \cup {NULL}]
    BY <1>2 DEF SubscribeRecord, TypeOK
  <2> QED
    BY <1>2, <2>2, <2>3, AppendStep DEF TypeOK
<1> QED
  BY <1>1, <1>2 DEF SubscribeRecord, ackVars

\* A step of an application thread keeps the types.
LEMMA TypeApplication ==
    ASSUME TypeInv, ListInv', NEW i \in Users, ApplicationStep(i)
    PROVE  TypeInv'
<1> USE DEF TypeInv
<1>0. ackNum' \in Nat /\ todo' \subseteq acks'
  BY FS_CardinalityType DEF ListInv, AckCount
<1>1. CASE mqtt_connect(i)
  <2>1. TypeOK'
    BY <1>1, PktType DEF TypeOK, mqtt_connect, States, Kinds, ackVars, handlerVars, qosVars
  <2> QED
    BY <1>1, <2>1 DEF mqtt_connect, CallShape, RecordShape, ackVars
<1>2. CASE mqtt_publish(i)
  <2>1. PICK m \in Msgs, q \in PubQos : CheckConnected(i, Publish(0, q, 0, m))
    BY <1>2 DEF mqtt_publish
  <2>2. CallOK(At("send", Publish(0, q, 0, m)))
    BY QosAssumption DEF CallOK, At, Calls, Publish, Packets, Kinds
  <2>3. CallShape'
    BY <2>1, <2>2, CallStep DEF CheckConnected
  <2> QED
    BY <2>1, <2>3 DEF CheckConnected, TypeOK, CallShape, RecordShape,
       connVars, ackVars, handlerVars, yieldVars, qosVars
<1>3. CASE mqtt_subscribe(i) \/ mqtt_unsubscribe(i)
  <2>1. PICK k \in {"SUBSCRIBE", "UNSUBSCRIBE"}, t \in Topics : CheckConnected(i, Pkt(k, 0, t))
    BY <1>3 DEF mqtt_subscribe, mqtt_unsubscribe
  <2>2. CallOK(At("send", Pkt(k, 0, t)))
    BY DEF CallOK, At, Calls, Pkt, Packets, Kinds
  <2>3. CallShape'
    BY <2>1, <2>2, CallStep DEF CheckConnected
  <2> QED
    BY <2>1, <2>3 DEF CheckConnected, TypeOK, CallShape, RecordShape,
       connVars, ackVars, handlerVars, yieldVars, qosVars
<1>4. CASE mqtt_publish_send(i)
  <2> DEFINE p == u[i].pkt
             id == IF p.qos = 0 THEN 0 ELSE mqtt_get_next_packet_id
             sent == WithId(p, id)
  <2>1. CallOK(u[i])
    BY DEF CallShape
  <2>2. id \in 0..MaxPacketId /\ (p.qos # 0 => id \in Ids)
    BY NextIdType
  <2>3. sent \in Packets /\ (p.qos # 0 => CallOK(At("record", sent)))
    BY <1>4, <2>1, <2>2 DEF mqtt_publish_send, CallOK, At, Calls, Packets, WithId
  <2> HIDE DEF id, sent
  <2>4. \/ u' = [u EXCEPT ![i] = At("failed", p)]
        \/ u' = [u EXCEPT ![i] = At("record", sent)] /\ p.qos # 0
        \/ u' = [u EXCEPT ![i] = Idle]
    BY <1>4 DEF mqtt_publish_send, id, sent
  <2>5. CallShape'
    BY <2>1, <2>3, <2>4, AtOK, IdleOK, CallStep
  <2>6. packetId' \in Ids /\ out' \in Packets \cup {NULL}
    BY <1>4, <2>2, <2>3 DEF mqtt_publish_send, mqtt_send_packet, TypeOK, id, sent
  <2> QED
    BY <1>4, <2>5, <2>6 DEF mqtt_publish_send, TypeOK, CallShape, RecordShape,
       connVars, ackVars, handlerVars, yieldVars, qosVars
<1>5. CASE mqtt_request_send(i)
  <2> DEFINE sent == WithId(u[i].pkt, mqtt_get_next_packet_id)
  <2>1. CallOK(u[i])
    BY DEF CallShape
  <2>2. sent \in Packets /\ sent.id \in Ids /\ CallOK(At("record", sent))
    BY <1>5, <2>1, NextIdType DEF mqtt_request_send, CallOK, At, Calls, Packets, WithId
  <2> HIDE DEF sent
  <2>3. PICK c \in {At("record", sent), Idle} : u' = [u EXCEPT ![i] = c]
    BY <1>5 DEF mqtt_request_send, sent
  <2>4. CallShape'
    BY <2>2, <2>3, IdleOK, CallStep
  <2>5. packetId' \in Ids /\ out' \in Packets \cup {NULL}
    BY <1>5, <2>2 DEF mqtt_request_send, mqtt_send_packet, sent
  <2> QED
    BY <1>5, <2>4, <2>5 DEF mqtt_request_send, TypeOK, CallShape, RecordShape,
       connVars, ackVars, handlerVars, yieldVars, qosVars
<1>6. CASE mqtt_publish_record(i)
  <2> DEFINE p == u[i].pkt
             type == IF p.qos = 1 THEN "PUBACK" ELSE "PUBREC"
             r == Ack(type, p.id, NULL, WithDup(p))
  <2>1. CallOK(u[i])
    BY DEF CallShape
  <2>2. RecordOK(r) /\ Flow(p) \in Flows
    BY <1>6, <2>1 DEF mqtt_publish_record, CallOK, Calls, Packets, WithDup, RecordOK, Ack,
       AckRecords, AckTypes, Flow, Flows
  <2> HIDE DEF r
  <2>3. PICK c \in {At("failed", p), Idle} : u' = [u EXCEPT ![i] = c]
    BY <1>6 DEF mqtt_publish_record
  <2>4. CallShape'
    BY <2>1, <2>3, AtOK, IdleOK, CallStep
  <2>5. \/ UNCHANGED <<acks, ackNum, todo, inflight>>
        \/ AppendRecord(r) /\ inflight' = inflight \cup {Flow(p)}
    BY <1>6 DEF mqtt_publish_record, r, ackVars
  <2>6. acks' \subseteq AckRecords /\ RecordShape' /\ inflight' \subseteq Flows
    <3>1. CASE UNCHANGED <<acks, ackNum, todo, inflight>>
      BY <3>1 DEF TypeOK, RecordShape
    <3>2. CASE AppendRecord(r) /\ inflight' = inflight \cup {Flow(p)}
      BY <2>2, <3>2, AppendStep DEF TypeOK
    <3> QED
      BY <2>5, <3>1, <3>2
  <2> QED
    BY <1>0, <1>6, <2>4, <2>6 DEF mqtt_publish_record, TypeOK, CallShape, connVars, handlerVars
<1>7. CASE mqtt_publish_release(i) \/ mqtt_publish_disconnected(i)
  <2>1. PICK c \in {At("released", u[i].pkt), Idle} : u' = [u EXCEPT ![i] = c]
    BY <1>7 DEF mqtt_publish_release, mqtt_publish_disconnected
  <2>2. CallShape'
    BY <2>1, AtOK, IdleOK, CallStep DEF CallShape
  <2> QED
    BY <1>7, <2>2 DEF mqtt_publish_release, mqtt_publish_disconnected, TypeOK, CallShape, States,
       RecordShape, ackVars, handlerVars, yieldVars, qosVars
<1>8. CASE mqtt_subscribe_record(i)
  <2> DEFINE p == u[i].pkt
  <2>1. CallOK(u[i])
    BY DEF CallShape
  <2>2. p \in Packets /\ p.id \in Ids /\ p.body \in Topics
    BY <1>8, <2>1 DEF mqtt_subscribe_record, CallOK, Calls
  <2>3. PICK h \in HandlerAlloc : SubscribeRecord(p, h)
    BY <1>8 DEF mqtt_subscribe_record
  <2>5. /\ acks' \subseteq AckRecords /\ RecordShape'
        /\ mem' \in [Handlers -> Topics \cup {NULL}]
    BY <2>2, <2>3, SubscribeType
  <2>6. CallShape'
    BY <1>8, IdleOK, CallStep DEF mqtt_subscribe_record
  <2> QED
    BY <1>0, <1>8, <2>5, <2>6 DEF mqtt_subscribe_record, TypeOK, CallShape, connVars, qosVars
<1>9. CASE mqtt_unsubscribe_record(i)
  <2> DEFINE p == u[i].pkt
  <2>1. CallOK(u[i])
    BY DEF CallShape
  <2>2. \A h \in Installed(p.body) : RecordOK(Ack("UNSUBACK", p.id, h, p))
    BY <1>9, <2>1 DEF mqtt_unsubscribe_record, CallOK, Calls, Installed, TypeOK, RecordOK, Ack,
       AckRecords, AckTypes
  <2>3. CallShape'
    BY <1>9, IdleOK, CallStep DEF mqtt_unsubscribe_record
  <2>4. acks' \subseteq AckRecords /\ RecordShape'
    <3>1. CASE acks' = acks
      BY <3>1 DEF TypeOK, RecordShape
    <3>2. CASE \E h \in Installed(p.body) : AppendRecord(Ack("UNSUBACK", p.id, h, p))
      BY <2>2, <3>2, AppendStep DEF TypeOK
    <3> QED
      BY <1>9, <3>1, <3>2 DEF mqtt_unsubscribe_record, ackVars
  <2> QED
    BY <1>0, <1>9, <2>3, <2>4 DEF mqtt_unsubscribe_record, TypeOK, CallShape, connVars, handlerVars, qosVars
<1>10. CASE mqtt_disconnect(i) \/ mqtt_disconnect_clean(i)
  <2>1. PICK c \in {At("disconnected", u[i].pkt), Idle} : u' = [u EXCEPT ![i] = c]
    BY <1>10 DEF mqtt_disconnect, mqtt_disconnect_clean
  <2>2. CallShape'
    BY <2>1, AtOK, IdleOK, CallStep DEF CallShape
  <2>3. out' \in Packets \cup {NULL}
    BY <1>10, PktType DEF mqtt_disconnect, mqtt_disconnect_clean, mqtt_send_packet, Kinds
  <2> QED
    BY <1>10, <2>2, <2>3 DEF mqtt_disconnect, mqtt_disconnect_clean, TypeOK, CallShape, States,
       RecordShape, connVars, ackVars, handlerVars, yieldVars, qosVars
<1> QED
  BY <1>1, <1>2, <1>3, <1>4, <1>5, <1>6, <1>7, <1>8, <1>9, <1>10 DEF ApplicationStep

\* Removing records keeps the record types.
LEMMA RecordsShrink ==
    ASSUME TypeInv, acks' \subseteq acks
    PROVE  acks' \subseteq AckRecords /\ RecordShape'
BY DEF TypeInv, TypeOK, RecordShape

\* Adding a well-formed record keeps the record types.
LEMMA RecordsGrow ==
    ASSUME TypeInv, NEW r, RecordOK(r), acks' \subseteq acks \cup {r}
    PROVE  acks' \subseteq AckRecords /\ RecordShape'
BY DEF TypeInv, TypeOK, RecordShape, RecordOK

\* Destroying or installing the handler of a record keeps the heap's type.
LEMMA HandlerType ==
    ASSUME TypeOK, NEW h \in Handlers,
           \/ mqtt_msg_handler_destory(h)
           \/ \E code : mqtt_msg_handlers_install(h, code)
           \/ UNCHANGED <<handlerVars, ub>>
    PROVE  /\ mem' \in [Handlers -> Topics \cup {NULL}]
           /\ installed' \subseteq Handlers /\ refused' \subseteq Handlers
           /\ ub' \in {"none", "use_after_free", "uninitialised_read"}
BY DEF TypeOK, mqtt_msg_handler_destory, mqtt_msg_handlers_install, handlerVars

\* The publications sent and not recorded are well-formed flows.
LEMMA UnrecordedType ==
    ASSUME TypeInv, NEW q \in 1..2, NEW id \in Ids
    PROVE  Unrecorded(q, id) \subseteq Flows
<1> SUFFICES ASSUME NEW i \in Users, u[i].pc = "record", u[i].pkt.kind = "PUBLISH",
                    u[i].pkt.qos = q, u[i].pkt.id = id
             PROVE  Flow(u[i].pkt) \in Flows
  BY DEF Unrecorded
<1>1. u[i].pkt.body \in Msgs
  BY DEF TypeInv, CallShape, CallOK
<1> QED
  BY <1>1 DEF Flow, Flows

\* A packet handled by the yield thread keeps the types.
LEMMA TypePacket ==
    ASSUME TypeInv, ListInv', mqtt_packet_handle
    PROVE  TypeInv'
<1> USE DEF TypeInv
<1>0. ackNum' \in Nat /\ todo' \subseteq acks'
  BY FS_CardinalityType DEF ListInv, AckCount
<1>1. CASE ignored_packet \/ pingresp_packet_handle \/ nothing_read
  <2>1. y' \in {"scan", "loop", "keep"}
    BY <1>1 DEF ignored_packet, pingresp_packet_handle, nothing_read, StartScan, ThenKeepAlive
  <2>2. UNCHANGED <<state, net, packetId, ackVars, handlerVars, u, resub, ub, qosVars>>
        /\ ping' \in {0, ping} /\ out' = NULL
    BY <1>1 DEF ignored_packet, pingresp_packet_handle, nothing_read, ThenKeepAlive, connVars
  <2> QED
    BY <1>0, <2>1, <2>2 DEF TypeOK, CallShape, RecordShape, ackVars, handlerVars, qosVars
<1>2. ASSUME NEW type, NEW id \in Ids, mqtt_puback_and_pubcomp_packet_handle(type, id)
      PROVE  TypeInv'
  <2>1. acks' \subseteq AckRecords /\ RecordShape'
    BY <1>2, RecordsShrink DEF mqtt_puback_and_pubcomp_packet_handle, mqtt_ack_list_unrecord
  <2>2. early' \subseteq Flows
    BY <1>2, UnrecordedType DEF mqtt_puback_and_pubcomp_packet_handle, TypeOK
  <2> QED
    BY <1>0, <1>2, <2>1, <2>2 DEF mqtt_puback_and_pubcomp_packet_handle, ThenKeepAlive, TypeOK, CallShape,
       connVars, handlerVars
<1>3. ASSUME NEW id \in Ids, NEW code, mqtt_suback_packet_handle(id, code)
      PROVE  TypeInv'
  <2>1. acks' \subseteq AckRecords /\ RecordShape'
    BY <1>3, RecordsShrink DEF mqtt_suback_packet_handle, mqtt_ack_list_unrecord
  <2>2. \A r \in Matching("SUBACK", id) : r.handler \in Handlers
    BY DEF Matching, RecordShape, RecordOK
  <2>3. /\ mem' \in [Handlers -> Topics \cup {NULL}]
        /\ installed' \subseteq Handlers /\ refused' \subseteq Handlers
        /\ ub' \in {"none", "use_after_free", "uninitialised_read"}
    <3>1. CASE UNCHANGED <<handlerVars, ub>>
      BY <3>1 DEF TypeOK, handlerVars
    <3>2. CASE \E h \in Handlers : \/ mqtt_msg_handler_destory(h)
                                   \/ mqtt_msg_handlers_install(h, code)
      BY <3>2, HandlerType
    <3> QED
      BY <1>3, <2>2, <3>1, <3>2 DEF mqtt_suback_packet_handle
  <2> QED
    BY <1>0, <1>3, <2>1, <2>3 DEF mqtt_suback_packet_handle, ThenKeepAlive, TypeOK, CallShape,
       connVars, qosVars
<1>4. ASSUME NEW id \in Ids, mqtt_unsuback_packet_handle(id)
      PROVE  TypeInv'
  <2>1. acks' \subseteq AckRecords /\ RecordShape'
    BY <1>4, RecordsShrink DEF mqtt_unsuback_packet_handle, mqtt_ack_list_unrecord
  <2>2. \A r \in Matching("UNSUBACK", id) : r.handler \in Handlers
    BY DEF Matching, RecordShape, RecordOK
  <2>3. /\ mem' \in [Handlers -> Topics \cup {NULL}]
        /\ installed' \subseteq Handlers /\ refused' \subseteq Handlers
        /\ ub' \in {"none", "use_after_free", "uninitialised_read"}
    <3>1. CASE UNCHANGED handlerVars /\ ub' \in {ub, "uninitialised_read"}
      BY <3>1 DEF TypeOK, handlerVars
    <3>2. CASE \E h \in Handlers : mqtt_msg_handler_destory(h)
      BY <3>2, HandlerType
    <3> QED
      BY <1>4, <2>2, <3>1, <3>2 DEF mqtt_unsuback_packet_handle
  <2> QED
    BY <1>0, <1>4, <2>1, <2>3 DEF mqtt_unsuback_packet_handle, ThenKeepAlive, TypeOK, CallShape,
       connVars, qosVars
<1>5. ASSUME NEW id \in Ids, NEW q \in InQos, NEW ok \in BOOLEAN,
             mqtt_publish_packet_handle(id, q, ok)
      PROVE  TypeInv'
  <2> DEFINE reply == Pkt(IF q = 1 THEN "PUBACK" ELSE "PUBREC", id, NULL)
             r == Ack("PUBREL", id, NULL, reply)
  <2>1. reply \in Packets
    BY PktType DEF Kinds
  <2>2. RecordOK(r)
    BY <2>1, AckType DEF RecordOK, AckTypes
  <2> HIDE DEF reply, r
  <2>3. acks' \subseteq acks \cup {r}
    BY <1>5 DEF mqtt_publish_packet_handle, mqtt_ack_list_record, ackVars, reply, r
  <2>4. acks' \subseteq AckRecords /\ RecordShape'
    BY <2>2, <2>3, RecordsGrow
  <2>5. del2' \in [Ids -> 0..2]
    <3>1. \/ del2' = del2
          \/ \E n \in {2, del2[id] + 1} : del2' = [del2 EXCEPT ![id] = n] /\ (n = 2 \/ del2[id] # 2)
      BY <1>5 DEF mqtt_publish_packet_handle
    <3>2. del2[id] \in 0..2 /\ del2 \in [Ids -> 0..2]
      BY DEF TypeOK
    <3> QED
      BY <3>1, <3>2
  <2>6. out' \in Packets \cup {NULL}
    BY <1>5, <2>1 DEF mqtt_publish_packet_handle, mqtt_send_packet, reply
  <2> QED
    BY <1>0, <1>5, <2>4, <2>5, <2>6 DEF mqtt_publish_packet_handle, ThenKeepAlive, TypeOK,
       CallShape, connVars, handlerVars
<1>6. ASSUME NEW id \in Ids, mqtt_pubrec_packet_handle(id)
      PROVE  TypeInv'
  <2> DEFINE pubrel == Pkt("PUBREL", id, NULL)
             r == Ack("PUBCOMP", id, NULL, pubrel)
  <2>1. pubrel \in Packets
    BY PktType DEF Kinds
  <2>2. RecordOK(r)
    BY <2>1, AckType DEF RecordOK, AckTypes
  <2> HIDE DEF pubrel, r
  <2>3. acks' \subseteq acks \cup {r}
    BY <1>6 DEF mqtt_pubrec_packet_handle, mqtt_ack_list_unrecord, pubrel, r
  <2>4. acks' \subseteq AckRecords /\ RecordShape'
    BY <2>2, <2>3, RecordsGrow
  <2>5. inflight' \subseteq Flows
    <3>1. \A f \in Flows : Released(f) \in Flows
      BY DEF Released, Flows
    <3>2. inflight' = (inflight \ Receivable(id)) \cup {Released(f) : f \in Receivable(id)}
      BY <1>6 DEF mqtt_pubrec_packet_handle
    <3>3. inflight \subseteq Flows /\ Receivable(id) \subseteq inflight
      BY DEF TypeOK, Receivable
    <3> QED
      BY <3>1, <3>2, <3>3
  <2>6. out' \in Packets \cup {NULL}
    BY <1>6, <2>1 DEF mqtt_pubrec_packet_handle, mqtt_send_packet, pubrel
  <2>7. early' \subseteq Flows
    BY <1>6, UnrecordedType DEF mqtt_pubrec_packet_handle, TypeOK
  <2> QED
    BY <1>0, <1>6, <2>4, <2>5, <2>6, <2>7 DEF mqtt_pubrec_packet_handle, ThenKeepAlive, TypeOK,
       CallShape, connVars, handlerVars
<1>7. ASSUME NEW id \in Ids, NEW ok \in BOOLEAN, mqtt_pubrel_packet_handle(id, ok)
      PROVE  TypeInv'
  <2>1. acks' \subseteq AckRecords /\ RecordShape'
    BY <1>7, RecordsShrink DEF mqtt_pubrel_packet_handle, mqtt_ack_list_unrecord
  <2>2. out' \in Packets \cup {NULL}
    BY <1>7, PktType DEF mqtt_pubrel_packet_handle, mqtt_send_packet, Kinds
  <2>3. del2' \in [Ids -> 0..2]
    BY <1>7 DEF mqtt_pubrel_packet_handle, TypeOK
  <2> QED
    BY <1>0, <1>7, <2>1, <2>2, <2>3 DEF mqtt_pubrel_packet_handle, ThenKeepAlive, TypeOK, CallShape,
       connVars, handlerVars
<1> QED
  BY <1>1, <1>2, <1>3, <1>4, <1>5, <1>6, <1>7 DEF mqtt_packet_handle

\* Every other step of the yield thread keeps the types.
LEMMA TypeYield ==
    ASSUME TypeInv, ListInv', YieldStep
    PROVE  TypeInv'
<1> USE DEF TypeInv
<1>0. ackNum' \in Nat /\ todo' \subseteq acks'
  BY FS_CardinalityType DEF ListInv, AckCount
<1>1. CASE mqtt_packet_handle
  BY <1>1, TypePacket
<1>2. CASE mqtt_keep_alive
  <2>1. out' \in Packets \cup {NULL}
    BY <1>2, PktType DEF mqtt_keep_alive, mqtt_send_packet, Kinds
  <2>2. y' \in {"loop", "scan", "drop"} /\ net' \in {net, "down"} /\ ping' \in {ping, 1}
    BY <1>2 DEF mqtt_keep_alive, StartScan
  <2> QED
    BY <1>0, <1>2, <2>1, <2>2 DEF mqtt_keep_alive, TypeOK, CallShape, RecordShape,
       ackVars, handlerVars, qosVars
<1>3. CASE mqtt_keep_alive_drop \/ mqtt_ack_list_scan_end \/ mqtt_try_reconnect
           \/ mqtt_reconnect_done
  BY <1>3 DEF mqtt_keep_alive_drop, mqtt_ack_list_scan_end, mqtt_try_reconnect,
     mqtt_reconnect_done, TypeOK, States, CallShape, RecordShape, connVars, ackVars, handlerVars,
     qosVars
<1>4. CASE mqtt_ack_handler_resend
  <2>1. PICK r \in todo, ok \in BOOLEAN : mqtt_send_packet(r.payload, ok)
    BY <1>4 DEF mqtt_ack_handler_resend
  <2>2. r.payload \in Packets
    BY DEF TypeOK, AckRecords
  <2>3. out' \in Packets \cup {NULL}
    BY <2>1, <2>2 DEF mqtt_send_packet
  <2> QED
    BY <1>0, <1>4, <2>3 DEF mqtt_ack_handler_resend, TypeOK, CallShape, RecordShape,
       connVars, ackVars, handlerVars, qosVars
<1>5. CASE mqtt_ack_list_scan_destroy
  <2>1. PICK r \in todo : /\ r.type \in {"SUBACK", "UNSUBACK"}
                          /\ mqtt_msg_handler_destory(r.handler)
                          /\ acks' = acks \ {r}
    BY <1>5 DEF mqtt_ack_list_scan_destroy
  <2>2. r.handler \in Handlers
    BY <2>1 DEF TypeOK, RecordShape, RecordOK
  <2>3. acks' \subseteq AckRecords /\ RecordShape'
    BY <2>1, RecordsShrink
  <2>4. /\ mem' \in [Handlers -> Topics \cup {NULL}]
        /\ installed' \subseteq Handlers /\ refused' \subseteq Handlers
        /\ ub' \in {"none", "use_after_free", "uninitialised_read"}
    BY <2>1, <2>2, HandlerType
  <2> QED
    BY <1>0, <1>5, <2>3, <2>4 DEF mqtt_ack_list_scan_destroy, TypeOK, CallShape, connVars, qosVars
<1>6. CASE mqtt_reconnect_handshake
  <2>1. out' \in Packets \cup {NULL}
    BY <1>6, PktType DEF mqtt_reconnect_handshake, mqtt_send_packet, Kinds
  <2> QED
    BY <1>6, <2>1 DEF mqtt_reconnect_handshake, TypeOK, States, CallShape, RecordShape,
       ackVars, handlerVars, qosVars
<1>7. CASE mqtt_try_resubscribe
  <2>1. PICK h \in resub :
          LET p == Pkt("SUBSCRIBE", mqtt_get_next_packet_id, mem[h])
          IN  /\ resub' = resub \ {h}
              /\ packetId' \in {packetId, p.id}
              /\ out' = NULL \/ \E ok \in BOOLEAN : mqtt_send_packet(p, ok)
              /\ UNCHANGED <<ackVars, mem, todo>> \/ \E g \in HandlerAlloc : SubscribeRecord(p, g)
              /\ UNCHANGED <<connVars, installed, refused, u, y, ub, qosVars>>
    BY <1>7 DEF mqtt_try_resubscribe
  <2> DEFINE p == Pkt("SUBSCRIBE", mqtt_get_next_packet_id, mem[h])
  <2>2. p \in Packets /\ p.id \in Ids /\ p.body \in Topics \cup {NULL}
    <3>1. mem[h] \in Topics \cup {NULL}
      BY DEF TypeOK
    <3> QED
      BY <3>1, NextIdType DEF Pkt, Packets, Kinds
  <2> HIDE DEF p
  <2>3. /\ acks' \subseteq AckRecords /\ RecordShape'
        /\ mem' \in [Handlers -> Topics \cup {NULL}]
    <3>1. CASE UNCHANGED <<acks, mem>>
      BY <3>1 DEF TypeOK, RecordShape
    <3>2. CASE \E g \in HandlerAlloc : SubscribeRecord(p, g)
      BY <2>2, <3>2, SubscribeType
    <3> QED
      BY <2>1, <3>1, <3>2 DEF p, ackVars
  <2>4. out' \in Packets \cup {NULL} /\ packetId' \in Ids
    BY <2>1, <2>2 DEF mqtt_send_packet, p, TypeOK
  <2>5. resub' \subseteq Handlers
    BY <2>1 DEF TypeOK
  <2> QED
    BY <1>0, <2>1, <2>3, <2>4, <2>5 DEF TypeOK, CallShape, connVars, qosVars
<1>8. CASE mqtt_resubscribed
  BY <1>0, <1>8 DEF mqtt_resubscribed, StartScan, TypeOK, CallShape, RecordShape,
     connVars, ackVars, handlerVars, qosVars
<1>9. CASE mqtt_clean_session
  <2>1. mem' \in [Handlers -> Topics \cup {NULL}]
    BY <1>9 DEF mqtt_clean_session, TypeOK
  <2> QED
    BY <1>0, <1>9, <2>1 DEF mqtt_clean_session, TypeOK, States, CallShape, RecordShape
<1>10. CASE mqtt_deliver_message
  BY <1>0, <1>10 DEF mqtt_deliver_message, ThenKeepAlive, TypeOK, CallShape, RecordShape,
     connVars, ackVars, handlerVars, qosVars
<1> QED
  BY <1>1, <1>2, <1>3, <1>4, <1>5, <1>6, <1>7, <1>8, <1>9, <1>10 DEF YieldStep

\* Every step keeps the types.
LEMMA TypeStep == TypeInv /\ ListInv' /\ [Next]_vars => TypeInv'
<1> SUFFICES ASSUME TypeInv, ListInv', [Next]_vars PROVE TypeInv'
    OBVIOUS
<1>1. CASE UNCHANGED vars
  BY <1>1 DEF TypeInv, TypeOK, CallShape, RecordShape, vars
<1> QED
  BY <1>1, TypeYield, TypeApplication DEF Next, Stopped

\* Every variable keeps its type in every behaviour of the client: in
\* particular the packet id stays in 1..MQTT_MAX_PACKET_ID and a scan only
\* visits records that are still on the list.
THEOREM TypeCorrect == Spec => []TypeOK
<1>1. TypeInv => TypeOK
  BY DEF TypeInv
<1> QED
  BY <1>1, ListInit, ListStep, TypeInit, TypeStep, PTL DEF Spec

-----------------------------------------------------------------------------
(* The limit on publications.  It is tested before the packet is sent and  *)
(* the record is made after it: the write lock, held in between, leaves    *)
(* room for that one record.                                               *)

Waiting == {r \in acks : r.type \in {"PUBACK", "PUBREC"}}

Publishing(i) == u[i].pc = "record" /\ u[i].pkt.kind = "PUBLISH"

WindowInv ==
    /\ \A i, j \in Users : u[i].pc = "record" /\ u[j].pc = "record" => i = j
    /\ Cardinality(Waiting) <= AckMax
    /\ \A i \in Users : Publishing(i) => Cardinality(Waiting) < AckMax

\* The publications that wait are some of the records.
LEMMA WaitingCard ==
    ASSUME ListInv
    PROVE  /\ IsFiniteSet(Waiting) /\ Cardinality(Waiting) \in Nat
           /\ ackNum \in Nat /\ Cardinality(Waiting) <= ackNum
<1>1. IsFiniteSet(acks) /\ ackNum = Cardinality(acks)
  BY DEF ListInv, AckCount
<1>2. Waiting \subseteq acks
  BY DEF Waiting
<1> QED
  BY <1>1, <1>2, FS_Subset, FS_CardinalityType

\* A step that adds no record of a publication and begins none.
LEMMA WindowKeep ==
    ASSUME ListInv, WindowInv, Waiting' \subseteq Waiting,
           \A i \in Users : u'[i].pc = "record" => u[i].pc = "record" /\ u'[i].pkt = u[i].pkt
    PROVE  WindowInv'
<1>1. Cardinality(Waiting') <= Cardinality(Waiting) /\ Cardinality(Waiting') \in Nat
  BY WaitingCard, FS_Subset, FS_CardinalityType
<1>2. \A i \in Users : Publishing(i)' => Publishing(i)
  BY DEF Publishing
<1> QED
  BY <1>1, <1>2, WaitingCard, AckMaxAssumption DEF WindowInv

\* The end of mqtt_subscribe adds no record of a publication.
LEMMA WindowSubscribe ==
    ASSUME NEW p, NEW h, SubscribeRecord(p, h)
    PROVE  Waiting' = Waiting
<1>1. Ack("SUBACK", p.id, h, p).type = "SUBACK"
  BY DEF Ack
<1> QED
  BY <1>1 DEF SubscribeRecord, AppendRecord, mqtt_ack_list_record, ackVars, Waiting

\* The steps of an application thread: only a call that has passed the test of
\* the limit comes to its record, and it is alone there.
LEMMA WindowApplication ==
    ASSUME ListInv, TypeInv, WindowInv, NEW i \in Users, ApplicationStep(i)
    PROVE  WindowInv'
<1>0. u \in [Users -> Calls] /\ Idle.pc = "idle" /\ \A pc, p : At(pc, p).pc = pc
  BY IdleOK DEF TypeInv, CallShape, At
<1>1. CASE mqtt_publish_send(i)
  <2>1. Waiting' = Waiting /\ \A j \in Users : u[j].pc # "record"
    BY <1>1 DEF mqtt_publish_send, WriteLockFree, Waiting, ackVars
  <2>2. \A j \in Users : j # i => u'[j] = u[j]
    BY <1>0, <1>1 DEF mqtt_publish_send
  <2>3. u'[i].pc = "record" => ~mqtt_ack_handler_is_maximum
    BY <1>0, <1>1 DEF mqtt_publish_send
  <2>4. u'[i].pc = "record" => Cardinality(Waiting) < AckMax
    BY <2>3, WaitingCard, AckMaxAssumption DEF mqtt_ack_handler_is_maximum
  <2> QED
    BY <2>1, <2>2, <2>4 DEF WindowInv, Publishing
<1>2. CASE mqtt_request_send(i)
  <2>1. Waiting' = Waiting /\ \A j \in Users : u[j].pc # "record"
    BY <1>2 DEF mqtt_request_send, WriteLockFree, Waiting, ackVars
  <2>2. \A j \in Users : j # i => u'[j] = u[j]
    BY <1>0, <1>2 DEF mqtt_request_send
  <2>3. u'[i].pc = "record" => u'[i].pkt.kind \in {"SUBSCRIBE", "UNSUBSCRIBE"}
    <3> DEFINE sent == WithId(u[i].pkt, mqtt_get_next_packet_id)
    <3>1. u'[i] = At("record", sent) \/ u'[i] = Idle
      BY <1>0, <1>2 DEF mqtt_request_send
    <3>2. sent.kind \in {"SUBSCRIBE", "UNSUBSCRIBE"} /\ At("record", sent).pkt = sent
      BY <1>2 DEF mqtt_request_send, At
    <3> HIDE DEF sent
    <3> QED
      BY <1>0, <3>1, <3>2
  <2> QED
    BY <2>1, <2>2, <2>3 DEF WindowInv, Publishing
<1>3. CASE mqtt_publish_record(i)
  <2>1. Publishing(i) /\ Cardinality(Waiting) < AckMax
    BY <1>3 DEF mqtt_publish_record, Publishing, WindowInv
  <2>2. \A j \in Users : u'[j].pc # "record"
    <3>1. u'[i].pc # "record" /\ \A j \in Users : j # i => u'[j] = u[j]
      <4>1. u' = [u EXCEPT ![i] = Idle] \/ u' = [u EXCEPT ![i] = At("failed", u[i].pkt)]
        BY <1>3 DEF mqtt_publish_record
      <4>2. At("failed", u[i].pkt).pc = "failed"
        BY <1>0
      <4> QED
        BY <1>0, <4>1, <4>2
    <3>2. \A j \in Users : j # i => u[j].pc # "record"
      BY <1>3 DEF mqtt_publish_record, WindowInv
    <3> QED
      BY <3>1, <3>2
  <2>3. CASE acks' = acks
    <3>1. Waiting' \subseteq Waiting
      BY <2>3 DEF Waiting
    <3> QED
      BY <2>2, <3>1, WindowKeep
  <2>4. CASE acks' # acks
    <3>1. PICK r : acks' = acks \cup {r}
      BY <1>3, <2>4 DEF mqtt_publish_record, AppendRecord, mqtt_ack_list_record, ackVars
    <3>2. Waiting' \subseteq Waiting \cup {r}
      BY <3>1 DEF Waiting
    <3>3. /\ IsFiniteSet(Waiting \cup {r}) /\ Cardinality(Waiting \cup {r}) <= Cardinality(Waiting) + 1
      <4>1. IsFiniteSet(Waiting) /\ Cardinality(Waiting) \in Nat
        BY WaitingCard
      <4>2. /\ IsFiniteSet(Waiting \cup {r})
            /\ Cardinality(Waiting \cup {r}) = IF r \in Waiting THEN Cardinality(Waiting)
                                               ELSE Cardinality(Waiting) + 1
        BY <4>1, FS_AddElement, Zenon
      <4> HIDE DEF Waiting
      <4> QED
        BY <4>1, <4>2
    <3>4. /\ Cardinality(Waiting') <= Cardinality(Waiting \cup {r})
          /\ Cardinality(Waiting') \in Nat /\ Cardinality(Waiting \cup {r}) \in Nat
      <4> DEFINE more == Waiting \cup {r}
      <4>1. IsFiniteSet(more) /\ Waiting' \subseteq more
        BY <3>2, <3>3
      <4> HIDE DEF more
      <4>2. /\ IsFiniteSet(Waiting') /\ Cardinality(Waiting') <= Cardinality(more)
            /\ Cardinality(Waiting') \in Nat /\ Cardinality(more) \in Nat
        BY <4>1, FS_Subset, FS_CardinalityType
      <4> QED
        BY <4>2 DEF more
    <3>5. Cardinality(Waiting') <= AckMax
      BY <2>1, <3>3, <3>4, WaitingCard, AckMaxAssumption
    <3> QED
      BY <2>2, <3>5 DEF WindowInv, Publishing
  <2> QED
    BY <2>3, <2>4
<1>4. CASE mqtt_subscribe_record(i) \/ mqtt_unsubscribe_record(i)
  <2>1. \A j \in Users : u'[j].pc = "record" => u'[j] = u[j]
    BY <1>0, <1>4 DEF mqtt_subscribe_record, mqtt_unsubscribe_record
  <2>2. \A id, h, p : Ack("UNSUBACK", id, h, p).type = "UNSUBACK"
    BY DEF Ack
  <2>3. CASE mqtt_subscribe_record(i)
    BY <2>1, <2>3, WindowSubscribe, WindowKeep DEF mqtt_subscribe_record
  <2>4. CASE mqtt_unsubscribe_record(i)
    <3>1. ASSUME acks' = acks
          PROVE  Waiting' = Waiting
      BY <3>1 DEF Waiting
    <3>2. ASSUME NEW h, acks' = acks \cup {Ack("UNSUBACK", u[i].pkt.id, h, u[i].pkt)}
          PROVE  Waiting' = Waiting
      BY <2>2, <3>2 DEF Waiting
    <3>3. Waiting' = Waiting
      BY <2>4, <3>1, <3>2 DEF mqtt_unsubscribe_record, AppendRecord, mqtt_ack_list_record, ackVars
    <3> QED
      BY <2>1, <3>3, WindowKeep
  <2> QED
    BY <1>4, <2>3, <2>4
<1>5. CASE \/ mqtt_connect(i) \/ mqtt_publish(i) \/ mqtt_subscribe(i) \/ mqtt_unsubscribe(i)
           \/ mqtt_publish_release(i) \/ mqtt_publish_disconnected(i)
           \/ mqtt_disconnect(i) \/ mqtt_disconnect_clean(i)
  <2>1. acks' = acks
    BY <1>5 DEF mqtt_connect, mqtt_publish, mqtt_subscribe, mqtt_unsubscribe, CheckConnected,
       mqtt_publish_release, mqtt_publish_disconnected, mqtt_disconnect, mqtt_disconnect_clean, ackVars
  <2>2. \A j \in Users : u'[j].pc = "record" => u'[j] = u[j]
    BY <1>0, <1>5 DEF mqtt_connect, mqtt_publish, mqtt_subscribe, mqtt_unsubscribe, CheckConnected,
       mqtt_publish_release, mqtt_publish_disconnected, mqtt_disconnect, mqtt_disconnect_clean
  <2> QED
    BY <2>1, <2>2, WindowKeep DEF Waiting
<1> QED
  BY <1>1, <1>2, <1>3, <1>4, <1>5 DEF ApplicationStep

\* The yield thread removes records of publications and never adds one.
LEMMA WindowYield ==
    ASSUME ListInv, WindowInv, YieldStep
    PROVE  WindowInv'
<1>0. u' = u
  BY DEF YieldStep, mqtt_packet_handle, mqtt_puback_and_pubcomp_packet_handle,
     mqtt_suback_packet_handle, mqtt_unsuback_packet_handle, mqtt_publish_packet_handle,
     mqtt_pubrec_packet_handle, mqtt_pubrel_packet_handle, pingresp_packet_handle, nothing_read,
     ignored_packet, mqtt_deliver_message, mqtt_keep_alive, mqtt_keep_alive_drop,
     mqtt_ack_handler_resend,
     mqtt_ack_list_scan_destroy, mqtt_ack_list_scan_end, mqtt_try_reconnect,
     mqtt_reconnect_handshake, mqtt_reconnect_done, mqtt_try_resubscribe, mqtt_resubscribed,
     mqtt_clean_session
<1>1. Waiting' \subseteq Waiting
  <2>1. CASE acks' \subseteq acks
    BY <2>1 DEF Waiting
  <2>2. ASSUME NEW id \in Ids, NEW q \in InQos, NEW ok \in BOOLEAN,
               mqtt_publish_packet_handle(id, q, ok)
        PROVE  Waiting' \subseteq Waiting
    <3>1. \A p : Ack("PUBREL", id, NULL, p).type = "PUBREL"
      BY DEF Ack
    <3> QED
      BY <2>2, <3>1 DEF mqtt_publish_packet_handle, mqtt_ack_list_record, ackVars, Waiting
  <2>3. ASSUME NEW id \in Ids, mqtt_pubrec_packet_handle(id)
        PROVE  Waiting' \subseteq Waiting
    <3>1. \A p : Ack("PUBCOMP", id, NULL, p).type = "PUBCOMP"
      BY DEF Ack
    <3>2. \A r \in acks' : r \in acks \/ r = Ack("PUBCOMP", id, NULL, Pkt("PUBREL", id, NULL))
      BY <2>3 DEF mqtt_pubrec_packet_handle, mqtt_ack_list_unrecord
    <3> QED
      BY <3>1, <3>2 DEF Waiting
  <2>4. CASE mqtt_packet_handle
    BY <2>1, <2>2, <2>3, <2>4 DEF mqtt_packet_handle, mqtt_puback_and_pubcomp_packet_handle,
       mqtt_suback_packet_handle, mqtt_unsuback_packet_handle, mqtt_pubrel_packet_handle,
       mqtt_ack_list_unrecord, pingresp_packet_handle, nothing_read, ignored_packet, ackVars
  <2>5. CASE mqtt_try_resubscribe
    BY <2>1, <2>5, WindowSubscribe DEF mqtt_try_resubscribe, ackVars
  <2> QED
    BY <2>1, <2>4, <2>5 DEF YieldStep, mqtt_deliver_message, mqtt_keep_alive, mqtt_keep_alive_drop,
       mqtt_ack_handler_resend, mqtt_ack_list_scan_destroy, mqtt_ack_list_scan_end,
       mqtt_try_reconnect, mqtt_reconnect_handshake, mqtt_reconnect_done, mqtt_resubscribed,
       mqtt_clean_session, ackVars
<1> QED
  BY <1>0, <1>1, WindowKeep

\* No call is past its send at the start.
LEMMA WindowInit == Init => WindowInv
<1> SUFFICES ASSUME Init PROVE WindowInv
    OBVIOUS
<1>1. Waiting = {} /\ \A i \in Users : u[i].pc = "idle"
  BY IdleOK DEF Init, Waiting
<1> QED
  BY <1>1, FS_EmptySet, AckMaxAssumption DEF WindowInv, Publishing

\* Every step keeps the limit.
LEMMA WindowStep == ListInv /\ TypeInv /\ WindowInv /\ [Next]_vars => WindowInv'
<1> SUFFICES ASSUME ListInv, TypeInv, WindowInv, [Next]_vars PROVE WindowInv'
    OBVIOUS
<1>1. CASE UNCHANGED vars
  BY <1>1, WindowKeep DEF vars, Waiting
<1> QED
  BY <1>1, WindowApplication, WindowYield DEF Next, Stopped

\* At most MQTT_ACK_HANDLER_NUM_MAX publications wait for their first
\* acknowledgement, although mqtt_publish tests the limit before it sends and
\* records after it.
THEOREM WindowCorrect == Spec => []PublishWindow
<1>1. WindowInv => PublishWindow
  BY DEF WindowInv, Waiting, PublishWindow
<1> QED
  BY <1>1, WindowInit, WindowStep, ListInit, ListStep, TypeInit, TypeStep, PTL DEF Spec

-----------------------------------------------------------------------------
(* Retransmission.  What a record holds ties it to the flow it serves: a   *)
(* PUBACK or PUBREC record holds the message of an unreleased flow, and no *)
(* other record and no call holds a packet with the DUP flag.              *)

PayloadOK(r) ==
    /\ r.type \in {"PUBACK", "PUBREC"} =>
          /\ Flow(r.payload) \in inflight
          /\ r.payload.id = r.id
          /\ (r.type = "PUBACK") <=> (r.payload.qos = 1)
    /\ r.type = "PUBCOMP" => r = Ack("PUBCOMP", r.id, NULL, Pkt("PUBREL", r.id, NULL))
    /\ r.type \notin {"PUBACK", "PUBREC"} => r.payload.dup = 0

PayloadShape == \A r \in acks : PayloadOK(r)

FirstSends == \A i \in Users : u[i].pkt.dup = 0

ResendInv == PayloadShape /\ FirstSends /\ NoResendAfterAck

\* Records that go and flows that come keep the payloads right.
LEMMA PayloadKeep ==
    ASSUME PayloadShape, acks' \subseteq acks, inflight \subseteq inflight'
    PROVE  PayloadShape'
BY DEF PayloadShape, PayloadOK

\* A new record with the right payload keeps the payloads right.
LEMMA PayloadAdd ==
    ASSUME PayloadShape, NEW r, acks' \subseteq acks \cup {r}, inflight \subseteq inflight',
           PayloadOK(r)'
    PROVE  PayloadShape'
BY DEF PayloadShape, PayloadOK

\* The packets the client builds itself are first sends.
LEMMA PktFresh ==
    ASSUME NEW kind, NEW id, NEW body
    PROVE  /\ Pkt(kind, id, body).dup = 0 /\ Pkt(kind, id, body).id = id
           /\ Pkt(kind, id, body).body = body /\ Pkt(kind, id, body).kind = kind
BY DEF Pkt

\* The fields of a new record.
LEMMA AckFields ==
    ASSUME NEW type, NEW id, NEW h, NEW p
    PROVE  /\ Ack(type, id, h, p).type = type /\ Ack(type, id, h, p).id = id
           /\ Ack(type, id, h, p).handler = h /\ Ack(type, id, h, p).payload = p
BY DEF Ack

\* A record of a request carries the request's own packet.
LEMMA RequestPayload ==
    ASSUME NEW type \in {"SUBACK", "UNSUBACK", "PUBREL"}, NEW id, NEW h, NEW p, p.dup = 0
    PROVE  PayloadOK(Ack(type, id, h, p)) /\ PayloadOK(Ack(type, id, h, p))'
BY DEF PayloadOK, Ack

\* The end of mqtt_subscribe keeps the payloads right.
LEMMA SubscribePayload ==
    ASSUME PayloadShape, NEW p, p.dup = 0, NEW h, SubscribeRecord(p, h), inflight' = inflight
    PROVE  PayloadShape'
<1>1. CASE acks' = acks
  BY <1>1, PayloadKeep
<1>2. CASE AppendRecord(Ack("SUBACK", p.id, h, p))
  <2>1. acks' \subseteq acks \cup {Ack("SUBACK", p.id, h, p)}
    BY <1>2 DEF AppendRecord, mqtt_ack_list_record
  <2> QED
    BY <2>1, PayloadAdd, RequestPayload
<1> QED
  BY <1>1, <1>2 DEF SubscribeRecord, ackVars

\* A packet on the wire is a first send, or what a scan repeats.
Fresh(p) == p # NULL => p.dup = 0

\* A first send, or none, repeats nothing.
LEMMA FreshOut == ASSUME Fresh(out') PROVE NoResendAfterAck'
BY DEF Fresh, NoResendAfterAck

\* Sending a packet without DUP repeats nothing.
LEMMA FreshSend ==
    ASSUME NEW p, p.dup = 0, NEW ok, mqtt_send_packet(p, ok)
    PROVE  NoResendAfterAck'
BY DEF mqtt_send_packet, NoResendAfterAck

\* A step of an application thread.
LEMMA ResendApplication ==
    ASSUME TypeInv, ResendInv, NEW i \in Users, ApplicationStep(i)
    PROVE  ResendInv'
<1> USE DEF ResendInv
<1>t. u \in [Users -> Calls]
  BY DEF TypeInv, TypeOK
<1>i. Idle.pkt.dup = 0
  BY DEF Idle, At, Pkt
<1>1. CASE mqtt_connect(i)
  <2>1. PayloadShape' /\ FirstSends'
    BY <1>1, PayloadKeep DEF mqtt_connect, ackVars, qosVars, FirstSends
  <2>2. Fresh(out')
    BY <1>1, PktFresh DEF mqtt_connect, Fresh
  <2> QED
    BY <2>1, <2>2, FreshOut
<1>2. ASSUME NEW p, p.dup = 0, CheckConnected(i, p) PROVE ResendInv'
  <2>1. PayloadShape'
    BY <1>2, PayloadKeep DEF CheckConnected, ackVars, qosVars
  <2>2. FirstSends'
    BY <1>2, <1>t DEF CheckConnected, FirstSends, At
  <2> QED
    BY <1>2, <2>1, <2>2, FreshOut DEF CheckConnected, Fresh
<1>3. CASE mqtt_publish(i) \/ mqtt_subscribe(i) \/ mqtt_unsubscribe(i)
  <2>1. \A m, q : Publish(0, q, 0, m).dup = 0
    BY DEF Publish
  <2> QED
    BY <1>2, <1>3, <2>1, PktFresh DEF mqtt_publish, mqtt_subscribe, mqtt_unsubscribe
<1>4. CASE mqtt_publish_send(i) \/ mqtt_request_send(i)
  <2>1. PICK id : \/ /\ u' = [u EXCEPT ![i] = At("failed", u[i].pkt)]
                     /\ out' = NULL
                  \/ \E ok \in BOOLEAN :
                        /\ mqtt_send_packet(WithId(u[i].pkt, id), ok)
                        /\ \/ u' = [u EXCEPT ![i] = At("record", WithId(u[i].pkt, id))]
                           \/ u' = [u EXCEPT ![i] = Idle]
    <3>1. CASE mqtt_publish_send(i)
      BY <3>1 DEF mqtt_publish_send
    <3>2. CASE mqtt_request_send(i)
      BY <3>2 DEF mqtt_request_send
    <3> QED BY <1>4, <3>1, <3>2
  <2>2. u[i].pkt.dup = 0 /\ WithId(u[i].pkt, id).dup = 0
    BY DEF FirstSends, WithId
  <2>3. FirstSends'
    BY <1>t, <1>i, <2>1, <2>2 DEF FirstSends, At
  <2>4. NoResendAfterAck'
    BY <2>1, <2>2, FreshSend, FreshOut DEF Fresh
  <2>5. PayloadShape'
    BY <1>4, PayloadKeep DEF mqtt_publish_send, mqtt_request_send, ackVars, qosVars
  <2> QED
    BY <2>3, <2>4, <2>5
<1>5. CASE mqtt_publish_record(i)
  <2>p. PICK p : p = u[i].pkt
    OBVIOUS
  <2> DEFINE type == IF p.qos = 1 THEN "PUBACK" ELSE "PUBREC"
             r == Ack(type, p.id, NULL, WithDup(p))
  <2>1. FirstSends'
    <3>1. PICK c \in {At("failed", p), Idle} : u' = [u EXCEPT ![i] = c]
      BY <1>5, <2>p DEF mqtt_publish_record
    <3>2. c.pkt.dup = 0
      BY <1>i, <2>p, <3>1 DEF FirstSends, At
    <3> QED
      BY <1>t, <3>1, <3>2 DEF FirstSends
  <2>2. PayloadShape'
    <3>1. CASE UNCHANGED <<acks, inflight>>
      BY <3>1, PayloadKeep
    <3>2. CASE AppendRecord(r) /\ inflight' = inflight \cup {Flow(p)}
      <4>1. Flow(WithDup(p)) = Flow(p) /\ WithDup(p).id = p.id /\ WithDup(p).qos = p.qos
        BY DEF Flow, WithDup
      <4>2. r.type = type /\ r.id = p.id /\ r.payload = WithDup(p)
        BY AckFields
      <4>3. PayloadOK(r)'
        BY <3>2, <4>1, <4>2 DEF PayloadOK
      <4>4. acks' \subseteq acks \cup {r}
        BY <3>2 DEF AppendRecord, mqtt_ack_list_record
      <4> HIDE DEF r
      <4> QED
        BY <3>2, <4>3, <4>4, PayloadAdd
    <3> QED
      BY <1>5, <2>p, <3>1, <3>2 DEF mqtt_publish_record, ackVars
  <2> QED
    BY <1>5, <2>1, <2>2, FreshOut DEF mqtt_publish_record, Fresh
<1>6. CASE mqtt_publish_release(i) \/ mqtt_publish_disconnected(i) \/ mqtt_disconnect_clean(i)
  <2>1. PayloadShape'
    BY <1>6, PayloadKeep DEF mqtt_publish_release, mqtt_publish_disconnected,
       mqtt_disconnect_clean, ackVars, qosVars
  <2>2. FirstSends'
    BY <1>6, <1>t, <1>i DEF mqtt_publish_release, mqtt_publish_disconnected,
       mqtt_disconnect_clean, FirstSends, At
  <2> QED
    BY <1>6, <2>1, <2>2, FreshOut DEF mqtt_publish_release, mqtt_publish_disconnected,
       mqtt_disconnect_clean, Fresh
<1>7. CASE mqtt_subscribe_record(i)
  <2>1. PayloadShape'
    BY <1>7, SubscribePayload DEF mqtt_subscribe_record, FirstSends, qosVars
  <2>2. FirstSends'
    BY <1>7, <1>t, <1>i DEF mqtt_subscribe_record, FirstSends
  <2> QED
    BY <1>7, <2>1, <2>2, FreshOut DEF mqtt_subscribe_record, Fresh
<1>8. CASE mqtt_unsubscribe_record(i)
  <2>p. PICK p : p = u[i].pkt /\ p.dup = 0
    BY DEF FirstSends
  <2>1. PayloadShape'
    <3>1. CASE acks' = acks
      BY <1>8, <3>1, PayloadKeep DEF mqtt_unsubscribe_record, qosVars
    <3>2. CASE \E h : AppendRecord(Ack("UNSUBACK", p.id, h, p))
      <4>1. PICK h : AppendRecord(Ack("UNSUBACK", p.id, h, p))
        BY <3>2
      <4>2. acks' \subseteq acks \cup {Ack("UNSUBACK", p.id, h, p)}
        BY <4>1 DEF AppendRecord, mqtt_ack_list_record
      <4>3. PayloadOK(Ack("UNSUBACK", p.id, h, p))'
        BY <2>p, RequestPayload
      <4> QED
        BY <1>8, <4>2, <4>3, PayloadAdd DEF mqtt_unsubscribe_record, qosVars
    <3> QED
      BY <1>8, <2>p, <3>1, <3>2 DEF mqtt_unsubscribe_record, ackVars
  <2>2. FirstSends'
    BY <1>8, <1>t, <1>i DEF mqtt_unsubscribe_record, FirstSends
  <2> QED
    BY <1>8, <2>1, <2>2, FreshOut DEF mqtt_unsubscribe_record, Fresh
<1>9. CASE mqtt_disconnect(i)
  <2>1. PayloadShape'
    BY <1>9, PayloadKeep DEF mqtt_disconnect, ackVars, qosVars
  <2>2. FirstSends'
    BY <1>9, <1>t DEF mqtt_disconnect, FirstSends, At
  <2>3. NoResendAfterAck'
    BY <1>9, PktFresh, FreshSend DEF mqtt_disconnect
  <2> QED
    BY <2>1, <2>2, <2>3
<1> QED
  BY <1>1, <1>3, <1>4, <1>5, <1>6, <1>7, <1>8, <1>9 DEF ApplicationStep

\* A packet handled by the yield thread.
LEMMA ResendPacket ==
    ASSUME TypeInv, ResendInv, mqtt_packet_handle
    PROVE  ResendInv'
<1> USE DEF ResendInv
<1>1. CASE ignored_packet \/ pingresp_packet_handle \/ nothing_read
  <2>1. UNCHANGED <<acks, inflight, u>> /\ out' = NULL
    BY <1>1 DEF ignored_packet, pingresp_packet_handle, nothing_read, ackVars, qosVars
  <2> QED
    BY <2>1, PayloadKeep, FreshOut DEF FirstSends, Fresh
<1>2. ASSUME NEW type \in {"PUBACK", "PUBCOMP"}, NEW id \in Ids,
             mqtt_puback_and_pubcomp_packet_handle(type, id)
      PROVE  ResendInv'
  <2>1. UNCHANGED u /\ out' = NULL /\ acks' = acks \ Matching(type, id)
        /\ inflight' = inflight \ Finished(type, id)
    BY <1>2 DEF mqtt_puback_and_pubcomp_packet_handle, mqtt_ack_list_unrecord
  <2>2. ASSUME NEW r \in acks' PROVE PayloadOK(r)'
    <3>1. r \in acks /\ PayloadOK(r) /\ ~(r.type = type /\ r.id = id)
      BY <2>1 DEF PayloadShape, Matching
    <3>2. CASE r.type \in {"PUBACK", "PUBREC"}
      <4>1. Flow(r.payload).id = r.payload.id /\ Flow(r.payload).qos = r.payload.qos
            /\ Flow(r.payload).released = FALSE
        BY DEF Flow
      <4>2. Flow(r.payload) \notin Finished(type, id)
        BY <3>1, <3>2, <4>1 DEF PayloadOK, Finished
      <4> QED
        BY <2>1, <3>1, <3>2, <4>2 DEF PayloadOK
    <3> QED
      BY <3>1, <3>2 DEF PayloadOK
  <2> QED
    BY <2>1, <2>2, FreshOut DEF FirstSends, Fresh, PayloadShape
<1>3. ASSUME NEW id \in Ids,
             \/ \E code \in SubCodes : mqtt_suback_packet_handle(id, code)
             \/ mqtt_unsuback_packet_handle(id)
      PROVE  ResendInv'
  <2>1. UNCHANGED <<u, inflight>> /\ out' = NULL /\ acks' \subseteq acks
    BY <1>3 DEF mqtt_suback_packet_handle, mqtt_unsuback_packet_handle, mqtt_ack_list_unrecord,
       qosVars
  <2> QED
    BY <2>1, PayloadKeep, FreshOut DEF FirstSends, Fresh
<1>4. ASSUME NEW id \in Ids, NEW q \in InQos, NEW ok \in BOOLEAN,
             mqtt_publish_packet_handle(id, q, ok)
      PROVE  ResendInv'
  <2>1. PICK reply : /\ reply = Pkt(IF q = 1 THEN "PUBACK" ELSE "PUBREC", id, NULL)
                     /\ reply.dup = 0
    BY PktFresh
  <2>2. NoResendAfterAck'
    BY <1>4, <2>1, FreshSend, FreshOut DEF mqtt_publish_packet_handle, Fresh
  <2>3. acks' \subseteq acks \cup {Ack("PUBREL", id, NULL, reply)} /\ UNCHANGED <<u, inflight>>
    BY <1>4, <2>1 DEF mqtt_publish_packet_handle, mqtt_ack_list_record, ackVars
  <2>4. PayloadShape'
    BY <2>1, <2>3, PayloadAdd, RequestPayload
  <2> QED
    BY <2>2, <2>3, <2>4 DEF FirstSends
<1>5. ASSUME NEW id \in Ids, mqtt_pubrec_packet_handle(id)
      PROVE  ResendInv'
  <2>1. PICK pubrel : pubrel = Pkt("PUBREL", id, NULL) /\ pubrel.dup = 0
    BY PktFresh
  <2>2. PICK new : new = Ack("PUBCOMP", id, NULL, pubrel)
    OBVIOUS
  <2>3. NoResendAfterAck'
    BY <1>5, <2>1, FreshSend, FreshOut DEF mqtt_pubrec_packet_handle, Fresh
  <2>4. /\ acks' \subseteq (acks \ Matching("PUBREC", id)) \cup {new}
        /\ inflight \ Receivable(id) \subseteq inflight' /\ UNCHANGED u
    BY <1>5, <2>1, <2>2 DEF mqtt_pubrec_packet_handle, mqtt_ack_list_unrecord
  <2>5. PayloadOK(new)'
    BY <2>1, <2>2, AckFields DEF PayloadOK
  <2>6. ASSUME NEW r \in acks \ Matching("PUBREC", id) PROVE PayloadOK(r)'
    <3>1. PayloadOK(r) /\ ~(r.type = "PUBREC" /\ r.id = id)
      BY DEF PayloadShape, Matching
    <3>2. CASE r.type \in {"PUBACK", "PUBREC"}
      <4>1. Flow(r.payload).id = r.payload.id /\ Flow(r.payload).qos = r.payload.qos
        BY DEF Flow
      <4>2. Flow(r.payload) \notin Receivable(id)
        BY <3>1, <3>2, <4>1 DEF PayloadOK, Receivable
      <4> QED
        BY <2>4, <3>1, <3>2, <4>2 DEF PayloadOK
    <3> QED
      BY <3>1, <3>2 DEF PayloadOK
  <2> QED
    BY <2>3, <2>4, <2>5, <2>6 DEF FirstSends, PayloadShape
<1>6. ASSUME NEW id \in Ids, NEW ok \in BOOLEAN, mqtt_pubrel_packet_handle(id, ok)
      PROVE  ResendInv'
  <2>1. UNCHANGED <<u, inflight>> /\ acks' \subseteq acks
    BY <1>6 DEF mqtt_pubrel_packet_handle, mqtt_ack_list_unrecord
  <2>2. NoResendAfterAck'
    BY <1>6, PktFresh, FreshSend DEF mqtt_pubrel_packet_handle
  <2> QED
    BY <2>1, <2>2, PayloadKeep DEF FirstSends
<1> QED
  BY <1>1, <1>2, <1>3, <1>4, <1>5, <1>6 DEF mqtt_packet_handle

\* Every other step of the yield thread.
LEMMA ResendYield ==
    ASSUME TypeInv, ResendInv, YieldStep
    PROVE  ResendInv'
<1> USE DEF ResendInv
<1>1. CASE mqtt_packet_handle
  BY <1>1, ResendPacket
<1>2. CASE mqtt_keep_alive \/ mqtt_reconnect_handshake
  <2>1. UNCHANGED <<u, acks, inflight>>
    BY <1>2 DEF mqtt_keep_alive, mqtt_reconnect_handshake, ackVars, qosVars
  <2>2. NoResendAfterAck'
    <3>1. \/ out' = NULL
          \/ \E kind \in Kinds, ok \in BOOLEAN : mqtt_send_packet(Pkt(kind, 0, NULL), ok)
      BY <1>2 DEF mqtt_keep_alive, mqtt_reconnect_handshake, Kinds
    <3> QED
      BY <3>1, PktFresh, FreshSend, FreshOut DEF Fresh
  <2> QED
    BY <2>1, <2>2, PayloadKeep DEF FirstSends
<1>3. CASE \/ mqtt_keep_alive_drop \/ mqtt_ack_list_scan_end \/ mqtt_try_reconnect
           \/ mqtt_reconnect_done \/ mqtt_resubscribed \/ mqtt_ack_list_scan_destroy
  <2>1. UNCHANGED <<u, inflight>> /\ acks' \subseteq acks /\ out' = NULL
    BY <1>3 DEF mqtt_keep_alive_drop, mqtt_ack_list_scan_end, mqtt_try_reconnect,
       mqtt_reconnect_done, mqtt_resubscribed, mqtt_ack_list_scan_destroy, ackVars, qosVars
  <2> QED
    BY <2>1, PayloadKeep, FreshOut DEF FirstSends, Fresh
<1>4. CASE mqtt_ack_handler_resend
  <2>1. PICK r \in todo, ok \in BOOLEAN :
           mqtt_send_packet(r.payload, ok) /\ UNCHANGED <<acks, inflight, u>>
    BY <1>4 DEF mqtt_ack_handler_resend, ackVars, qosVars
  <2>2. PayloadOK(r)
    BY DEF TypeInv, TypeOK, PayloadShape
  <2>3. NoResendAfterAck'
    BY <2>1, <2>2 DEF NoResendAfterAck, PayloadOK, mqtt_send_packet
  <2> QED
    BY <2>1, <2>3, PayloadKeep DEF FirstSends
<1>5. CASE mqtt_try_resubscribe
  <2>1. PICK p : /\ p.dup = 0
                 /\ out' = NULL \/ \E ok \in BOOLEAN : mqtt_send_packet(p, ok)
                 /\ acks' = acks \/ \E g \in HandlerAlloc : SubscribeRecord(p, g)
                 /\ UNCHANGED <<u, inflight>>
    <3>1. PICK h \in resub :
             LET p == Pkt("SUBSCRIBE", mqtt_get_next_packet_id, mem[h])
             IN  /\ out' = NULL \/ \E ok \in BOOLEAN : mqtt_send_packet(p, ok)
                 /\ acks' = acks \/ \E g \in HandlerAlloc : SubscribeRecord(p, g)
                 /\ UNCHANGED <<u, inflight>>
      BY <1>5 DEF mqtt_try_resubscribe, ackVars, qosVars
    <3>2. PICK p : p = Pkt("SUBSCRIBE", mqtt_get_next_packet_id, mem[h])
      OBVIOUS
    <3> QED
      BY <3>1, <3>2, PktFresh
  <2>2. NoResendAfterAck'
    BY <2>1, FreshSend, FreshOut DEF Fresh
  <2>3. PayloadShape'
    BY <2>1, SubscribePayload, PayloadKeep
  <2> QED
    BY <2>1, <2>2, <2>3 DEF FirstSends
<1>6. CASE mqtt_clean_session
  BY <1>6, FreshOut DEF mqtt_clean_session, PayloadShape, FirstSends, Fresh
<1>7. CASE mqtt_deliver_message
  BY <1>7, FreshOut, PayloadKeep DEF mqtt_deliver_message, FirstSends, Fresh, ackVars, qosVars
<1> QED
  BY <1>1, <1>2, <1>3, <1>4, <1>5, <1>6, <1>7 DEF YieldStep

\* The payloads are right at the start.
LEMMA ResendInit == Init => ResendInv
BY DEF Init, ResendInv, PayloadShape, FirstSends, NoResendAfterAck, Idle, At, Pkt

\* Every step keeps the payloads right.
LEMMA ResendStep == TypeInv /\ ResendInv /\ [Next]_vars => ResendInv'
<1> SUFFICES ASSUME TypeInv, ResendInv, [Next]_vars PROVE ResendInv'
    OBVIOUS
<1>1. CASE UNCHANGED vars
  BY <1>1 DEF ResendInv, PayloadShape, PayloadOK, FirstSends, NoResendAfterAck, vars
<1> QED
  BY <1>1, ResendYield, ResendApplication DEF Next, Stopped

\* A PUBLISH is only ever repeated (DUP set) for a message whose PUBACK or
\* PUBREC has not been processed: no timeout of mqtt_ack_list_scan revives an
\* acknowledged publication, even when allocations fail.
THEOREM ResendCorrect == Spec => []NoResendAfterAck
<1>1. ResendInv => NoResendAfterAck
  BY DEF ResendInv
<1> QED
  BY <1>1, ListInit, ListStep, TypeInit, TypeStep, ResendInit, ResendStep, PTL DEF Spec

-----------------------------------------------------------------------------
(* Tracking.  When allocations succeed, every flow has its record.         *)

TrackRecord(f) ==
    IF f.released
      THEN Ack("PUBCOMP", f.id, NULL, Pkt("PUBREL", f.id, NULL))
      ELSE Ack(IF f.qos = 1 THEN "PUBACK" ELSE "PUBREC", f.id, NULL,
               Publish(f.id, f.qos, 1, f.msg))

TrackInv ==
    /\ \A f \in inflight : TrackRecord(f) \in acks
    /\ \A f \in inflight : f.released => f.qos = 2

\* The record that serves a flow, by its state.
LEMMA TrackFields ==
    ASSUME NEW f
    PROVE  /\ TrackRecord(f).id = f.id
           /\ TrackRecord(f).type = IF f.released THEN "PUBCOMP"
                                    ELSE IF f.qos = 1 THEN "PUBACK" ELSE "PUBREC"
BY DEF TrackRecord, Ack

\* A step that removes no record of a publication keeps flows tracked.
LEMMA TrackKeep ==
    ASSUME TrackInv, inflight' = inflight,
           \A r \in acks \ acks' : r.type \in {"SUBACK", "UNSUBACK", "PUBREL"}
    PROVE  TrackInv'
BY TrackFields DEF TrackInv

\* The end of mqtt_subscribe removes no record.
LEMMA SubscribeGrows ==
    ASSUME NEW p, NEW h, SubscribeRecord(p, h)
    PROVE  acks \subseteq acks'
BY DEF SubscribeRecord, AppendRecord, mqtt_ack_list_record, ackVars

\* Every step keeps every flow tracked when allocations succeed.
LEMMA TrackStep ==
    ASSUME ~AllocMayFail
    PROVE  TypeInv /\ ResendInv /\ TrackInv /\ [Next]_vars => TrackInv'
<1> SUFFICES ASSUME TypeInv, ResendInv, TrackInv, [Next]_vars PROVE TrackInv'
    OBVIOUS
<1>a. FALSE \notin AckAlloc
  BY DEF AckAlloc
<1>1. CASE inflight' = inflight /\ acks \subseteq acks'
  BY <1>1, TrackKeep
<1>2. ASSUME NEW i \in Users, mqtt_publish_record(i)
      PROVE  TrackInv'
  <2>p. PICK p : p = u[i].pkt
    OBVIOUS
  <2> DEFINE type == IF p.qos = 1 THEN "PUBACK" ELSE "PUBREC"
             r == Ack(type, p.id, NULL, WithDup(p))
  <2>1. p.kind = "PUBLISH" /\ p.qos \in 1..2
    BY <1>2, <2>p DEF mqtt_publish_record, TypeInv, CallShape, CallOK
  <2>2. CASE AppendRecord(r) /\ inflight' = inflight \cup {Flow(p)}
    <3>1. TrackRecord(Flow(p)) = r /\ Flow(p).released = FALSE
      BY <2>1 DEF TrackRecord, Flow, Ack, WithDup, Publish
    <3>2. acks' = acks \cup {r}
      BY <2>2 DEF AppendRecord, mqtt_ack_list_record
    <3> HIDE DEF r
    <3> QED
      BY <2>2, <3>1, <3>2 DEF TrackInv
  <2> QED
    BY <1>1, <1>2, <2>p, <2>2 DEF mqtt_publish_record, ackVars
<1>3. ASSUME NEW i \in Users, ApplicationStep(i), ~mqtt_publish_record(i)
      PROVE  TrackInv'
  <2>1. CASE mqtt_subscribe_record(i)
    BY <1>1, <2>1, SubscribeGrows DEF mqtt_subscribe_record, qosVars
  <2>2. CASE mqtt_unsubscribe_record(i)
    BY <1>1, <2>2 DEF mqtt_unsubscribe_record, AppendRecord, mqtt_ack_list_record, ackVars, qosVars
  <2> QED
    BY <1>1, <1>3, <2>1, <2>2 DEF ApplicationStep, mqtt_connect, mqtt_publish, mqtt_subscribe,
       mqtt_unsubscribe, CheckConnected, mqtt_publish_send, mqtt_request_send,
       mqtt_publish_release, mqtt_publish_disconnected, mqtt_disconnect, mqtt_disconnect_clean,
       ackVars, qosVars
<1>4. ASSUME NEW type \in {"PUBACK", "PUBCOMP"}, NEW id \in Ids,
             mqtt_puback_and_pubcomp_packet_handle(type, id)
      PROVE  TrackInv'
  <2>1. acks' = acks \ Matching(type, id) /\ inflight' = inflight \ Finished(type, id)
    BY <1>4 DEF mqtt_puback_and_pubcomp_packet_handle, mqtt_ack_list_unrecord
  <2>2. ASSUME NEW f \in inflight' PROVE TrackRecord(f) \notin Matching(type, id)
    BY <2>1, TrackFields DEF TrackInv, Finished, Matching
  <2> QED
    BY <2>1, <2>2 DEF TrackInv
<1>5. ASSUME NEW id \in Ids, mqtt_pubrec_packet_handle(id)
      PROVE  TrackInv'
  <2> DEFINE new == Ack("PUBCOMP", id, NULL, Pkt("PUBREL", id, NULL))
  <2>1. inflight' = (inflight \ Receivable(id)) \cup {Released(f) : f \in Receivable(id)}
    BY <1>5 DEF mqtt_pubrec_packet_handle
  <2>2. acks \ Matching("PUBREC", id) \subseteq acks' /\ new \in acks'
    <3>1. CASE mqtt_ack_list_node_is_exist("PUBCOMP", id) /\ mqtt_ack_list_unrecord("PUBREC", id)
      <4>1. PICK r \in acks : r.type = "PUBCOMP" /\ r.id = id
        BY <3>1 DEF mqtt_ack_list_node_is_exist, Matching
      <4>2. r = new
        BY <4>1 DEF ResendInv, PayloadShape, PayloadOK
      <4>3. r \notin Matching("PUBREC", id)
        BY <4>1 DEF Matching
      <4> QED
        BY <3>1, <4>1, <4>2, <4>3 DEF mqtt_ack_list_unrecord
    <3>2. CASE acks' = (acks \ Matching("PUBREC", id)) \cup {new}
      BY <3>2
    <3> QED
      BY <1>5, <1>a, <3>1, <3>2 DEF mqtt_pubrec_packet_handle
  <2> HIDE DEF new
  <2>3. ASSUME NEW f \in Receivable(id)
        PROVE  TrackRecord(Released(f)) = new /\ Released(f).qos = 2
    BY DEF TrackRecord, Released, Receivable, new
  <2>4. ASSUME NEW f \in inflight \ Receivable(id)
        PROVE  TrackRecord(f) \in acks' /\ (f.released => f.qos = 2)
    <3>1. f \in Flows
      BY DEF TypeInv, TypeOK
    <3>2. TrackRecord(f) \in acks /\ TrackRecord(f) \notin Matching("PUBREC", id)
      BY <3>1, TrackFields DEF TrackInv, Matching, Receivable, Flows
    <3> QED
      BY <2>2, <3>2 DEF TrackInv
  <2> QED
    BY <2>1, <2>2, <2>3, <2>4 DEF TrackInv
<1>6. CASE \E id \in Ids :
             \/ \E code \in SubCodes : mqtt_suback_packet_handle(id, code)
             \/ mqtt_unsuback_packet_handle(id)
             \/ \E ok \in BOOLEAN : mqtt_pubrel_packet_handle(id, ok)
  <2>1. inflight' = inflight /\ \E type \in {"SUBACK", "UNSUBACK", "PUBREL"}, id \in Ids :
                                    mqtt_ack_list_unrecord(type, id)
    BY <1>6 DEF mqtt_suback_packet_handle, mqtt_unsuback_packet_handle,
       mqtt_pubrel_packet_handle, qosVars
  <2> QED
    BY <2>1, TrackKeep DEF mqtt_ack_list_unrecord, Matching
<1>7. CASE \E id \in Ids, q \in InQos, ok \in BOOLEAN : mqtt_publish_packet_handle(id, q, ok)
  BY <1>1, <1>7 DEF mqtt_publish_packet_handle, mqtt_ack_list_record, ackVars
<1>8. CASE mqtt_packet_handle
  BY <1>1, <1>4, <1>5, <1>6, <1>7, <1>8 DEF mqtt_packet_handle, pingresp_packet_handle,
     nothing_read, ignored_packet, ackVars, qosVars
<1>9. CASE YieldStep /\ ~mqtt_packet_handle
  <2>1. CASE mqtt_ack_list_scan_destroy
    BY <2>1, TrackKeep DEF mqtt_ack_list_scan_destroy, qosVars
  <2>2. CASE mqtt_try_resubscribe
    BY <1>1, <2>2, SubscribeGrows DEF mqtt_try_resubscribe, ackVars, qosVars
  <2>3. CASE mqtt_clean_session
    BY <2>3 DEF mqtt_clean_session, TrackInv
  <2> QED
    BY <1>1, <1>9, <2>1, <2>2, <2>3 DEF YieldStep, mqtt_deliver_message, mqtt_keep_alive,
       mqtt_keep_alive_drop, mqtt_ack_handler_resend, mqtt_ack_list_scan_end, mqtt_try_reconnect,
       mqtt_reconnect_handshake, mqtt_reconnect_done, mqtt_resubscribed, ackVars, qosVars
<1> QED
  BY <1>1, <1>2, <1>3, <1>8, <1>9 DEF Next, Stopped, vars

\* No flow runs at the start.
LEMMA TrackInit == Init => TrackInv
BY DEF Init, TrackInv

\* When allocations succeed, a QoS 1/2 message accepted by mqtt_publish has a
\* record, holding the packet to repeat, from the moment the call returns
\* until PUBACK or PUBCOMP is processed: through timeouts, reconnects and
\* acknowledgements of other packets in any order.
THEOREM TrackingCorrect ==
    ASSUME ~AllocMayFail
    PROVE  Spec => []PublishTracked
<1>1. TrackInv => PublishTracked
  BY DEF TrackInv, TrackRecord, PublishTracked
<1>2. TypeInv /\ ResendInv /\ TrackInv /\ [Next]_vars => TrackInv'
  BY TrackStep
<1> QED
  BY <1>1, <1>2, TrackInit, ListInit, ListStep, TypeInit, TypeStep, ResendInit, ResendStep, PTL
     DEF Spec

-----------------------------------------------------------------------------
(* The window between send and record.  The write lock closes it for       *)
(* PUBREC: only a PUBACK can come in between.                              *)

EarlyInv == \A f \in early : f.qos = 1

\* No step records an early acknowledgement of a QoS 2 publication.
LEMMA EarlyStep == EarlyInv /\ [Next]_vars => EarlyInv'
<1> SUFFICES ASSUME EarlyInv, [Next]_vars PROVE EarlyInv'
    OBVIOUS
<1>1. CASE early' \subseteq early
  BY <1>1 DEF EarlyInv
<1>2. ASSUME NEW type, NEW id, mqtt_puback_and_pubcomp_packet_handle(type, id)
      PROVE  EarlyInv'
  <2>1. \A f \in Unrecorded(1, id) : f.qos = 1
    BY DEF Unrecorded, Flow
  <2> QED
    BY <1>2, <2>1 DEF mqtt_puback_and_pubcomp_packet_handle, EarlyInv
<1>3. ASSUME NEW id, mqtt_pubrec_packet_handle(id)
      PROVE  EarlyInv'
  <2>1. Unrecorded(2, id) = {}
    BY <1>3 DEF mqtt_pubrec_packet_handle, WriteLockFree, Unrecorded
  <2> QED
    BY <1>1, <1>3, <2>1 DEF mqtt_pubrec_packet_handle
<1>4. CASE mqtt_packet_handle
  BY <1>1, <1>2, <1>3, <1>4 DEF mqtt_packet_handle, mqtt_suback_packet_handle,
     mqtt_unsuback_packet_handle, mqtt_publish_packet_handle, mqtt_pubrel_packet_handle,
     pingresp_packet_handle, nothing_read, ignored_packet, qosVars
<1>5. CASE YieldStep /\ ~mqtt_packet_handle
  BY <1>1, <1>5 DEF YieldStep, mqtt_deliver_message, mqtt_keep_alive, mqtt_keep_alive_drop,
     mqtt_ack_handler_resend,
     mqtt_ack_list_scan_destroy, mqtt_ack_list_scan_end, mqtt_try_reconnect,
     mqtt_reconnect_handshake, mqtt_reconnect_done, mqtt_try_resubscribe, mqtt_resubscribed,
     mqtt_clean_session, qosVars
<1>6. ASSUME NEW i \in Users, ApplicationStep(i)
      PROVE  EarlyInv'
  BY <1>1, <1>6 DEF ApplicationStep, mqtt_connect, mqtt_publish, mqtt_subscribe,
     mqtt_unsubscribe, CheckConnected, mqtt_publish_send, mqtt_publish_record, mqtt_request_send,
     mqtt_publish_release, mqtt_publish_disconnected, mqtt_subscribe_record,
     mqtt_unsubscribe_record, mqtt_disconnect, mqtt_disconnect_clean, qosVars
<1> QED
  BY <1>1, <1>4, <1>5, <1>6 DEF Next, Stopped, vars

\* A QoS 2 publication whose PUBREC was processed is never on the ack list for
\* repetition: mqtt_pubrec_and_pubrel_packet_handle takes the write lock that
\* mqtt_publish holds from its send to its record.
THEOREM RecordedFirstCorrect == Spec => []Qos2RecordedFirst
<1>1. Init => EarlyInv
  BY DEF Init, EarlyInv
<1>2. ResendInv /\ EarlyInv => Qos2RecordedFirst
  BY DEF ResendInv, PayloadShape, PayloadOK, EarlyInv, Qos2RecordedFirst, Flow
<1> QED
  BY <1>1, <1>2, EarlyStep, ListInit, ListStep, TypeInit, TypeStep, ResendInit, ResendStep, PTL
     DEF Spec

-----------------------------------------------------------------------------
(* Delivery.  The PUBREL record is the memory of a delivery.               *)

DeliveryInv == \A id \in Ids : /\ del2[id] \in 0..1
                               /\ del2[id] = 1 => mqtt_ack_list_node_is_exist("PUBREL", id)

\* A step that removes no PUBREL record keeps the memory of deliveries.
LEMMA DeliveryKeep ==
    ASSUME DeliveryInv, del2' = del2, \A r \in acks \ acks' : r.type # "PUBREL"
    PROVE  DeliveryInv'
BY DEF DeliveryInv, mqtt_ack_list_node_is_exist, Matching

\* Every step keeps the memory of deliveries when allocations succeed.
LEMMA DeliveryStep ==
    ASSUME ~AllocMayFail
    PROVE  TypeInv /\ DeliveryInv /\ [Next]_vars => DeliveryInv'
<1> SUFFICES ASSUME TypeInv, DeliveryInv, [Next]_vars PROVE DeliveryInv'
    OBVIOUS
<1>a. FALSE \notin AckAlloc
  BY DEF AckAlloc
<1>t. del2 \in [Ids -> 0..2]
  BY DEF TypeInv, TypeOK
<1>1. CASE del2' = del2 /\ acks \subseteq acks'
  BY <1>1, DeliveryKeep
<1>2. ASSUME NEW i \in Users, ApplicationStep(i)
      PROVE  DeliveryInv'
  <2>1. CASE mqtt_subscribe_record(i)
    BY <1>1, <2>1, SubscribeGrows DEF mqtt_subscribe_record, qosVars
  <2>2. CASE mqtt_unsubscribe_record(i) \/ mqtt_publish_record(i)
    BY <1>1, <2>2 DEF mqtt_unsubscribe_record, mqtt_publish_record, AppendRecord,
       mqtt_ack_list_record, ackVars, qosVars
  <2> QED
    BY <1>1, <1>2, <2>1, <2>2 DEF ApplicationStep, mqtt_connect, mqtt_publish, mqtt_subscribe,
       mqtt_unsubscribe, CheckConnected, mqtt_publish_send, mqtt_request_send,
       mqtt_publish_release, mqtt_publish_disconnected, mqtt_disconnect, mqtt_disconnect_clean,
       ackVars, qosVars
<1>3. ASSUME NEW id \in Ids, NEW q \in InQos, NEW ok \in BOOLEAN,
             mqtt_publish_packet_handle(id, q, ok)
      PROVE  DeliveryInv'
  <2>1. CASE UNCHANGED <<acks, del2>>
    BY <1>1, <2>1
  <2>2. CASE /\ ~mqtt_ack_list_node_is_exist("PUBREL", id)
             /\ del2' = [del2 EXCEPT ![id] = IF @ = 2 THEN 2 ELSE @ + 1]
             /\ \E p : mqtt_ack_list_record(Ack("PUBREL", id, NULL, p))
    <3>1. del2[id] = 0
      BY <2>2 DEF DeliveryInv
    <3>2. PICK p : acks' = acks \cup {Ack("PUBREL", id, NULL, p)}
      BY <2>2 DEF mqtt_ack_list_record
    <3>3. mqtt_ack_list_node_is_exist("PUBREL", id)'
      BY <3>2, AckFields DEF mqtt_ack_list_node_is_exist, Matching
    <3>4. del2' = [del2 EXCEPT ![id] = 1]
      BY <2>2, <3>1
    <3>5. \A n \in Ids : mqtt_ack_list_node_is_exist("PUBREL", n)
                            => mqtt_ack_list_node_is_exist("PUBREL", n)'
      BY <3>2 DEF mqtt_ack_list_node_is_exist, Matching
    <3> QED
      BY <1>t, <3>3, <3>4, <3>5 DEF DeliveryInv
  <2> QED
    BY <1>3, <1>a, <2>1, <2>2 DEF mqtt_publish_packet_handle, ackVars
<1>4. ASSUME NEW id \in Ids, NEW ok \in BOOLEAN, mqtt_pubrel_packet_handle(id, ok)
      PROVE  DeliveryInv'
  <2>1. del2' = [del2 EXCEPT ![id] = 0] /\ acks' = acks \ Matching("PUBREL", id)
    BY <1>4 DEF mqtt_pubrel_packet_handle, mqtt_ack_list_unrecord
  <2>2. \A n \in Ids \ {id} : mqtt_ack_list_node_is_exist("PUBREL", n)
                                => mqtt_ack_list_node_is_exist("PUBREL", n)'
    BY <2>1 DEF mqtt_ack_list_node_is_exist, Matching
  <2> QED
    BY <1>t, <2>1, <2>2 DEF DeliveryInv
<1>5. CASE \E id \in Ids :
             \/ \E type \in {"PUBACK", "PUBCOMP"} : mqtt_puback_and_pubcomp_packet_handle(type, id)
             \/ \E code \in SubCodes : mqtt_suback_packet_handle(id, code)
             \/ mqtt_unsuback_packet_handle(id)
             \/ mqtt_pubrec_packet_handle(id)
  <2>1. del2' = del2 /\ \E type \in AckTypes \ {"PUBREL"}, id \in Ids :
                            acks \ Matching(type, id) \subseteq acks'
    BY <1>5 DEF mqtt_puback_and_pubcomp_packet_handle, mqtt_suback_packet_handle, AckTypes,
       mqtt_unsuback_packet_handle, mqtt_pubrec_packet_handle, mqtt_ack_list_unrecord, qosVars
  <2> QED
    BY <2>1, DeliveryKeep DEF Matching
<1>6. CASE mqtt_packet_handle
  BY <1>1, <1>3, <1>4, <1>5, <1>6 DEF mqtt_packet_handle, pingresp_packet_handle,
     nothing_read, ignored_packet, ackVars, qosVars
<1>7. CASE YieldStep /\ ~mqtt_packet_handle
  <2>1. CASE mqtt_ack_list_scan_destroy
    BY <2>1, DeliveryKeep DEF mqtt_ack_list_scan_destroy, qosVars
  <2>2. CASE mqtt_try_resubscribe
    BY <1>1, <2>2, SubscribeGrows DEF mqtt_try_resubscribe, ackVars, qosVars
  <2>3. CASE mqtt_clean_session
    BY <2>3 DEF mqtt_clean_session, DeliveryInv
  <2> QED
    BY <1>1, <1>7, <2>1, <2>2, <2>3 DEF YieldStep, mqtt_deliver_message, mqtt_keep_alive,
       mqtt_keep_alive_drop, mqtt_ack_handler_resend, mqtt_ack_list_scan_end, mqtt_try_reconnect,
       mqtt_reconnect_handshake, mqtt_reconnect_done, mqtt_resubscribed, ackVars, qosVars
<1> QED
  BY <1>1, <1>2, <1>6, <1>7 DEF Next, Stopped, vars

\* When allocations succeed, an incoming QoS 2 message is delivered at most
\* once until the broker releases its packet id, however often the PUBLISH is
\* repeated and whatever happens to the connection in between.
THEOREM DeliveryCorrect ==
    ASSUME ~AllocMayFail
    PROVE  Spec => []DeliveredOnce
<1>1. Init => DeliveryInv
  BY DEF Init, DeliveryInv
<1>2. DeliveryInv => DeliveredOnce
  BY DEF DeliveryInv, DeliveredOnce
<1>3. TypeInv /\ DeliveryInv /\ [Next]_vars => DeliveryInv'
  BY DeliveryStep
<1> QED
  BY <1>1, <1>2, <1>3, ListInit, ListStep, TypeInit, TypeStep, PTL DEF Spec

-----------------------------------------------------------------------------
(* Message handlers.                                                       *)

USE HandlersAssumption, NamesAssumption

-----------------------------------------------------------------------------
(* The invariant.  A SUBACK record owns its handler alone; an UNSUBACK     *)
(* record shares its handler with the message-handler list, and with no    *)
(* other record because no topic has two.                                  *)

InstalledLive == \A h \in installed : mem[h] # NULL

SubackOwns ==
    \A r \in acks : r.type = "SUBACK" =>
        /\ r.handler \in Handlers \ installed
        /\ mem[r.handler] # NULL
        /\ \A s \in acks : s.type = "SUBACK" /\ s.handler = r.handler => s = r

UnsubackShares ==
    \A r \in acks : r.type = "UNSUBACK" =>
        /\ r.handler \in installed
        /\ mem[r.handler] = r.payload.body
        /\ \A s \in acks : s.type = "UNSUBACK" /\ s.payload.body = r.payload.body => s = r

OneEach == \A g, h \in installed : mem[g] = mem[h] => g = h

HandlerShape == InstalledLive /\ SubackOwns /\ UnsubackShares /\ OneEach

\* No call is about to unsubscribe from a topic whose UNSUBACK is awaited, or
\* that another call is about to unsubscribe from.
UnsubDisjoint ==
    \A i \in Users :
        /\ u[i].pc = "idle" => u[i].pkt.kind # "UNSUBSCRIBE"
        /\ u[i].pkt.kind = "UNSUBSCRIBE" =>
              /\ u[i].pkt = Pkt("UNSUBSCRIBE", u[i].pkt.id, u[i].pkt.body)
              /\ \A r \in acks : r.type = "UNSUBACK" => r.payload.body # u[i].pkt.body
              /\ \A j \in Users : /\ u[j].pkt.kind = "UNSUBSCRIBE"
                                  /\ u[j].pkt.body = u[i].pkt.body
                                  => j = i

\* The handlers still to be resubscribed are installed.
ResubInstalled == y = "resub" => resub \subseteq installed

LiveInv == HandlerShape /\ UnsubDisjoint /\ ResubInstalled

HandlerInv == NoUseAfterFree /\ (ub = "none" => LiveInv)

-----------------------------------------------------------------------------
(* Lemmas on the handler operations.                                       *)

\* A step that leaves the heap alone and adds no record keeps ownership.
LEMMA ShapeKeep ==
    ASSUME HandlerShape, UNCHANGED <<acks, mem, installed>>
    PROVE  HandlerShape'
BY DEF HandlerShape, InstalledLive, SubackOwns, UnsubackShares, OneEach

\* Records of publications do not matter to handlers.
LEMMA ShapePublish ==
    ASSUME HandlerShape, UNCHANGED <<mem, installed>>,
           \A r \in acks' \ acks : r.type \notin {"SUBACK", "UNSUBACK"}
    PROVE  HandlerShape'
BY DEF HandlerShape, InstalledLive, SubackOwns, UnsubackShares, OneEach

\* mqtt_msg_handler_destory on the handler of a record that leaves the list:
\* the memory is live, and nothing else refers to it.
LEMMA ShapeDestroy ==
    ASSUME TypeInv, HandlerShape, NEW r \in acks, r.type \in {"SUBACK", "UNSUBACK"},
           acks' = acks \ {r}, mqtt_msg_handler_destory(r.handler)
    PROVE  HandlerShape' /\ ub' = ub
<1> DEFINE h == r.handler
<1>1. h \in Handlers /\ mem \in [Handlers -> Topics \cup {NULL}] /\ installed \subseteq Handlers
  BY DEF TypeInv, TypeOK, RecordShape, RecordOK
<1>2. mem[h] # NULL
  BY DEF HandlerShape, InstalledLive, SubackOwns, UnsubackShares
<1>3. installed' = installed \ {h} /\ mem' = [mem EXCEPT ![h] = NULL] /\ ub' = ub
  BY <1>2 DEF mqtt_msg_handler_destory
<1>4. \A g \in Handlers \ {h} : mem'[g] = mem[g]
  BY <1>1, <1>3
<1>5. ASSUME NEW s \in acks', s.type \in {"SUBACK", "UNSUBACK"} PROVE s.handler # h
  BY <1>5 DEF HandlerShape, SubackOwns, UnsubackShares
<1>6. \A s \in acks : s.type \in {"SUBACK", "UNSUBACK"} => s.handler \in Handlers
  BY DEF TypeInv, RecordShape, RecordOK
<1>7. InstalledLive' /\ OneEach'
  BY <1>1, <1>3, <1>4 DEF HandlerShape, InstalledLive, OneEach
<1>8. SubackOwns'
  BY <1>1, <1>3, <1>4, <1>5, <1>6 DEF HandlerShape, SubackOwns
<1>9. UnsubackShares'
  BY <1>1, <1>3, <1>4, <1>5, <1>6 DEF HandlerShape, UnsubackShares
<1> QED
  BY <1>3, <1>7, <1>8, <1>9 DEF HandlerShape

\* mqtt_msg_handlers_install of the handler of a SUBACK record.
LEMMA ShapeInstall ==
    ASSUME TypeInv, HandlerShape, NEW r \in acks, r.type = "SUBACK", NEW code,
           acks' = acks \ {r}, ~mqtt_msg_handler_is_exist(r.handler),
           mqtt_msg_handlers_install(r.handler, code)
    PROVE  HandlerShape' /\ ub' = ub
<1>1. installed' = installed \cup {r.handler} /\ mem' = mem /\ ub' = ub
  BY DEF mqtt_msg_handlers_install
<1>2. \A g \in installed : mem[g] # mem[r.handler]
  BY DEF mqtt_msg_handler_is_exist
<1>3. mem[r.handler] # NULL
  BY DEF HandlerShape, SubackOwns
<1> QED
  BY <1>1, <1>2, <1>3 DEF HandlerShape, InstalledLive, SubackOwns, UnsubackShares, OneEach

\* The new handler and record of a subscription.
LEMMA ShapeSubscribe ==
    ASSUME TypeInv, HandlerShape, NEW p, p.body \in Topics, NEW h \in HandlerAlloc,
           SubscribeRecord(p, h), installed' = installed
    PROVE  HandlerShape'
<1>0. /\ mem \in [Handlers -> Topics \cup {NULL}] /\ installed \subseteq Handlers
      /\ \A s \in acks : s.type \in {"SUBACK", "UNSUBACK"} => s.handler \in Handlers
  BY DEF TypeInv, TypeOK, RecordShape, RecordOK
<1>1. CASE h = NULL
  BY <1>1, ShapeKeep DEF SubscribeRecord, ackVars
<1>2. CASE h # NULL
  <2>1. h \in Handlers /\ mem[h] = NULL
    BY <1>2 DEF HandlerAlloc, Free
  <2>2. mem' = [mem EXCEPT ![h] = p.body]
    BY <1>2 DEF SubscribeRecord
  <2>3. mem'[h] # NULL /\ \A g \in Handlers \ {h} : mem'[g] = mem[g]
    BY <1>0, <2>1, <2>2
  <2>4. h \notin installed /\ \A s \in acks : s.type \in {"SUBACK", "UNSUBACK"} => s.handler # h
    BY <2>1 DEF HandlerShape, InstalledLive, SubackOwns, UnsubackShares
  <2>5. PICK r : r.type = "SUBACK" /\ r.handler = h /\ acks' \subseteq acks \cup {r}
                 /\ acks \subseteq acks'
    <3>1. PICK r : r = Ack("SUBACK", p.id, h, p)
      OBVIOUS
    <3>2. r.type = "SUBACK" /\ r.handler = h
      BY <3>1 DEF Ack
    <3> QED
      BY <1>2, <3>1, <3>2 DEF SubscribeRecord, AppendRecord, mqtt_ack_list_record, ackVars
  <2>6. InstalledLive' /\ OneEach'
    BY <1>0, <2>3, <2>4 DEF HandlerShape, InstalledLive, OneEach
  <2>7. SubackOwns'
    BY <1>0, <2>1, <2>3, <2>4, <2>5 DEF HandlerShape, SubackOwns
  <2>8. UnsubackShares'
    BY <1>0, <2>3, <2>4, <2>5 DEF HandlerShape, UnsubackShares
  <2> QED
    BY <2>6, <2>7, <2>8 DEF HandlerShape
<1> QED
  BY <1>1, <1>2

\* The records a call adds.
LEMMA AppendOnly ==
    ASSUME NEW type, NEW id, NEW h, NEW p, AppendRecord(Ack(type, id, h, p))
    PROVE  /\ acks' = acks \cup {Ack(type, id, h, p)}
           /\ \A r \in acks' \ acks : r.type = type
<1>1. acks' = acks \cup {Ack(type, id, h, p)}
  BY DEF AppendRecord, mqtt_ack_list_record
<1>2. Ack(type, id, h, p).type = type
  BY DEF Ack
<1> QED
  BY <1>1, <1>2

\* What the end of mqtt_subscribe adds.
LEMMA SubscribeOnly ==
    ASSUME NEW p, NEW h, SubscribeRecord(p, h)
    PROVE  \A r \in acks' \ acks : r.type = "SUBACK"
BY AppendOnly DEF SubscribeRecord, ackVars

\* Calls are left alone, and no UNSUBACK record is made.
LEMMA DisjointKeep ==
    ASSUME UnsubDisjoint, u' = u, \A r \in acks' \ acks : r.type # "UNSUBACK"
    PROVE  UnsubDisjoint'
BY DEF UnsubDisjoint

\* A call moves on with the packet of the same request, or ends.
LEMMA DisjointMove ==
    ASSUME TypeInv, UnsubDisjoint, NEW i \in Users, NEW c, u' = [u EXCEPT ![i] = c],
           \/ c.pkt.kind # "UNSUBSCRIBE"
           \/ /\ u[i].pkt.kind = "UNSUBSCRIBE" /\ c.pkt.body = u[i].pkt.body
              /\ c.pkt = Pkt("UNSUBSCRIBE", c.pkt.id, c.pkt.body)
              /\ c.pc # "idle",
           \A r \in acks' \ acks : r.type # "UNSUBACK"
    PROVE  UnsubDisjoint'
<1>1. u \in [Users -> Calls]
  BY DEF TypeInv, TypeOK
<1>2. u'[i] = c /\ \A j \in Users \ {i} : u'[j] = u[j]
  BY <1>1
<1>3. ASSUME NEW k \in Users PROVE u'[k].pc = "idle" => u'[k].pkt.kind # "UNSUBSCRIBE"
  BY <1>2 DEF UnsubDisjoint
<1>4. ASSUME NEW k \in Users, u'[k].pkt.kind = "UNSUBSCRIBE"
      PROVE  /\ u[k].pkt.kind = "UNSUBSCRIBE" /\ u'[k].pkt.body = u[k].pkt.body
             /\ u'[k].pkt = Pkt("UNSUBSCRIBE", u'[k].pkt.id, u'[k].pkt.body)
  BY <1>2, <1>4 DEF UnsubDisjoint
<1> QED
  BY <1>3, <1>4 DEF UnsubDisjoint

-----------------------------------------------------------------------------
(* Every step preserves the invariant.                                     *)

\* A step of an application thread.
LEMMA LiveApplication ==
    ASSUME ~OverlappingUnsub, TypeInv, LiveInv, NEW i \in Users, ApplicationStep(i)
    PROVE  LiveInv'
<1> USE DEF LiveInv
<1>t. u \in [Users -> Calls] /\ CallOK(u[i])
  BY DEF TypeInv, TypeOK, CallShape
<1>i. Idle.pkt.kind = "DISCONNECT"
  BY DEF Idle, At, Pkt
<1>1. CASE mqtt_connect(i)
  <2>1. UNCHANGED <<acks, mem, installed, u>> /\ y' # "resub"
    BY <1>1 DEF mqtt_connect, ackVars, handlerVars
  <2> QED
    BY <2>1, ShapeKeep, DisjointKeep DEF ResubInstalled
<1>2. ASSUME NEW c, u' = [u EXCEPT ![i] = c],
             UNCHANGED <<acks, mem, installed, y, resub>>,
             \/ c.pkt.kind # "UNSUBSCRIBE"
             \/ /\ u[i].pkt.kind = "UNSUBSCRIBE" /\ c.pkt.body = u[i].pkt.body
                /\ c.pkt = Pkt("UNSUBSCRIBE", c.pkt.id, c.pkt.body)
                /\ c.pc # "idle"
      PROVE  LiveInv'
  BY <1>2, ShapeKeep, DisjointMove DEF ResubInstalled
<1>3. CASE mqtt_publish(i) \/ mqtt_subscribe(i)
  <2>1. PICK p : p.kind # "UNSUBSCRIBE" /\ CheckConnected(i, p)
    BY <1>3 DEF mqtt_publish, mqtt_subscribe, Publish, Pkt
  <2>2. At("send", p).pkt.kind # "UNSUBSCRIBE"
    BY <2>1 DEF At
  <2> QED
    BY <1>2, <2>1, <2>2 DEF CheckConnected, ackVars, handlerVars, yieldVars
<1>4. CASE mqtt_unsubscribe(i)
  <2>1. PICK t \in Topics :
          /\ \A r \in acks : r.type = "UNSUBACK" => r.payload.body # t
          /\ \A j \in Users : u[j].pc # "idle" => u[j].pkt # Pkt("UNSUBSCRIBE", u[j].pkt.id, t)
          /\ CheckConnected(i, Pkt("UNSUBSCRIBE", 0, t))
    BY <1>4 DEF mqtt_unsubscribe
  <2>2. \A j \in Users : u[j].pkt.kind = "UNSUBSCRIBE" => u[j].pkt.body # t
    BY <2>1 DEF UnsubDisjoint
  <2>3. PICK c : c = At("send", Pkt("UNSUBSCRIBE", 0, t))
    OBVIOUS
  <2>4. /\ c.pkt = Pkt("UNSUBSCRIBE", c.pkt.id, c.pkt.body) /\ c.pkt.body = t
        /\ c.pkt.kind = "UNSUBSCRIBE" /\ c.pc # "idle"
    BY <2>3 DEF At, Pkt
  <2>5. u' = [u EXCEPT ![i] = c] /\ UNCHANGED <<acks, mem, installed, y, resub>>
    BY <2>1, <2>3 DEF CheckConnected, ackVars, handlerVars, yieldVars
  <2>6. u'[i] = c /\ \A j \in Users \ {i} : u'[j] = u[j]
    BY <1>t, <2>5
  <2>7. UnsubDisjoint'
    <3> HIDE DEF LiveInv
    <3>1. ASSUME NEW k \in Users
          PROVE  /\ u'[k].pc = "idle" => u'[k].pkt.kind # "UNSUBSCRIBE"
                 /\ u'[k].pkt.kind = "UNSUBSCRIBE" =>
                       /\ u'[k].pkt = Pkt("UNSUBSCRIBE", u'[k].pkt.id, u'[k].pkt.body)
                       /\ \A r \in acks : r.type = "UNSUBACK" => r.payload.body # u'[k].pkt.body
                       /\ \A j \in Users : /\ u'[j].pkt.kind = "UNSUBSCRIBE"
                                           /\ u'[j].pkt.body = u'[k].pkt.body
                                           => j = k
      <4>1. CASE k = i
        BY <2>1, <2>2, <2>4, <2>6, <4>1
      <4>2. CASE k # i
        BY <2>2, <2>4, <2>6, <4>2 DEF UnsubDisjoint, LiveInv
      <4> QED BY <4>1, <4>2
    <3> QED
      BY <2>5, <3>1 DEF UnsubDisjoint
  <2> QED
    BY <2>5, <2>7, ShapeKeep DEF ResubInstalled
<1>5. CASE mqtt_publish_send(i)
  <2>1. PICK c : /\ u' = [u EXCEPT ![i] = c]
                 /\ c.pkt.kind # "UNSUBSCRIBE"
    BY <1>5, <1>i DEF mqtt_publish_send, At, WithId
  <2> QED
    BY <1>2, <1>5, <2>1 DEF mqtt_publish_send, ackVars, handlerVars, yieldVars
<1>6. CASE mqtt_request_send(i)
  <2>1. PICK c, id : /\ u' = [u EXCEPT ![i] = c]
                     /\ c = Idle \/ c = At("record", WithId(u[i].pkt, id))
    BY <1>6 DEF mqtt_request_send
  <2>2. CASE c = Idle
    BY <1>2, <1>6, <1>i, <2>1, <2>2 DEF mqtt_request_send, ackVars, handlerVars, yieldVars
  <2>3. CASE c = At("record", WithId(u[i].pkt, id))
    <3>1. c.pc = "record" /\ c.pkt = WithId(u[i].pkt, id)
      BY <2>3 DEF At
    <3>2. c.pkt.kind = u[i].pkt.kind /\ c.pkt.body = u[i].pkt.body
      BY <3>1 DEF WithId
    <3>3. u[i].pkt.kind = "UNSUBSCRIBE" => c.pkt = Pkt("UNSUBSCRIBE", c.pkt.id, c.pkt.body)
      <4> SUFFICES ASSUME u[i].pkt.kind = "UNSUBSCRIBE"
                   PROVE  c.pkt = Pkt("UNSUBSCRIBE", c.pkt.id, c.pkt.body)
        OBVIOUS
      <4>1. PICK n, t : u[i].pkt = Pkt("UNSUBSCRIBE", n, t)
        BY DEF UnsubDisjoint
      <4>2. c.pkt = Pkt("UNSUBSCRIBE", id, t)
        BY <3>1, <4>1 DEF WithId, Pkt
      <4> QED
        BY <4>2 DEF Pkt
    <3> QED
      BY <1>2, <1>6, <2>1, <3>1, <3>2, <3>3
         DEF mqtt_request_send, ackVars, handlerVars, yieldVars
  <2> QED
    BY <2>1, <2>2, <2>3
<1>7. CASE mqtt_publish_record(i)
  <2>1. PICK c : u' = [u EXCEPT ![i] = c] /\ c.pkt.kind # "UNSUBSCRIBE"
    BY <1>7, <1>i DEF mqtt_publish_record, At
  <2>2. \A r \in acks' \ acks : r.type \notin {"SUBACK", "UNSUBACK"}
    <3>1. \/ acks' = acks
          \/ \E type \in {"PUBACK", "PUBREC"}, p \in {u[i].pkt} : AppendRecord(Ack(type, p.id, NULL, WithDup(p)))
      BY <1>7 DEF mqtt_publish_record, ackVars
    <3> QED
      BY <3>1, AppendOnly
  <2>3. UNCHANGED <<mem, installed, y, resub>>
    BY <1>7 DEF mqtt_publish_record, handlerVars
  <2> QED
    BY <2>1, <2>2, <2>3, ShapePublish, DisjointMove DEF ResubInstalled
<1>8. CASE \/ mqtt_publish_release(i) \/ mqtt_publish_disconnected(i)
           \/ mqtt_disconnect(i) \/ mqtt_disconnect_clean(i)
  <2>1. PICK c : u' = [u EXCEPT ![i] = c] /\ c \in {At("released", u[i].pkt), Idle,
                                                   At("disconnected", u[i].pkt)}
    BY <1>8 DEF mqtt_publish_release, mqtt_publish_disconnected, mqtt_disconnect,
       mqtt_disconnect_clean
  <2>2. \/ c.pkt.kind # "UNSUBSCRIBE"
        \/ c.pkt = u[i].pkt /\ u[i].pkt.kind = "UNSUBSCRIBE" /\ c.pc # "idle"
    BY <1>i, <2>1 DEF At
  <2>3. UNCHANGED <<acks, mem, installed, y, resub>>
    BY <1>8 DEF mqtt_publish_release, mqtt_publish_disconnected, mqtt_disconnect,
       mqtt_disconnect_clean, ackVars, handlerVars, yieldVars
  <2> QED
    BY <1>2, <2>1, <2>2, <2>3 DEF UnsubDisjoint
<1>9. CASE mqtt_subscribe_record(i)
  <2>1. PICK p : p = u[i].pkt /\ p.body \in Topics
    BY <1>9, <1>t DEF mqtt_subscribe_record, CallOK
  <2>2. PICK h \in HandlerAlloc : SubscribeRecord(p, h)
    BY <1>9, <2>1 DEF mqtt_subscribe_record
  <2>3. u' = [u EXCEPT ![i] = Idle] /\ UNCHANGED <<installed, y, resub>>
    BY <1>9 DEF mqtt_subscribe_record
  <2>4. HandlerShape'
    BY <2>1, <2>2, <2>3, ShapeSubscribe
  <2>5. \A r \in acks' \ acks : r.type # "UNSUBACK"
    BY <2>2, SubscribeOnly
  <2> QED
    BY <1>i, <2>3, <2>4, <2>5, DisjointMove DEF ResubInstalled
<1>10. CASE mqtt_unsubscribe_record(i)
  <2>1. PICK p : p = u[i].pkt /\ p.kind = "UNSUBSCRIBE"
    BY <1>10 DEF mqtt_unsubscribe_record
  <2>2. u' = [u EXCEPT ![i] = Idle] /\ UNCHANGED <<mem, installed, y, resub>>
    BY <1>10 DEF mqtt_unsubscribe_record, handlerVars
  <2>3. CASE acks' = acks
    BY <1>2, <1>i, <2>2, <2>3
  <2>4. CASE \E h \in Installed(p.body) : AppendRecord(Ack("UNSUBACK", p.id, h, p))
    <3>1. PICK h \in Installed(p.body) : \E r :
             /\ r.type = "UNSUBACK" /\ r.handler = h /\ r.payload = p
             /\ acks' = acks \cup {r}
      <4>1. PICK h \in Installed(p.body) : AppendRecord(Ack("UNSUBACK", p.id, h, p))
        BY <2>4
      <4>2. PICK r : r = Ack("UNSUBACK", p.id, h, p)
        OBVIOUS
      <4>3. r.type = "UNSUBACK" /\ r.handler = h /\ r.payload = p
        BY <4>2 DEF Ack
      <4>4. acks' = acks \cup {r}
        BY <4>1, <4>2, AppendOnly
      <4> QED
        BY <4>3, <4>4
    <3>r. PICK r : /\ r.type = "UNSUBACK" /\ r.handler = h /\ r.payload = p
                   /\ acks' = acks \cup {r}
      BY <3>1
    <3>2. \A s \in acks : s.type = "UNSUBACK" => s.payload.body # p.body
      BY <2>1 DEF UnsubDisjoint
    <3>3. h \in installed /\ mem[h] = p.body
      BY DEF Installed
    <3>4. UnsubackShares'
      BY <2>2, <3>r, <3>2, <3>3 DEF HandlerShape, UnsubackShares
    <3>5. InstalledLive' /\ SubackOwns' /\ OneEach'
      BY <2>2, <3>r DEF HandlerShape, InstalledLive, SubackOwns, OneEach
    <3>6. u'[i] = Idle /\ \A j \in Users \ {i} : u'[j] = u[j]
      BY <1>t, <2>2
    <3>7. UnsubDisjoint'
      <4>1. ASSUME NEW k \in Users, u'[k].pkt.kind = "UNSUBSCRIBE"
            PROVE  k # i /\ u'[k] = u[k] /\ u[k].pkt.body # p.body
        BY <1>i, <2>1, <3>6, <4>1 DEF UnsubDisjoint
      <4>2. \A k \in Users : u'[k].pc = "idle" => u'[k].pkt.kind # "UNSUBSCRIBE"
        BY <1>i, <3>6 DEF UnsubDisjoint
      <4> QED
        BY <3>r, <4>1, <4>2 DEF UnsubDisjoint
    <3> QED
      BY <2>2, <3>4, <3>5, <3>7 DEF HandlerShape, ResubInstalled
  <2> QED
    BY <1>10, <2>1, <2>3, <2>4 DEF mqtt_unsubscribe_record, ackVars
<1> QED
  BY <1>1, <1>3, <1>4, <1>5, <1>6, <1>7, <1>8, <1>9, <1>10 DEF ApplicationStep

\* The one record an acknowledgement names.
LEMMA MatchOne ==
    ASSUME ListInv, NEW type, NEW id, NEW r \in Matching(type, id),
           mqtt_ack_list_unrecord(type, id)
    PROVE  r \in acks /\ r.type = type /\ acks' = acks \ {r}
<1>1. Matching(type, id) = {r}
  BY DEF Matching, ListInv, AckUnique
<1> QED
  BY <1>1 DEF mqtt_ack_list_unrecord, Matching

\* A packet handled by the yield thread.
LEMMA LivePacket ==
    ASSUME ListInv, TypeInv, LiveInv, ub = "none", mqtt_packet_handle
    PROVE  ub' # "use_after_free" /\ (ub' = "none" => LiveInv')
<1> USE DEF LiveInv
<1>1. CASE ignored_packet \/ pingresp_packet_handle \/ nothing_read
  <2>1. UNCHANGED <<acks, mem, installed, u, ub>> /\ y' # "resub"
    BY <1>1 DEF ignored_packet, pingresp_packet_handle, nothing_read, StartScan, ThenKeepAlive,
       ackVars, handlerVars
  <2> QED
    BY <2>1, ShapeKeep, DisjointKeep DEF ResubInstalled
<1>2. ASSUME NEW id \in Ids,
             \/ \E type \in {"PUBACK", "PUBCOMP"} : mqtt_puback_and_pubcomp_packet_handle(type, id)
             \/ \E q \in InQos, ok \in BOOLEAN : mqtt_publish_packet_handle(id, q, ok)
             \/ mqtt_pubrec_packet_handle(id)
             \/ \E ok \in BOOLEAN : mqtt_pubrel_packet_handle(id, ok)
      PROVE  ub' = "none" /\ LiveInv'
  <2>1. UNCHANGED <<mem, installed, u, ub>> /\ y' # "resub"
    BY <1>2 DEF mqtt_puback_and_pubcomp_packet_handle, mqtt_publish_packet_handle,
       mqtt_pubrec_packet_handle, mqtt_pubrel_packet_handle, ThenKeepAlive, handlerVars
  <2>2. \E type \in {"PUBREL", "PUBCOMP"} : \E p :
           acks' \subseteq acks \cup {Ack(type, id, NULL, p)}
    BY <1>2 DEF mqtt_puback_and_pubcomp_packet_handle, mqtt_publish_packet_handle,
       mqtt_pubrec_packet_handle, mqtt_pubrel_packet_handle, mqtt_ack_list_unrecord,
       mqtt_ack_list_record, ackVars
  <2>3. \A r \in acks' \ acks : r.type \notin {"SUBACK", "UNSUBACK"}
    BY <2>2 DEF Ack
  <2> QED
    BY <2>1, <2>3, ShapePublish, DisjointKeep DEF ResubInstalled
<1>3. ASSUME NEW id \in Ids, NEW code \in SubCodes, mqtt_suback_packet_handle(id, code)
      PROVE  ub' = "none" /\ LiveInv'
  <2>1. mqtt_ack_list_unrecord("SUBACK", id) /\ u' = u /\ y' # "resub" /\ acks' \subseteq acks
    BY <1>3 DEF mqtt_suback_packet_handle, ThenKeepAlive, mqtt_ack_list_unrecord
  <2>2. HandlerShape' /\ ub' = ub
    <3>1. CASE /\ ~mqtt_ack_list_node_is_exist("SUBACK", id)
               /\ UNCHANGED <<handlerVars, ub>>
      <4>1. acks' = acks
        BY <2>1, <3>1 DEF mqtt_ack_list_unrecord, mqtt_ack_list_node_is_exist
      <4> QED
        BY <3>1, <4>1, ShapeKeep DEF handlerVars
    <3>2. ASSUME NEW r \in Matching("SUBACK", id), mqtt_msg_handler_destory(r.handler)
          PROVE  HandlerShape' /\ ub' = ub
      BY <2>1, <3>2, MatchOne, ShapeDestroy
    <3>3. ASSUME NEW r \in Matching("SUBACK", id), ~mqtt_msg_handler_is_exist(r.handler),
                 mqtt_msg_handlers_install(r.handler, code)
          PROVE  HandlerShape' /\ ub' = ub
      BY <2>1, <3>3, MatchOne, ShapeInstall
    <3> QED
      BY <1>3, <3>1, <3>2, <3>3 DEF mqtt_suback_packet_handle
  <2> QED
    BY <2>1, <2>2, DisjointKeep DEF ResubInstalled
<1>4. ASSUME NEW id \in Ids, mqtt_unsuback_packet_handle(id)
      PROVE  ub' # "use_after_free" /\ (ub' = "none" => LiveInv')
  <2>1. mqtt_ack_list_unrecord("UNSUBACK", id) /\ u' = u /\ y' # "resub" /\ acks' \subseteq acks
    BY <1>4 DEF mqtt_unsuback_packet_handle, ThenKeepAlive, mqtt_ack_list_unrecord
  <2>2. HandlerShape' /\ ub' # "use_after_free"
    <3>1. CASE /\ ~mqtt_ack_list_node_is_exist("UNSUBACK", id)
               /\ ub' \in {ub, "uninitialised_read"} /\ UNCHANGED handlerVars
      <4>1. acks' = acks
        BY <2>1, <3>1 DEF mqtt_ack_list_unrecord, mqtt_ack_list_node_is_exist
      <4> QED
        BY <3>1, <4>1, ShapeKeep DEF handlerVars
    <3>2. ASSUME NEW r \in Matching("UNSUBACK", id), mqtt_msg_handler_destory(r.handler)
          PROVE  HandlerShape' /\ ub' = ub
      BY <2>1, <3>2, MatchOne, ShapeDestroy
    <3> QED
      BY <1>4, <3>1, <3>2 DEF mqtt_unsuback_packet_handle
  <2> QED
    BY <2>1, <2>2, DisjointKeep DEF ResubInstalled
<1> QED
  BY <1>1, <1>2, <1>3, <1>4 DEF mqtt_packet_handle

\* Every other step of the yield thread.
LEMMA LiveYield ==
    ASSUME ListInv, TypeInv, LiveInv, ub = "none", YieldStep
    PROVE  ub' # "use_after_free" /\ (ub' = "none" => LiveInv')
<1> USE DEF LiveInv
<1>1. CASE mqtt_packet_handle
  BY <1>1, LivePacket
<1>2. CASE \/ mqtt_keep_alive \/ mqtt_keep_alive_drop \/ mqtt_ack_handler_resend
           \/ mqtt_ack_list_scan_end \/ mqtt_try_reconnect \/ mqtt_reconnect_handshake
           \/ mqtt_reconnect_done \/ mqtt_resubscribed \/ mqtt_deliver_message
  <2>1. UNCHANGED <<acks, mem, installed, u, ub>>
    BY <1>2 DEF mqtt_deliver_message, ThenKeepAlive, mqtt_keep_alive, mqtt_keep_alive_drop, mqtt_ack_handler_resend,
       mqtt_ack_list_scan_end, mqtt_try_reconnect, mqtt_reconnect_handshake,
       mqtt_reconnect_done, mqtt_resubscribed, ackVars, handlerVars
  <2>2. y' = "resub" => resub' = installed
    BY <1>2 DEF mqtt_deliver_message, ThenKeepAlive, mqtt_keep_alive, mqtt_keep_alive_drop, mqtt_ack_handler_resend, Scanning,
       mqtt_ack_list_scan_end, mqtt_try_reconnect, mqtt_reconnect_handshake,
       mqtt_reconnect_done, mqtt_resubscribed, StartScan
  <2> QED
    BY <2>1, <2>2, ShapeKeep, DisjointKeep DEF ResubInstalled
<1>3. CASE mqtt_ack_list_scan_destroy
  <2>1. PICK r \in todo : /\ r.type \in {"SUBACK", "UNSUBACK"}
                          /\ mqtt_msg_handler_destory(r.handler)
                          /\ acks' = acks \ {r} /\ u' = u /\ y' = y /\ y # "resub"
    BY <1>3 DEF mqtt_ack_list_scan_destroy, Scanning
  <2>2. r \in acks
    BY DEF ListInv
  <2> QED
    BY <2>1, <2>2, ShapeDestroy, DisjointKeep DEF ResubInstalled
<1>4. CASE mqtt_try_resubscribe
  <2>1. PICK h \in resub :
          LET p == Pkt("SUBSCRIBE", mqtt_get_next_packet_id, mem[h])
          IN  /\ y = "resub" /\ y' = y /\ resub' = resub \ {h}
              /\ \/ UNCHANGED <<acks, mem>>
                 \/ \E g \in HandlerAlloc : SubscribeRecord(p, g)
              /\ UNCHANGED <<installed, u, ub>>
    BY <1>4 DEF mqtt_try_resubscribe, ackVars
  <2>p. PICK p : p = Pkt("SUBSCRIBE", mqtt_get_next_packet_id, mem[h])
    OBVIOUS
  <2>2. p.body = mem[h]
    BY <2>p DEF Pkt
  <2>3. mem[h] \in Topics
    BY <2>1 DEF ResubInstalled, HandlerShape, InstalledLive, TypeInv, TypeOK
  <2>4. CASE UNCHANGED <<acks, mem>>
    BY <2>1, <2>4, ShapeKeep, DisjointKeep DEF ResubInstalled
  <2>5. CASE \E g \in HandlerAlloc : SubscribeRecord(p, g)
    <3>1. PICK g \in HandlerAlloc : SubscribeRecord(p, g)
      BY <2>5
    <3>2. HandlerShape'
      BY <2>1, <2>2, <2>3, <3>1, ShapeSubscribe
    <3>3. UnsubDisjoint'
      BY <2>1, <3>1, SubscribeOnly, DisjointKeep
    <3> QED
      BY <2>1, <3>2, <3>3 DEF ResubInstalled
  <2> QED
    BY <2>1, <2>p, <2>4, <2>5
<1>5. CASE mqtt_clean_session
  <2>1. \A r \in acks : r.handler # NULL => r.type \in {"SUBACK", "UNSUBACK"}
    BY DEF TypeInv, RecordShape, RecordOK
  <2>2. ~DoubleFree
    BY <2>1 DEF DoubleFree, AckHandlers, HandlerShape, InstalledLive, SubackOwns, UnsubackShares
  <2>3. ub' = "none" /\ acks' = {} /\ installed' = {} /\ u' = u /\ y' # "resub"
    BY <1>5, <2>2 DEF mqtt_clean_session
  <2> QED
    BY <2>3, DisjointKeep DEF HandlerShape, InstalledLive, SubackOwns, UnsubackShares, OneEach,
       ResubInstalled
<1> QED
  BY <1>1, <1>2, <1>3, <1>4, <1>5 DEF YieldStep

\* Every step keeps ownership.
LEMMA HandlerStep ==
    ASSUME ~OverlappingUnsub
    PROVE  ListInv /\ TypeInv /\ HandlerInv /\ [Next]_vars => HandlerInv'
<1> SUFFICES ASSUME ListInv, TypeInv, HandlerInv, [Next]_vars PROVE HandlerInv'
    OBVIOUS
<1>1. CASE UNCHANGED vars
  BY <1>1 DEF HandlerInv, NoUseAfterFree, LiveInv, HandlerShape, InstalledLive, SubackOwns,
     UnsubackShares, OneEach, UnsubDisjoint, ResubInstalled, vars
<1>2. CASE ub = "none" /\ YieldStep
  BY <1>2, LiveYield DEF HandlerInv, NoUseAfterFree
<1>3. ASSUME NEW i \in Users, ub = "none", ApplicationStep(i) PROVE HandlerInv'
  <2>1. ub' = ub
    BY <1>3 DEF ApplicationStep, mqtt_connect, mqtt_publish, mqtt_subscribe, mqtt_unsubscribe,
       CheckConnected, mqtt_publish_send, mqtt_request_send, mqtt_publish_record,
       mqtt_publish_release, mqtt_publish_disconnected, mqtt_subscribe_record,
       mqtt_unsubscribe_record, mqtt_disconnect, mqtt_disconnect_clean
  <2> QED
    BY <1>3, <2>1, LiveApplication DEF HandlerInv, NoUseAfterFree
<1> QED
  BY <1>1, <1>2, <1>3 DEF Next, Stopped

\* Nothing is owned at the start.
LEMMA HandlerInit == Init => HandlerInv
BY DEF Init, HandlerInv, NoUseAfterFree, LiveInv, HandlerShape, InstalledLive, SubackOwns,
   UnsubackShares, OneEach, UnsubDisjoint, ResubInstalled, Idle, At, Pkt

\* As long as the application has at most one unanswered unsubscribe per
\* topic, no message handler is freed or unlinked twice, by an answer, a
\* timeout or the clean-up of the session.
THEOREM NoDoubleFree ==
    ASSUME ~OverlappingUnsub
    PROVE  Spec => []NoUseAfterFree
<1>1. HandlerInv => NoUseAfterFree
  BY DEF HandlerInv
<1>2. ListInv /\ TypeInv /\ HandlerInv /\ [Next]_vars => HandlerInv'
  BY HandlerStep
<1> QED
  BY <1>1, <1>2, ListInit, ListStep, TypeInit, TypeStep, HandlerInit, PTL DEF Spec

\* Under the same discipline an installed handler is live memory, and a pending
\* subscription owns its handler alone.
THEOREM OwnershipCorrect ==
    ASSUME ~OverlappingUnsub
    PROVE  Spec => []HandlerOwnership
<1>1. HandlerInv => HandlerOwnership
  BY DEF HandlerInv, LiveInv, HandlerShape, InstalledLive, SubackOwns, HandlerOwnership
<1>2. ListInv /\ TypeInv /\ HandlerInv /\ [Next]_vars => HandlerInv'
  BY HandlerStep
<1> QED
  BY <1>1, <1>2, ListInit, ListStep, TypeInit, TypeStep, HandlerInit, PTL DEF Spec

\* And no topic has two handlers, although every reconnect subscribes again to
\* everything installed and application threads subscribe meanwhile.
THEOREM OneHandlerCorrect ==
    ASSUME ~OverlappingUnsub
    PROVE  Spec => []OneHandlerPerTopic
<1>1. HandlerInv => OneHandlerPerTopic
  BY DEF HandlerInv, LiveInv, HandlerShape, OneEach, OneHandlerPerTopic
<1>2. ListInv /\ TypeInv /\ HandlerInv /\ [Next]_vars => HandlerInv'
  BY HandlerStep
<1> QED
  BY <1>1, <1>2, ListInit, ListStep, TypeInit, TypeStep, HandlerInit, PTL DEF Spec
=============================================================================
