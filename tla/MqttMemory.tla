----------------------------- MODULE MqttMemory -----------------------------
(***************************************************************************)
(* The memory that the threads of a client share, at the grain at which    *)
(* they touch it: the write buffer c->mqtt_write_buf and the links of      *)
(* c->mqtt_ack_handler_list (common/mqtt_list.c).  MqttClient takes each   *)
(* of the operations below in a step or two; this module is about what     *)
(* happens inside them.  Reads and writes of one pointer are atomic and    *)
(* seen in program order, as the supported builds make them.               *)
(*                                                                         *)
(* Application threads publish or subscribe, which is the same here.  The  *)
(* yield thread pings, answers a QoS 2 PUBLISH (PUBREC) and a PUBREC       *)
(* (PUBREL), and walks the list to repeat records or to destroy them.      *)
(* Packets are named by who makes them.  The head of a packet is its first *)
(* two bytes, which is all there is of a PINGREQ; the body is the rest.    *)
(***************************************************************************)
EXTENDS Naturals, FiniteSets

CONSTANTS Users,   \* application threads
          Yield,   \* the yield thread
          Nodes,   \* addresses malloc can return for an ack_handlers_t
          List,    \* the address of c->mqtt_ack_handler_list
          NULL

ASSUME ThreadsAssumption == Yield \notin Users /\ NULL \notin Users \cup {Yield}
ASSUME NodesAssumption == IsFiniteSet(Nodes) /\ List \notin Nodes /\ NULL \notin Nodes

Threads == Users \cup {Yield}
Links == Nodes \cup {List}

\* Packets by who makes them, what the write buffer holds, and ack_handlers_t.
Packets == Users \cup {"PUBREC", "PUBREL", "PINGREQ", NULL}
Content == [head : Packets, body : Packets]
Records == [pkt : Packets, payload : Content]

ASSUME RecordsAssumption == NULL \notin Records

VARIABLES
    lock,   \* the holder of c->mqtt_write_lock, or NULL
    buf,    \* c->mqtt_write_buf: whose head and whose body it holds
    next,   \* the next pointer of every mqtt_list_t
    prev,   \* the prev pointer of every mqtt_list_t
    heap,   \* the record at an address, or NULL when it is free
    loc     \* where each thread is, and its local variables

bufferVars == <<lock, buf>>
listVars == <<next, prev, heap>>
vars == <<bufferVars, listVars, loc>>

\* A packet as it is serialized: both parts are its own.
Whole(p) == [head |-> p, body |-> p]

\* curr and nxt are the variables of LIST_FOR_EACH_SAFE; before and after the
\* arguments prev and next of _mqtt_list_add and _mqtt_list_del.
Idle == [pc |-> "idle", job |-> NULL, pkt |-> NULL,
         curr |-> NULL, nxt |-> NULL, before |-> NULL, after |-> NULL]

At(t, pc) == loc[t].pc = pc
Goto(t, pc) == loc' = [loc EXCEPT ![t].pc = pc]
Finish(t) == loc' = [loc EXCEPT ![t] = Idle]

\* The locals of t as LIST_FOR_EACH_SAFE begins, and as it goes on.
Begin(t) == [loc[t] EXCEPT !.pc = "walk", !.curr = next[List], !.nxt = next[next[List]]]
Advance(t) == [loc[t] EXCEPT !.pc = "walk", !.curr = loc[t].nxt, !.nxt = next[loc[t].nxt],
                             !.pkt = IF loc[t].job = "scan" THEN NULL ELSE @]

-----------------------------------------------------------------------------
(* The write buffer.                                                       *)

\* mqtt_keep_alive serializes PINGREQ into the buffer without the lock ...
mqtt_keep_alive ==
    /\ At(Yield, "idle")
    /\ buf' = [buf EXCEPT !.head = "PINGREQ"]
    /\ Goto(Yield, "ping")
    /\ UNCHANGED <<lock, listVars>>

\* ... and sends whatever the first two bytes of the buffer are by then.
mqtt_keep_alive_send ==
    /\ At(Yield, "ping")
    /\ Finish(Yield)
    /\ UNCHANGED <<bufferVars, listVars>>

\* A call takes the lock and serializes its packet.
Serialize(t, job, p, pc) ==
    /\ At(t, "idle")
    /\ lock = NULL
    /\ lock' = t
    /\ buf' = Whole(p)
    /\ loc' = [loc EXCEPT ![t] = [Idle EXCEPT !.pc = pc, !.job = job, !.pkt = p]]
    /\ UNCHANGED listVars

\* mqtt_publish sends and then records; so does the answer to a QoS 2 PUBLISH.
mqtt_publish(u) == Serialize(u, "publish", u, "send")
mqtt_publish_packet_handle == Serialize(Yield, "answer", "PUBREC", "send")

\* The answer to a PUBREC is recorded first and then sent.
mqtt_publish_ack_packet == Serialize(Yield, "release", "PUBREL", "record")

\* mqtt_send_packet has sent the buffer.  mqtt_publish keeps the lock to record
\* the packet; the answer to a PUBLISH is recorded after the lock is given back.
mqtt_send_packet(t) ==
    /\ At(t, "send")
    /\ lock' = IF loc[t].job = "publish" THEN lock ELSE NULL
    /\ CASE loc[t].job \in {"publish", "answer"} -> Goto(t, "record")
         [] loc[t].job = "release" -> Finish(t)
         [] loc[t].job = "scan" -> loc' = [loc EXCEPT ![t] = Advance(t)]
    /\ UNCHANGED <<buf, listVars>>

mqtt_send_packet_fails(t) ==
    /\ At(t, "send")
    /\ lock' = NULL
    /\ IF loc[t].job = "scan" THEN loc' = [loc EXCEPT ![t] = Advance(t)] ELSE Finish(t)
    /\ UNCHANGED <<buf, listVars>>

-----------------------------------------------------------------------------
(* mqtt_ack_list_record.                                                   *)

\* The record is made, or it is not: back to the call.
Recorded(t, ok) ==
    CASE loc[t].job = "publish" -> lock' = NULL /\ Finish(t)
      [] loc[t].job = "answer"  -> lock' = lock /\ Finish(t)
      [] loc[t].job = "release" /\ ok -> lock' = lock /\ Goto(t, "send")
      [] loc[t].job = "release" /\ ~ok -> lock' = NULL /\ Finish(t)

mqtt_ack_list_record(t) ==
    /\ At(t, "record")
    /\ loc' = [loc EXCEPT ![t] = Begin(t)]
    /\ UNCHANGED <<bufferVars, listVars>>

\* mqtt_ack_list_node_is_exist.  Packet ids of publications differ, so that only
\* the yield thread meets a record of the packet it is about to record.
mqtt_ack_list_node_is_exist(t) ==
    /\ At(t, "walk") /\ loc[t].job # "scan"
    /\ UNCHANGED <<buf, listVars>>
    /\ \/ /\ loc[t].curr = List
          /\ Goto(t, "create") /\ UNCHANGED lock
       \/ /\ loc[t].curr # List
          /\ t = Yield /\ heap[loc[t].curr].pkt = loc[t].pkt
          /\ Recorded(t, FALSE)
       \/ /\ loc[t].curr # List
          /\ ~(t = Yield /\ heap[loc[t].curr].pkt = loc[t].pkt)
          /\ loc' = [loc EXCEPT ![t] = Advance(t)] /\ UNCHANGED lock

\* mqtt_ack_handler_create copies the write buffer into the record.  malloc may
\* return any free address or fail.
mqtt_ack_handler_create(t) ==
    /\ At(t, "create")
    /\ \E n \in {m \in Nodes : heap[m] = NULL} :
          /\ heap' = [heap EXCEPT ![n] = [pkt |-> loc[t].pkt, payload |-> buf]]
          /\ next' = [next EXCEPT ![n] = n]
          /\ prev' = [prev EXCEPT ![n] = n]
          /\ loc' = [loc EXCEPT ![t].pc = "add", ![t].curr = n, ![t].nxt = NULL]
    /\ UNCHANGED bufferVars

mqtt_ack_handler_create_fails(t) ==
    /\ At(t, "create")
    /\ Recorded(t, FALSE)
    /\ UNCHANGED <<buf, listVars>>

mqtt_list_add_tail(t) ==
    /\ At(t, "add")
    /\ loc' = [loc EXCEPT ![t].pc = "add_1", ![t].before = prev[List], ![t].after = List]
    /\ UNCHANGED <<bufferVars, listVars>>

\* The predecessor is pointed at the node before the node's own links are set.
Mutant_list_add(t) ==
    LET l == loc[t]
    IN  /\ UNCHANGED <<buf, heap>>
        /\ \/ /\ l.pc = "add_1" /\ next' = [next EXCEPT ![l.before] = l.curr]
              /\ Goto(t, "add_2") /\ UNCHANGED <<lock, prev>>
           \/ /\ l.pc = "add_2" /\ prev' = [prev EXCEPT ![l.after] = l.curr]
              /\ Goto(t, "add_3") /\ UNCHANGED <<lock, next>>
           \/ /\ l.pc = "add_3" /\ prev' = [prev EXCEPT ![l.curr] = l.before]
              /\ Goto(t, "add_4") /\ UNCHANGED <<lock, next>>
           \/ /\ l.pc = "add_4" /\ next' = [next EXCEPT ![l.curr] = l.after]
              /\ Recorded(t, TRUE) /\ UNCHANGED prev

\* The four assignments of _mqtt_list_add.
list_add(t) ==
    LET l == loc[t]
    IN  /\ UNCHANGED <<buf, heap>>
        /\ \/ /\ l.pc = "add_1" /\ prev' = [prev EXCEPT ![l.after] = l.curr]
              /\ Goto(t, "add_2") /\ UNCHANGED <<lock, next>>
           \/ /\ l.pc = "add_2" /\ next' = [next EXCEPT ![l.curr] = l.after]
              /\ Goto(t, "add_3") /\ UNCHANGED <<lock, prev>>
           \/ /\ l.pc = "add_3" /\ prev' = [prev EXCEPT ![l.curr] = l.before]
              /\ Goto(t, "add_4") /\ UNCHANGED <<lock, next>>
           \/ /\ l.pc = "add_4" /\ next' = [next EXCEPT ![l.before] = l.curr]
              /\ Recorded(t, TRUE) /\ UNCHANGED prev

-----------------------------------------------------------------------------
(* The walks of the yield thread.  mqtt_ack_list_scan repeats some of the  *)
(* records and destroys others, mqtt_ack_list_unrecord destroys those of   *)
(* one packet, mqtt_clean_session all of them: which, is left open.        *)

mqtt_ack_list_scan ==
    /\ At(Yield, "idle")
    /\ loc' = [loc EXCEPT ![Yield] = [Begin(Yield) EXCEPT !.job = "scan"]]
    /\ UNCHANGED <<bufferVars, listVars>>

Scanning == At(Yield, "walk") /\ loc[Yield].job = "scan"

scan_end ==
    /\ Scanning /\ loc[Yield].curr = List
    /\ Finish(Yield)
    /\ UNCHANGED <<bufferVars, listVars>>

scan_skip ==
    /\ Scanning /\ loc[Yield].curr # List
    /\ loc' = [loc EXCEPT ![Yield] = Advance(Yield)]
    /\ UNCHANGED <<bufferVars, listVars>>

mqtt_ack_handler_resend ==
    /\ Scanning /\ loc[Yield].curr # List
    /\ lock = NULL
    /\ lock' = Yield
    /\ buf' = heap[loc[Yield].curr].payload
    /\ loc' = [loc EXCEPT ![Yield].pc = "send", ![Yield].pkt = heap[loc[Yield].curr].pkt]
    /\ UNCHANGED listVars

\* mqtt_ack_handler_destroy: the arguments and the two assignments of
\* _mqtt_list_del, then free.
mqtt_ack_handler_destroy ==
    LET l == loc[Yield]
    IN  /\ Scanning /\ l.curr # List
        /\ loc' = [loc EXCEPT ![Yield].pc = "del_1",
                              ![Yield].before = prev[l.curr], ![Yield].after = next[l.curr]]
        /\ UNCHANGED <<bufferVars, listVars>>

list_del ==
    LET l == loc[Yield]
    IN  /\ UNCHANGED <<bufferVars, heap>>
        /\ \/ /\ l.pc = "del_1" /\ prev' = [prev EXCEPT ![l.after] = l.before]
              /\ Goto(Yield, "del_2") /\ UNCHANGED next
           \/ /\ l.pc = "del_2" /\ next' = [next EXCEPT ![l.before] = l.after]
              /\ Goto(Yield, "free") /\ UNCHANGED prev

platform_memory_free ==
    /\ At(Yield, "free")
    /\ heap' = [heap EXCEPT ![loc[Yield].curr] = NULL]
    /\ loc' = [loc EXCEPT ![Yield] = [Advance(Yield) EXCEPT !.before = NULL, !.after = NULL]]
    /\ UNCHANGED <<bufferVars, next, prev>>

-----------------------------------------------------------------------------
(* The three overlaps that the missing lock of the list allows and that    *)
(* damage it.  The behaviour is not followed beyond one of them: what      *)
(* follows depends on what the allocator leaves in freed memory.           *)

Appending(t) == loc[t].pc \in {"add_1", "add_2", "add_3", "add_4"}
Holds(t, n) == loc[t].pc \in {"walk", "send", "del_1", "del_2"} /\ n \in {loc[t].curr, loc[t].nxt}

\* The PUBREC is recorded without the lock, while an application thread appends.
TwoAppends == \E t, u \in Threads : t # u /\ Appending(t) /\ Appending(u)

\* A record is appended while the last one is being unlinked.
AppendAtRemoval ==
    /\ loc[Yield].pc \in {"del_1", "del_2"}
    /\ loc[Yield].after = List
    /\ \E u \in Users : Appending(u)

\* A record was freed under the walk of another thread.
FreedUnderWalk == \E t \in Threads, n \in Nodes : Holds(t, n) /\ heap[n] = NULL

Damaged == TwoAppends \/ AppendAtRemoval \/ FreedUnderWalk

-----------------------------------------------------------------------------
Init ==
    /\ lock = NULL
    /\ buf = Whole(NULL)
    /\ next = [n \in Links |-> n]
    /\ prev = [n \in Links |-> n]
    /\ heap = [n \in Nodes |-> NULL]
    /\ loc = [t \in Threads |-> Idle]

Step(t) ==
    \/ mqtt_send_packet(t) \/ mqtt_send_packet_fails(t)
    \/ mqtt_ack_list_record(t) \/ mqtt_ack_list_node_is_exist(t)
    \/ mqtt_ack_handler_create(t) \/ mqtt_ack_handler_create_fails(t)
    \/ mqtt_list_add_tail(t) \/ list_add(t)

YieldStep ==
    \/ mqtt_keep_alive \/ mqtt_keep_alive_send
    \/ mqtt_publish_packet_handle \/ mqtt_publish_ack_packet
    \/ mqtt_ack_list_scan \/ scan_end \/ scan_skip \/ mqtt_ack_handler_resend
    \/ mqtt_ack_handler_destroy \/ list_del \/ platform_memory_free

Next ==
    /\ ~Damaged
    /\ \/ \E u \in Users : mqtt_publish(u)
       \/ \E t \in Threads : Step(t)
       \/ YieldStep

Spec == Init /\ [][Next]_vars

-----------------------------------------------------------------------------
(* Properties.                                                             *)

\* The addresses on the chain from List, at most Cardinality(Nodes) of them.
Chain[k \in 0..Cardinality(Nodes)] ==
    IF k = 0 THEN next[List]
    ELSE IF Chain[k - 1] = List THEN List ELSE next[Chain[k - 1]]

OnChain == {Chain[k] : k \in DOMAIN Chain} \ {List}

\* A record no thread is linking or unlinking.
Settled(n) == heap[n] # NULL /\ \A t \in Threads : ~(loc[t].curr = n /\ (Appending(t) \/ loc[t].pc \in {"add", "del_1", "del_2", "free"}))

\* Although the lists have no lock, a walk of any thread at any moment goes
\* through allocated records and comes back to the head of the list, and no
\* record of a packet that waits for its answer is lost from it, unless two
\* threads append at once, a record is appended while the last one is unlinked,
\* or a record is freed under another thread's walk (_mqtt_list_add and
\* _mqtt_list_del against LIST_FOR_EACH_SAFE).
ListSafe ==
    Damaged \/ /\ Chain[Cardinality(Nodes)] = List
               /\ \A n \in OnChain : heap[n] # NULL
               /\ \A n \in Nodes : Settled(n) => n \in OnChain
               /\ (\A t \in Threads : loc[t].pc \notin {"add_1", "add_2", "add_3", "add_4", "del_1", "del_2"})
                     => \A n \in OnChain \cup {List} : prev[next[n]] = n

-----------------------------------------------------------------------------
(* What the code says of the write buffer, and does not do.                *)

\* While an application thread sends, the write buffer holds the packet that it
\* serialized, which is what the lock of mqtt_publish is taken for.  The yield
\* thread serializes its PINGREQ into the same buffer without the lock, over the
\* head of the packet.
SendsOwnPacket == \A u \in Users : At(u, "send") => buf = Whole(u)

\* The payload of a record, which mqtt_ack_handler_resend sends again, is of the
\* packet that the record was made for.  The answer to a QoS 2 PUBLISH is copied
\* from the write buffer after the lock is given back.
RecordsOwnPacket == \A n \in Nodes : heap[n] # NULL => heap[n].payload.body = heap[n].pkt
=============================================================================
