-------------------------- MODULE MqttMemoryProofs --------------------------
(***************************************************************************)
(* Theorems about MqttMemory, for any number of application threads and    *)
(* of records: what becomes of the list that no lock protects.             *)
(***************************************************************************)
EXTENDS MqttMemory, FiniteSetTheorems, WellFoundedInduction, TLAPS

Recording == {"record", "walk", "create", "add", "add_1", "add_2", "add_3", "add_4"}
Unlinking == {"del_1", "del_2", "free"}
AllPlaces == {"idle", "ping", "send"} \cup Recording \cup Unlinking
Locals == [pc : AllPlaces, job : {"publish", "answer", "release", "scan", NULL}, pkt : Packets,
           curr : Links \cup {NULL}, nxt : Links \cup {NULL},
           before : Links \cup {NULL}, after : Links \cup {NULL}]

\* The types of the shared memory and of the locals of the threads.
MemType ==
    /\ buf \in Content
    /\ next \in [Links -> Links] /\ prev \in [Links -> Links]
    /\ heap \in [Nodes -> Records \cup {NULL}]
    /\ loc \in [Threads -> Locals]

\* Which call a thread can be in at which place: an application thread only
\* publishes, the yield thread does everything else.
JobInv(t) ==
    /\ t \in Users /\ ~At(t, "idle") =>
          /\ loc[t].job = "publish" /\ loc[t].pkt = t
          /\ loc[t].pc \in {"send"} \cup Recording
    /\ t = Yield /\ loc[t].pc \notin {"idle", "ping"} =>
          \/ loc[t].job = "answer" /\ loc[t].pkt = "PUBREC" /\ loc[t].pc \in {"send"} \cup Recording
          \/ loc[t].job = "release" /\ loc[t].pkt = "PUBREL" /\ loc[t].pc \in {"send"} \cup Recording
          \/ loc[t].job = "scan" /\ loc[t].pc \in {"walk", "send"} \cup Unlinking

\* The pointers a thread is about to follow.
PointerInv(t) ==
    /\ loc[t].pc \in {"walk", "del_1", "del_2", "free"} => loc[t].curr \in Links /\ loc[t].nxt \in Links
    /\ At(t, "send") /\ loc[t].job = "scan" => loc[t].curr \in Links /\ loc[t].nxt \in Links
    /\ loc[t].pc \in {"add", "add_1", "add_2", "add_3", "add_4"} \cup Unlinking => loc[t].curr \in Nodes
    /\ loc[t].pc \in {"add_1", "add_2", "add_3", "add_4", "del_1", "del_2"} =>
          loc[t].before \in Links /\ loc[t].after \in Links

MemInv == MemType /\ \A t \in Threads : JobInv(t) /\ PointerInv(t)

-----------------------------------------------------------------------------
(* What the moves of one thread do to its locals and to the others'.       *)

\* A step of thread t leaves the locals of the other threads alone.
Moves(t) == loc' \in [Threads -> Locals] /\ \A u \in Threads : u # t => loc'[u] = loc[u]

\* It gives t its new locals.
LEMMA Moved ==
    ASSUME MemType, NEW t \in Threads, NEW l \in Locals, loc' = [loc EXCEPT ![t] = l]
    PROVE  Moves(t) /\ loc'[t] = l
BY DEF MemType, Moves

\* Idle is a record of locals.
LEMMA IdleType == Idle \in Locals
BY DEF Idle, Locals, AllPlaces, Packets

\* A call ends.
LEMMA FinishMoves ==
    ASSUME MemType, NEW t \in Threads, Finish(t)
    PROVE  Moves(t) /\ At(t, "idle")'
<1>1. loc' = [loc EXCEPT ![t] = Idle]
  BY DEF Finish
<1>2. Moves(t) /\ loc'[t] = Idle
  BY <1>1, Moved, IdleType
<1> QED
  BY <1>2 DEF At, Idle

\* Goto changes the place only.
LEMMA GotoMoves ==
    ASSUME MemType, NEW t \in Threads, NEW p \in AllPlaces, Goto(t, p)
    PROVE  /\ Moves(t)
           /\ loc'[t].pc = p
           /\ loc'[t].job = loc[t].job /\ loc'[t].pkt = loc[t].pkt
           /\ loc'[t].curr = loc[t].curr /\ loc'[t].nxt = loc[t].nxt
           /\ loc'[t].before = loc[t].before /\ loc'[t].after = loc[t].after
BY DEF MemType, Moves, Goto, Locals

\* The beginning of LIST_FOR_EACH_SAFE.
LEMMA BeginMoves ==
    ASSUME MemType, NEW t \in Threads, loc' = [loc EXCEPT ![t] = Begin(t)]
    PROVE  /\ Moves(t)
           /\ loc'[t].pc = "walk" /\ loc'[t].job = loc[t].job /\ loc'[t].pkt = loc[t].pkt
           /\ loc'[t].curr = next[List] /\ loc'[t].nxt = next[next[List]]
           /\ loc'[t].curr \in Links /\ loc'[t].nxt \in Links
<1>1. next[List] \in Links /\ next[next[List]] \in Links
  BY DEF MemType, Links
<1>2. loc[t] \in Locals
  BY DEF MemType
<1>3. Begin(t) \in Locals
  <2>1. "walk" \in AllPlaces
    BY DEF AllPlaces, Recording
  <2> QED
    BY <1>1, <1>2, <2>1 DEF Begin, Locals
<1>4. Moves(t) /\ loc'[t] = Begin(t)
  BY <1>3, Moved
<1>5. /\ Begin(t).pc = "walk" /\ Begin(t).job = loc[t].job /\ Begin(t).pkt = loc[t].pkt
      /\ Begin(t).curr = next[List] /\ Begin(t).nxt = next[next[List]]
  BY <1>2 DEF Begin, Locals
<1> QED
  BY <1>1, <1>4, <1>5

\* Its next round.
LEMMA AdvanceMoves ==
    ASSUME MemType, NEW t \in Threads, loc[t].nxt \in Links, loc' = [loc EXCEPT ![t] = Advance(t)]
    PROVE  /\ Moves(t)
           /\ loc'[t].pc = "walk" /\ loc'[t].job = loc[t].job
           /\ loc[t].job # "scan" => loc'[t].pkt = loc[t].pkt
           /\ loc'[t].curr = loc[t].nxt /\ loc'[t].nxt = next[loc[t].nxt]
           /\ loc'[t].curr \in Links /\ loc'[t].nxt \in Links
<1>1. next[loc[t].nxt] \in Links
  BY DEF MemType
<1>2. loc[t] \in Locals
  BY DEF MemType
<1>3. Advance(t) \in Locals
  <2>1. "walk" \in AllPlaces /\ NULL \in Packets
    BY DEF AllPlaces, Recording, Packets
  <2> QED
    BY <1>1, <1>2, <2>1 DEF Advance, Locals
<1>4. Moves(t) /\ loc'[t] = Advance(t)
  BY <1>3, Moved
<1>5. /\ Advance(t).pc = "walk" /\ Advance(t).job = loc[t].job
      /\ loc[t].job # "scan" => Advance(t).pkt = loc[t].pkt
      /\ Advance(t).curr = loc[t].nxt /\ Advance(t).nxt = next[loc[t].nxt]
  BY <1>2 DEF Advance, Locals
<1> QED
  BY <1>1, <1>4, <1>5

\* The invariants of the other threads follow.
LEMMA Others ==
    ASSUME MemInv, NEW t \in Threads, Moves(t), JobInv(t)', PointerInv(t)'
    PROVE  \A u \in Threads : (JobInv(u) /\ PointerInv(u))'
<1> SUFFICES ASSUME NEW u \in Threads, u # t PROVE JobInv(u)' /\ PointerInv(u)'
  OBVIOUS
<1>1. loc'[u] = loc[u] /\ JobInv(u) /\ PointerInv(u)
  BY DEF Moves, MemInv
<1> QED
  BY <1>1 DEF JobInv, PointerInv, At

\* What is left to show of a step that touches neither the buffer nor the list.
LEMMA Quiet ==
    ASSUME MemInv, NEW t \in Threads, Moves(t), UNCHANGED <<buf, listVars>>,
           JobInv(t)', PointerInv(t)'
    PROVE  MemInv'
<1>1. MemType'
  BY DEF MemInv, MemType, Moves, listVars
<1> QED
  BY <1>1, Others DEF MemInv

-----------------------------------------------------------------------------
(* The steps of the calls.                                                 *)

Jobs == {"send"} \cup Recording

\* A call that begins.
LEMMA SerializeKeeps ==
    ASSUME MemInv, NEW t \in Threads, NEW job, NEW p, NEW where,
           Serialize(t, job, p, where),
           \/ t \in Users /\ job = "publish" /\ p = t /\ where = "send"
           \/ t = Yield /\ job = "answer" /\ p = "PUBREC" /\ where = "send"
           \/ t = Yield /\ job = "release" /\ p = "PUBREL" /\ where = "record"
    PROVE  MemInv'
<1> DEFINE l == [Idle EXCEPT !.pc = where, !.job = job, !.pkt = p]
<1>1. where \in Jobs /\ where \in AllPlaces /\ p \in Packets
  BY DEF Jobs, Recording, AllPlaces, Packets
<1>2. l \in Locals /\ l.pc = where /\ l.job = job /\ l.pkt = p
  BY <1>1, IdleType DEF Locals, Idle
<1>3. Moves(t) /\ loc'[t] = l
  BY <1>2, Moved DEF Serialize, MemInv
<1>4. loc'[t].pc = where /\ loc'[t].job = job /\ loc'[t].pkt = p
  BY <1>2, <1>3
<1> HIDE DEF l
<1>5. JobInv(t)'
  BY <1>1, <1>4, ThreadsAssumption DEF JobInv, At, Jobs
<1>6. PointerInv(t)'
  BY <1>4 DEF PointerInv, At, Unlinking
<1>7. MemType'
  BY <1>1, <1>3 DEF MemInv, MemType, Moves, Serialize, listVars, Whole, Content
<1> QED
  BY <1>3, <1>5, <1>6, <1>7, Others DEF MemInv

\* The packet is sent, or it is not.
LEMMA SendKeeps ==
    ASSUME MemInv, NEW t \in Threads, mqtt_send_packet(t) \/ mqtt_send_packet_fails(t)
    PROVE  MemInv'
<1>1. /\ At(t, "send") /\ JobInv(t) /\ PointerInv(t) /\ MemType
      /\ UNCHANGED <<buf, listVars>>
  BY DEF mqtt_send_packet, mqtt_send_packet_fails, MemInv
<1>2. CASE Finish(t)
  <2>1. Moves(t) /\ At(t, "idle")'
    BY <1>1, <1>2, FinishMoves
  <2>2. JobInv(t)' /\ PointerInv(t)'
    BY <2>1 DEF JobInv, PointerInv, At, Recording, Unlinking
  <2> QED
    BY <1>1, <2>1, <2>2, Quiet
<1>3. CASE loc[t].job = "scan" /\ loc' = [loc EXCEPT ![t] = Advance(t)]
  <2>1. /\ Moves(t) /\ loc'[t].pc = "walk" /\ loc'[t].job = "scan"
        /\ loc'[t].curr \in Links /\ loc'[t].nxt \in Links
    BY <1>1, <1>3, AdvanceMoves DEF PointerInv
  <2>2. t = Yield
    BY <1>1, <1>3 DEF JobInv, At, Threads
  <2>3. JobInv(t)' /\ PointerInv(t)'
    BY <2>1, <2>2, ThreadsAssumption DEF JobInv, PointerInv, At, Recording, Unlinking
  <2> QED
    BY <1>1, <2>1, <2>3, Quiet
<1>4. CASE loc[t].job \in {"publish", "answer"} /\ Goto(t, "record")
  <2>1. /\ Moves(t) /\ loc'[t].pc = "record" /\ loc'[t].job = loc[t].job
        /\ loc'[t].pkt = loc[t].pkt
    BY <1>1, <1>4, GotoMoves DEF AllPlaces, Recording
  <2>2. JobInv(t)' /\ PointerInv(t)'
    BY <1>1, <1>4, <2>1, ThreadsAssumption DEF JobInv, PointerInv, At, Recording, Unlinking
  <2> QED
    BY <1>1, <2>1, <2>2, Quiet
<1>5. loc[t].job \in {"publish", "answer", "release", "scan"}
  BY <1>1, ThreadsAssumption DEF JobInv, At, Threads
<1>6. CASE mqtt_send_packet(t)
  BY <1>2, <1>3, <1>4, <1>5, <1>6 DEF mqtt_send_packet
<1>7. CASE mqtt_send_packet_fails(t)
  BY <1>2, <1>3, <1>5, <1>7 DEF mqtt_send_packet_fails
<1> QED
  BY <1>6, <1>7

\* mqtt_ack_list_record returns to its call.
LEMMA RecordedKeeps ==
    ASSUME MemInv, NEW t \in Threads, NEW ok \in BOOLEAN, Recorded(t, ok),
           loc[t].pc \in Recording, loc[t].job # "scan"
    PROVE  Moves(t) /\ JobInv(t)' /\ PointerInv(t)'
<1>1. MemType /\ JobInv(t) /\ loc[t].job \in {"publish", "answer", "release"}
  BY ThreadsAssumption DEF MemInv, JobInv, At, Recording, Threads
<1>2. CASE Finish(t)
  <2>1. Moves(t) /\ At(t, "idle")'
    BY <1>1, <1>2, FinishMoves
  <2> QED
    BY <2>1 DEF JobInv, PointerInv, At, Recording, Unlinking
<1>3. CASE loc[t].job = "release" /\ Goto(t, "send")
  <2>1. /\ Moves(t) /\ loc'[t].pc = "send" /\ loc'[t].job = loc[t].job
        /\ loc'[t].pkt = loc[t].pkt
    BY <1>1, <1>3, GotoMoves DEF AllPlaces
  <2>2. JobInv(t)' /\ PointerInv(t)'
    BY <1>1, <1>3, <2>1, ThreadsAssumption DEF JobInv, PointerInv, At, Recording, Unlinking
  <2> QED
    BY <2>1, <2>2
<1> QED
  BY <1>1, <1>2, <1>3 DEF Recorded

\* A step within mqtt_ack_list_record stays in its call.
LEMMA RecordingKeeps ==
    ASSUME MemInv, NEW t \in Threads, loc[t].pc \in Recording, loc'[t].pc \in Recording,
           loc[t].job # "scan", loc'[t].job = loc[t].job, loc'[t].pkt = loc[t].pkt
    PROVE  JobInv(t)'
<1>1. JobInv(t)
  BY DEF MemInv
<1> QED
  BY <1>1, ThreadsAssumption DEF JobInv, At, Recording

\* mqtt_ack_list_record, but for the list operations.
LEMMA RecordKeeps ==
    ASSUME MemInv, NEW t \in Threads,
           \/ mqtt_ack_list_record(t) \/ mqtt_ack_list_node_is_exist(t)
           \/ mqtt_ack_handler_create_fails(t) \/ mqtt_list_add_tail(t)
    PROVE  MemInv'
<1>1. MemType /\ JobInv(t) /\ PointerInv(t)
  BY DEF MemInv
<1>2. CASE mqtt_ack_list_record(t)
  <2>1. loc[t].pc \in Recording /\ loc[t].job # "scan" /\ UNCHANGED <<bufferVars, listVars>>
    BY <1>1, <1>2, ThreadsAssumption DEF mqtt_ack_list_record, At, Recording, Unlinking, JobInv, Threads
  <2>2. /\ Moves(t)
        /\ loc'[t].pc = "walk" /\ loc'[t].job = loc[t].job /\ loc'[t].pkt = loc[t].pkt
        /\ loc'[t].curr \in Links /\ loc'[t].nxt \in Links
    BY <1>1, <1>2, BeginMoves DEF mqtt_ack_list_record
  <2>3. JobInv(t)'
    BY <2>1, <2>2, RecordingKeeps DEF Recording
  <2>4. PointerInv(t)'
    BY <2>2 DEF PointerInv, At, Unlinking
  <2> QED
    BY <2>1, <2>2, <2>3, <2>4, Quiet DEF bufferVars
<1>3. CASE mqtt_ack_list_node_is_exist(t)
  <2>1. /\ loc[t].pc = "walk" /\ loc[t].pc \in Recording /\ loc[t].job # "scan"
        /\ UNCHANGED <<buf, listVars>>
    BY <1>3 DEF mqtt_ack_list_node_is_exist, At, Recording
  <2>2. CASE Goto(t, "create")
    <3>1. /\ Moves(t) /\ loc'[t].pc = "create" /\ loc'[t].job = loc[t].job
          /\ loc'[t].pkt = loc[t].pkt
      BY <1>1, <2>2, GotoMoves DEF AllPlaces, Recording
    <3>2. JobInv(t)'
      BY <2>1, <3>1, RecordingKeeps DEF Recording
    <3>3. PointerInv(t)'
      BY <3>1 DEF PointerInv, At, Unlinking
    <3> QED
      BY <2>1, <3>1, <3>2, <3>3, Quiet
  <2>3. CASE Recorded(t, FALSE)
    BY <2>1, <2>3, RecordedKeeps, Quiet
  <2>4. CASE loc' = [loc EXCEPT ![t] = Advance(t)]
    <3>1. /\ Moves(t) /\ loc'[t].pc = "walk" /\ loc'[t].job = loc[t].job
          /\ loc'[t].pkt = loc[t].pkt /\ loc'[t].curr \in Links /\ loc'[t].nxt \in Links
      BY <1>1, <2>1, <2>4, AdvanceMoves DEF PointerInv
    <3>2. JobInv(t)'
      BY <2>1, <3>1, RecordingKeeps DEF Recording
    <3>3. PointerInv(t)'
      BY <3>1 DEF PointerInv, At, Unlinking
    <3> QED
      BY <2>1, <3>1, <3>2, <3>3, Quiet
  <2> QED
    BY <1>3, <2>2, <2>3, <2>4 DEF mqtt_ack_list_node_is_exist
<1>4. CASE mqtt_ack_handler_create_fails(t)
  <2>1. loc[t].pc \in Recording /\ loc[t].job # "scan" /\ UNCHANGED <<buf, listVars>>
    BY <1>1, <1>4, ThreadsAssumption
       DEF mqtt_ack_handler_create_fails, At, Recording, Unlinking, JobInv, Threads
  <2> QED
    BY <1>4, <2>1, RecordedKeeps, Quiet DEF mqtt_ack_handler_create_fails
<1>5. CASE mqtt_list_add_tail(t)
  <2>1. /\ loc[t].pc = "add" /\ loc[t].job # "scan" /\ UNCHANGED <<bufferVars, listVars>>
        /\ loc[t] \in Locals /\ loc[t].curr \in Nodes
    BY <1>1, <1>5, ThreadsAssumption
       DEF mqtt_list_add_tail, At, Recording, Unlinking, JobInv, PointerInv, Threads, MemType
  <2>2. prev[List] \in Links /\ List \in Links /\ "add_1" \in AllPlaces
    BY <1>1 DEF MemType, Links, AllPlaces, Recording
  <2> DEFINE l == [loc[t] EXCEPT !.pc = "add_1", !.before = prev[List], !.after = List]
  <2>3. loc' = [loc EXCEPT ![t] = l]
    BY <1>1, <1>5, <2>1 DEF mqtt_list_add_tail, MemType, Locals
  <2>4. /\ l \in Locals /\ l.pc = "add_1" /\ l.before = prev[List] /\ l.after = List
        /\ l.curr = loc[t].curr /\ l.job = loc[t].job /\ l.pkt = loc[t].pkt
    BY <2>1, <2>2 DEF Locals
  <2>5. Moves(t) /\ loc'[t] = l
    BY <1>1, <2>3, <2>4, Moved
  <2> HIDE DEF l
  <2>6. JobInv(t)'
    BY <2>1, <2>4, <2>5, RecordingKeeps DEF Recording
  <2>7. PointerInv(t)'
    BY <2>1, <2>2, <2>4, <2>5 DEF PointerInv, At, Unlinking
  <2> QED
    BY <2>1, <2>5, <2>6, <2>7, Quiet DEF bufferVars
<1> QED
  BY <1>2, <1>3, <1>4, <1>5

\* A record is made.
LEMMA CreateKeeps ==
    ASSUME MemInv, NEW t \in Threads, mqtt_ack_handler_create(t)
    PROVE  MemInv'
<1>1. MemType /\ JobInv(t) /\ loc[t] \in Locals
  BY DEF MemInv, MemType
<1>2. /\ loc[t].pc = "create" /\ loc[t].pc \in Recording /\ UNCHANGED bufferVars
      /\ loc[t].job # "scan"
  BY <1>1, ThreadsAssumption DEF mqtt_ack_handler_create, At, Recording, Unlinking, JobInv, Threads
<1>3. PICK n \in Nodes :
        /\ heap' = [heap EXCEPT ![n] = [pkt |-> loc[t].pkt, payload |-> buf]]
        /\ next' = [next EXCEPT ![n] = n]
        /\ prev' = [prev EXCEPT ![n] = n]
        /\ loc' = [loc EXCEPT ![t].pc = "add", ![t].curr = n, ![t].nxt = NULL]
  BY Zenon DEF mqtt_ack_handler_create
<1> DEFINE l == [loc[t] EXCEPT !.pc = "add", !.curr = n, !.nxt = NULL]
<1>4. loc' = [loc EXCEPT ![t] = l]
  BY <1>1, <1>3 DEF MemType, Locals
<1>5. n \in Links /\ "add" \in AllPlaces
  BY DEF Links, AllPlaces, Recording
<1>6. /\ l \in Locals /\ l.pc = "add" /\ l.curr = n
      /\ l.job = loc[t].job /\ l.pkt = loc[t].pkt
  BY <1>1, <1>5 DEF Locals
<1>7. Moves(t) /\ loc'[t] = l
  BY <1>1, <1>4, <1>6, Moved
<1> HIDE DEF l
<1>8. JobInv(t)'
  BY <1>2, <1>6, <1>7, RecordingKeeps DEF Recording
<1>9. PointerInv(t)'
  BY <1>6, <1>7 DEF PointerInv, At, Unlinking
<1>10. MemType'
  <2>1. [pkt |-> loc[t].pkt, payload |-> buf] \in Records
    BY <1>1 DEF MemType, Locals, Records
  <2>2. heap' \in [Nodes -> Records \cup {NULL}]
    BY <1>1, <1>3, <2>1 DEF MemType
  <2> QED
    BY <1>1, <1>2, <1>3, <1>5, <1>7, <2>2 DEF MemType, Moves, bufferVars
<1> QED
  BY <1>7, <1>8, <1>9, <1>10, Others DEF MemInv

\* The assignments of _mqtt_list_add.
LEMMA AddKeeps ==
    ASSUME MemInv, NEW t \in Threads, list_add(t)
    PROVE  MemInv'
<1>1. MemType /\ JobInv(t) /\ PointerInv(t)
  BY DEF MemInv
<1>2. /\ loc[t].pc \in {"add_1", "add_2", "add_3", "add_4"} /\ loc[t].pc \in Recording
      /\ loc[t].job # "scan" /\ UNCHANGED <<buf, heap>>
  BY <1>1, ThreadsAssumption DEF list_add, Recording, Unlinking, JobInv, At, Threads
<1>3. next' \in [Links -> Links] /\ prev' \in [Links -> Links]
  BY <1>1, <1>2 DEF list_add, PointerInv, MemType, Links
<1>4. Moves(t) /\ JobInv(t)' /\ PointerInv(t)'
  <2>1. ASSUME NEW p \in {"add_2", "add_3", "add_4"}, Goto(t, p)
        PROVE  Moves(t) /\ JobInv(t)' /\ PointerInv(t)'
    <3>1. /\ Moves(t) /\ loc'[t].pc = p /\ loc'[t].job = loc[t].job /\ loc'[t].pkt = loc[t].pkt
          /\ loc'[t].curr = loc[t].curr /\ loc'[t].before = loc[t].before
          /\ loc'[t].after = loc[t].after
      BY <1>1, <2>1, GotoMoves DEF AllPlaces, Recording
    <3>2. JobInv(t)'
      BY <1>2, <3>1, RecordingKeeps DEF Recording
    <3>3. PointerInv(t)'
      BY <1>1, <1>2, <3>1 DEF PointerInv, At, Unlinking
    <3> QED
      BY <3>1, <3>2, <3>3
  <2>2. CASE Recorded(t, TRUE)
    BY <1>2, <2>2, RecordedKeeps
  <2> QED
    BY <2>1, <2>2 DEF list_add
<1>5. MemType'
  BY <1>1, <1>2, <1>3, <1>4 DEF MemType, Moves
<1> QED
  BY <1>4, <1>5, Others DEF MemInv

-----------------------------------------------------------------------------
(* The steps of the yield thread.                                          *)

\* A PINGREQ goes over the head of whatever is in the buffer.
LEMMA PingKeeps ==
    ASSUME MemInv, mqtt_keep_alive PROVE MemInv'
<1>1. Yield \in Threads /\ MemType
  BY DEF Threads, MemInv
<1>2. /\ Moves(Yield) /\ loc'[Yield].pc = "ping"
  BY <1>1, GotoMoves DEF mqtt_keep_alive, AllPlaces
<1>3. JobInv(Yield)' /\ PointerInv(Yield)'
  BY <1>2, ThreadsAssumption DEF JobInv, PointerInv, At, Unlinking
<1>4. buf' \in Content /\ UNCHANGED <<lock, listVars>>
  BY <1>1 DEF mqtt_keep_alive, MemType, Content, Packets
<1>5. MemType'
  BY <1>1, <1>2, <1>4 DEF MemType, Moves, listVars
<1> QED
  BY <1>1, <1>2, <1>3, <1>5, Others DEF MemInv

\* The walks: they begin, go on and end.
LEMMA WalkKeeps ==
    ASSUME MemInv, mqtt_keep_alive_send \/ mqtt_ack_list_scan \/ scan_end \/ scan_skip
    PROVE  MemInv'
<1>1. /\ Yield \in Threads /\ MemType /\ JobInv(Yield) /\ PointerInv(Yield)
      /\ UNCHANGED <<bufferVars, listVars>>
  BY DEF Threads, MemInv, mqtt_keep_alive_send, mqtt_ack_list_scan, scan_end, scan_skip
<1>2. CASE Finish(Yield)
  <2>1. Moves(Yield) /\ At(Yield, "idle")'
    BY <1>1, <1>2, FinishMoves
  <2>2. JobInv(Yield)' /\ PointerInv(Yield)'
    BY <2>1, ThreadsAssumption DEF JobInv, PointerInv, At, Recording, Unlinking
  <2> QED
    BY <1>1, <2>1, <2>2, Quiet DEF bufferVars
<1>3. ASSUME Moves(Yield), loc'[Yield].pc = "walk", loc'[Yield].job = "scan",
             loc'[Yield].curr \in Links, loc'[Yield].nxt \in Links
      PROVE  MemInv'
  <2>1. JobInv(Yield)' /\ PointerInv(Yield)'
    BY <1>3, ThreadsAssumption DEF JobInv, PointerInv, At, Unlinking
  <2> QED
    BY <1>1, <1>3, <2>1, Quiet DEF bufferVars
<1>4. CASE mqtt_ack_list_scan
  <2> DEFINE l == [Begin(Yield) EXCEPT !.job = "scan"]
  <2>1. next[List] \in Links /\ next[next[List]] \in Links /\ loc[Yield] \in Locals
    BY <1>1 DEF MemType, Links
  <2>2. "walk" \in AllPlaces
    BY DEF AllPlaces, Recording
  <2>3. /\ l \in Locals /\ l.pc = "walk" /\ l.job = "scan"
        /\ l.curr = next[List] /\ l.nxt = next[next[List]]
    BY <2>1, <2>2 DEF Begin, Locals
  <2>4. Moves(Yield) /\ loc'[Yield] = l
    BY <1>1, <1>4, <2>3, Moved DEF mqtt_ack_list_scan
  <2> HIDE DEF l
  <2> QED
    BY <1>3, <2>1, <2>3, <2>4
<1>5. CASE scan_skip
  <2>1. loc[Yield].job = "scan" /\ loc[Yield].nxt \in Links
    BY <1>1, <1>5 DEF scan_skip, Scanning, At, PointerInv
  <2> QED
    BY <1>1, <1>3, <1>5, <2>1, AdvanceMoves DEF scan_skip
<1> QED
  BY <1>2, <1>4, <1>5 DEF mqtt_keep_alive_send, scan_end

\* A record is repeated: the copy goes back into the buffer, under the lock.
LEMMA ResendKeeps ==
    ASSUME MemInv, ~Damaged, mqtt_ack_handler_resend PROVE MemInv'
<1>1. /\ Yield \in Threads /\ MemType /\ JobInv(Yield) /\ PointerInv(Yield)
      /\ loc[Yield] \in Locals
  BY DEF Threads, MemInv, MemType
<1> DEFINE n == loc[Yield].curr
<1>2. n \in Nodes /\ loc[Yield].nxt \in Links /\ loc[Yield].job = "scan" /\ lock = NULL
  BY <1>1 DEF mqtt_ack_handler_resend, Scanning, At, PointerInv, Links
<1>3. heap[n] # NULL
  BY <1>1, <1>2 DEF mqtt_ack_handler_resend, Scanning, At, Damaged, FreedUnderWalk, Holds
<1>4. heap[n] \in Records
  BY <1>1, <1>2, <1>3 DEF MemType
<1> DEFINE l == [loc[Yield] EXCEPT !.pc = "send", !.pkt = heap[n].pkt]
<1>5. loc' = [loc EXCEPT ![Yield] = l]
  BY <1>1 DEF mqtt_ack_handler_resend, MemType, Locals
<1>6. /\ l \in Locals /\ l.pc = "send" /\ l.pkt = heap[n].pkt
      /\ l.job = loc[Yield].job /\ l.curr = n /\ l.nxt = loc[Yield].nxt
  BY <1>1, <1>4 DEF Locals, AllPlaces, Records
<1>7. Moves(Yield) /\ loc'[Yield] = l
  BY <1>1, <1>5, <1>6, Moved
<1>8. buf' = heap[n].payload /\ lock' = Yield /\ UNCHANGED listVars
  BY DEF mqtt_ack_handler_resend
<1> HIDE DEF l, n
<1>9. JobInv(Yield)' /\ PointerInv(Yield)'
  BY <1>1, <1>2, <1>6, <1>7, ThreadsAssumption DEF JobInv, PointerInv, At, Links, Recording, Unlinking
<1>10. MemType'
  BY <1>1, <1>4, <1>7, <1>8 DEF MemType, Moves, Records, listVars
<1> QED
  BY <1>1, <1>7, <1>9, <1>10, Others DEF MemInv

\* mqtt_ack_handler_destroy, _mqtt_list_del and free.
LEMMA DestroyKeeps ==
    ASSUME MemInv, mqtt_ack_handler_destroy \/ list_del \/ platform_memory_free
    PROVE  MemInv'
<1>1. /\ Yield \in Threads /\ MemType /\ JobInv(Yield) /\ PointerInv(Yield)
      /\ loc[Yield] \in Locals /\ UNCHANGED bufferVars
  BY DEF Threads, MemInv, MemType, mqtt_ack_handler_destroy, list_del, platform_memory_free
<1>2. loc[Yield].job = "scan"
  BY <1>1 DEF mqtt_ack_handler_destroy, list_del, platform_memory_free, Scanning, JobInv, At,
              Recording, Unlinking
<1>3. CASE mqtt_ack_handler_destroy
  <2> DEFINE n == loc[Yield].curr
             l == [loc[Yield] EXCEPT !.pc = "del_1", !.before = prev[n], !.after = next[n]]
  <2>1. n \in Nodes /\ n \in Links /\ loc[Yield].nxt \in Links
    BY <1>1, <1>3 DEF mqtt_ack_handler_destroy, Scanning, At, PointerInv, Links
  <2>2. loc' = [loc EXCEPT ![Yield] = l]
    BY <1>1, <1>3 DEF mqtt_ack_handler_destroy, MemType, Locals
  <2>3. prev[n] \in Links /\ next[n] \in Links /\ "del_1" \in AllPlaces
    BY <1>1, <2>1 DEF MemType, AllPlaces, Unlinking
  <2>4. /\ l \in Locals /\ l.pc = "del_1" /\ l.before = prev[n] /\ l.after = next[n]
        /\ l.job = loc[Yield].job /\ l.curr = n /\ l.nxt = loc[Yield].nxt
    BY <1>1, <2>3 DEF Locals
  <2>5. Moves(Yield) /\ loc'[Yield] = l
    BY <1>1, <2>2, <2>4, Moved
  <2> HIDE DEF l, n
  <2>6. JobInv(Yield)' /\ PointerInv(Yield)'
    BY <1>2, <2>1, <2>3, <2>4, <2>5, ThreadsAssumption
       DEF JobInv, PointerInv, At, Recording, Unlinking
  <2> QED
    BY <1>1, <1>3, <2>5, <2>6, Quiet DEF mqtt_ack_handler_destroy, bufferVars
<1>4. CASE list_del
  <2>1. loc[Yield].pc \in {"del_1", "del_2"} /\ heap' = heap
    BY <1>4 DEF list_del
  <2>2. PICK p \in {"del_2", "free"} : Goto(Yield, p)
    BY <1>4 DEF list_del
  <2>3. /\ Moves(Yield) /\ loc'[Yield].pc = p /\ loc'[Yield].job = loc[Yield].job
        /\ loc'[Yield].curr = loc[Yield].curr /\ loc'[Yield].nxt = loc[Yield].nxt
        /\ loc'[Yield].before = loc[Yield].before /\ loc'[Yield].after = loc[Yield].after
    BY <1>1, <2>2, GotoMoves DEF AllPlaces, Unlinking
  <2>4. JobInv(Yield)' /\ PointerInv(Yield)'
    BY <1>1, <1>2, <2>1, <2>3, ThreadsAssumption
       DEF JobInv, PointerInv, At, Recording, Unlinking
  <2>5. next' \in [Links -> Links] /\ prev' \in [Links -> Links]
    BY <1>1, <1>4 DEF list_del, PointerInv, MemType
  <2>6. MemType'
    BY <1>1, <2>1, <2>3, <2>5 DEF MemType, Moves, bufferVars
  <2> QED
    BY <1>1, <2>3, <2>4, <2>6, Others DEF MemInv
<1>5. CASE platform_memory_free
  <2> DEFINE l == [Advance(Yield) EXCEPT !.before = NULL, !.after = NULL]
  <2>1. loc[Yield].nxt \in Links /\ loc[Yield].curr \in Nodes
    BY <1>1, <1>5 DEF platform_memory_free, At, PointerInv, Unlinking
  <2>2. next[loc[Yield].nxt] \in Links /\ "walk" \in AllPlaces /\ NULL \in Packets
    BY <1>1, <2>1 DEF MemType, AllPlaces, Recording, Packets
  <2>3. /\ l \in Locals /\ l.pc = "walk" /\ l.job = loc[Yield].job
        /\ l.curr = loc[Yield].nxt /\ l.nxt = next[loc[Yield].nxt]
    BY <1>1, <2>1, <2>2 DEF Locals, Advance
  <2>4. Moves(Yield) /\ loc'[Yield] = l
    BY <1>1, <1>5, <2>3, Moved DEF platform_memory_free
  <2> HIDE DEF l
  <2>5. JobInv(Yield)' /\ PointerInv(Yield)'
    BY <1>2, <2>1, <2>2, <2>3, <2>4, ThreadsAssumption
       DEF JobInv, PointerInv, At, Unlinking
  <2>6. /\ heap' = [heap EXCEPT ![loc[Yield].curr] = NULL] /\ UNCHANGED <<next, prev>>
    BY <1>5 DEF platform_memory_free
  <2>7. MemType'
    BY <1>1, <2>1, <2>4, <2>6 DEF MemType, Moves, bufferVars
  <2> QED
    BY <1>1, <2>4, <2>5, <2>7, Others DEF MemInv
<1> QED
  BY <1>3, <1>4, <1>5

-----------------------------------------------------------------------------
\* The invariant holds at the beginning.
LEMMA MemInit == Init => MemInv
<1> SUFFICES ASSUME Init PROVE MemInv
  OBVIOUS
<1>1. \A t \in Threads : loc[t] = Idle /\ loc[t].pc = "idle"
  BY DEF Init, Idle
<1>2. MemType
  <2>1. loc \in [Threads -> Locals]
    BY IdleType DEF Init
  <2>2. buf \in Content
    BY DEF Init, Whole, Content, Packets
  <2> QED
    BY <2>1, <2>2 DEF Init, MemType
<1>3. \A t \in Threads : JobInv(t) /\ PointerInv(t)
  BY <1>1 DEF JobInv, PointerInv, At, Recording, Unlinking
<1> QED
  BY <1>2, <1>3 DEF MemInv

\* Every step keeps the invariant.
LEMMA MemStep == MemInv /\ [Next]_vars => MemInv'
<1> SUFFICES ASSUME MemInv, [Next]_vars PROVE MemInv'
  OBVIOUS
<1>1. CASE UNCHANGED vars
  <2>1. \A t \in Threads : (JobInv(t) /\ PointerInv(t))'
    BY <1>1 DEF MemInv, vars, JobInv, PointerInv, At
  <2>2. MemType'
    BY <1>1 DEF MemInv, vars, bufferVars, listVars, MemType
  <2> QED
    BY <2>1, <2>2 DEF MemInv
<1>2. ASSUME NEW u \in Users, mqtt_publish(u) PROVE MemInv'
  BY <1>2, SerializeKeeps DEF mqtt_publish, Threads
<1>3. ASSUME NEW t \in Threads, Step(t) PROVE MemInv'
  BY <1>3, SendKeeps, RecordKeeps, CreateKeeps, AddKeeps DEF Step
<1>4. ASSUME ~Damaged, YieldStep PROVE MemInv'
  <2>1. CASE mqtt_publish_packet_handle \/ mqtt_publish_ack_packet
    BY <2>1, SerializeKeeps DEF mqtt_publish_packet_handle, mqtt_publish_ack_packet, Threads
  <2> QED
    BY <1>4, <2>1, PingKeeps, WalkKeeps, ResendKeeps, DestroyKeeps DEF YieldStep
<1> QED
  BY <1>1, <1>2, <1>3, <1>4 DEF Next

-----------------------------------------------------------------------------
(* The list.  S is the set of the records that are linked, q gives the     *)
(* predecessor of each of them and of the head, and r grows along the      *)
(* list, so that next closes a single ring.                                *)

Linked(S, r, q) ==
    /\ \A n \in S \cup {List} : next[n] \in S \cup {List} /\ q[next[n]] = n
    /\ \A n \in S \cup {List} : q[n] \in S \cup {List} /\ next[q[n]] = n
    /\ \A n \in S : next[n] # List => r[n] < r[next[n]]

\* The thread has made a record and not linked it yet.
Fresh(t) == loc[t].pc \in {"add", "add_1", "add_2", "add_3", "add_4"}

\* The yield thread has unlinked a record and not freed it yet.
Unlinked(n) == At(Yield, "free") /\ loc[Yield].curr = n

\* What is allocated is linked, or in the hands of the one thread that is
\* about to link it or to free it.
OwnerInv(S) ==
    /\ \A n \in S : heap[n] # NULL
    /\ \A n \in Nodes : heap[n] # NULL =>
          n \in S \/ Unlinked(n) \/ \E t \in Threads : Fresh(t) /\ loc[t].curr = n
    /\ \A t \in Threads : Fresh(t) =>
          /\ loc[t].curr \notin S /\ ~Unlinked(loc[t].curr) /\ heap[loc[t].curr] # NULL
          /\ \A u \in Threads : Fresh(u) /\ loc[u].curr = loc[t].curr => u = t
    /\ At(Yield, "free") => loc[Yield].curr \notin S /\ heap[loc[Yield].curr] # NULL

\* A thread in _mqtt_list_add knows the end of the list, and has made the
\* assignments it has passed.
AddInv(q) ==
    \A t \in Threads : Appending(t) =>
       /\ loc[t].after = List /\ loc[t].before = q[List]
       /\ loc[t].pc # "add_1" => prev[List] = loc[t].curr
       /\ loc[t].pc \in {"add_3", "add_4"} => next[loc[t].curr] = List
       /\ loc[t].pc = "add_4" => prev[loc[t].curr] = loc[t].before

\* The prev pointers are right, but for the one that an unfinished
\* _mqtt_list_add or _mqtt_list_del has already set.
PrevInv(S, q) ==
    \A n \in S \cup {List} :
       \/ prev[n] = q[n]
       \/ n = List /\ \E t \in Threads : loc[t].pc \in {"add_2", "add_3", "add_4"}
       \/ At(Yield, "del_2") /\ n = loc[Yield].after

\* The walk of the yield thread is on the list, and knows the neighbours of the
\* record it unlinks.
WalkInv(S, q) ==
    LET l == loc[Yield]
    IN  /\ l.job = "scan" /\ l.pc \in {"walk", "send", "del_1", "del_2"} =>
              /\ l.curr \in S \cup {List} /\ l.nxt \in S \cup {List}
              /\ l.curr # List => l.nxt # l.curr
        /\ l.pc \in {"del_1", "del_2"} => l.curr \in S /\ l.before = q[l.curr] /\ l.after = next[l.curr]
        /\ l.pc = "del_2" => prev[l.after] = l.before
        /\ l.pc = "free" => l.nxt \in S \cup {List}

ListGood(S, r, q) ==
    Linked(S, r, q) /\ OwnerInv(S) /\ AddInv(q) /\ PrevInv(S, q) /\ WalkInv(S, q)

\* The overlaps that damage the links.
Overlap == TwoAppends \/ AppendAtRemoval

ListInv ==
    Overlap \/ \E S \in SUBSET Nodes, r \in [Nodes -> Nat], q \in [Links -> Links] : ListGood(S, r, q)

-----------------------------------------------------------------------------
(* The steps and the list.                                                 *)

\* A step that changes no link and neither makes, links nor unlinks a record.
LEMMA ListQuiet ==
    ASSUME NEW S \in SUBSET Nodes, NEW r \in [Nodes -> Nat], NEW q \in [Links -> Links],
           ListGood(S, r, q), NEW t \in Threads, Moves(t), UNCHANGED listVars,
           ~Fresh(t), ~Fresh(t)',
           t = Yield => loc[t].pc \notin Unlinking /\ loc'[t].pc \notin {"del_2", "free"} /\ WalkInv(S, q)'
    PROVE  ListGood(S, r, q)'
<1>1. /\ \A u \in Threads : u # t => loc'[u] = loc[u]
      /\ next' = next /\ prev' = prev /\ heap' = heap
  BY DEF Moves, listVars
<1>2. \A u \in Threads : /\ Fresh(u)' <=> Fresh(u)
                         /\ Fresh(u) => loc'[u] = loc[u]
  BY <1>1 DEF Fresh
<1>3. At(Yield, "free")' <=> At(Yield, "free")
  BY <1>1 DEF At, Unlinking, Threads
<1>4. At(Yield, "free") => loc'[Yield] = loc[Yield]
  BY <1>1 DEF At, Unlinking, Threads
<1>5. At(Yield, "del_2") => loc'[Yield] = loc[Yield]
  BY <1>1 DEF At, Unlinking, Threads
<1>6. Linked(S, r, q)'
  BY <1>1 DEF ListGood, Linked
<1>7. OwnerInv(S)'
  BY <1>1, <1>2, <1>3, <1>4 DEF ListGood, OwnerInv, Unlinked
<1>8. \A u \in Threads : /\ Appending(u) => Fresh(u)
                         /\ Appending(u)' => Fresh(u)'
  BY DEF Appending, Fresh
<1>9. AddInv(q)'
  BY <1>1, <1>2, <1>8 DEF ListGood, AddInv, Appending
<1>10. PrevInv(S, q)'
  BY <1>1, <1>2, <1>5 DEF ListGood, PrevInv, At, Fresh
<1>11. WalkInv(S, q)'
  BY <1>1 DEF ListGood, WalkInv, Threads
<1> QED
  BY <1>6, <1>7, <1>9, <1>10, <1>11 DEF ListGood

\* mqtt_ack_list_record returns to its call, with or without a record.
LEMMA RecordedEnds ==
    ASSUME MemType, NEW t \in Threads, NEW ok \in BOOLEAN, Recorded(t, ok),
           loc[t].job \in {"publish", "answer", "release"}
    PROVE  Moves(t) /\ (loc'[t].pc = "idle" \/ (loc'[t].pc = "send" /\ loc'[t].job = "release"))
<1>1. CASE Finish(t)
  <2>1. Moves(t) /\ At(t, "idle")'
    BY <1>1, FinishMoves
  <2> QED
    BY <2>1 DEF At
<1>2. CASE Goto(t, "send") /\ loc[t].job = "release"
  BY <1>2, GotoMoves DEF AllPlaces
<1> QED
  BY <1>1, <1>2 DEF Recorded

\* A record is made, at an address that no thread and no link refers to.
LEMMA ListCreate ==
    ASSUME MemInv, NEW S \in SUBSET Nodes, NEW r \in [Nodes -> Nat], NEW q \in [Links -> Links],
           ListGood(S, r, q), NEW t \in Threads, mqtt_ack_handler_create(t)
    PROVE  ListGood(S, r, q)'
<1>1. MemType /\ loc[t] \in Locals /\ loc[t].pc = "create"
  BY DEF MemInv, MemType, mqtt_ack_handler_create, At
<1>2. PICK n \in Nodes :
        /\ heap[n] = NULL
        /\ heap' = [heap EXCEPT ![n] = [pkt |-> loc[t].pkt, payload |-> buf]]
        /\ next' = [next EXCEPT ![n] = n]
        /\ prev' = [prev EXCEPT ![n] = n]
        /\ loc' = [loc EXCEPT ![t].pc = "add", ![t].curr = n, ![t].nxt = NULL]
  BY DEF mqtt_ack_handler_create
<1> DEFINE l == [loc[t] EXCEPT !.pc = "add", !.curr = n, !.nxt = NULL]
<1>3. l \in Locals /\ l.pc = "add" /\ l.curr = n
  BY <1>1 DEF Locals, Links, AllPlaces, Recording
<1>4. loc' = [loc EXCEPT ![t] = l]
  BY <1>1, <1>2 DEF MemType, Locals
<1>5. Moves(t) /\ loc'[t] = l
  BY <1>1, <1>3, <1>4, Moved
<1>6. loc'[t].pc = "add" /\ loc'[t].curr = n /\ \A u \in Threads : u # t => loc'[u] = loc[u]
  BY <1>3, <1>5 DEF Moves
<1> HIDE DEF l
<1>7. n \notin S /\ n # List /\ \A u \in Threads : Fresh(u) => loc[u].curr # n
  BY <1>2, NodesAssumption DEF ListGood, OwnerInv
<1>8. \A m \in Links : m # n => next'[m] = next[m] /\ prev'[m] = prev[m]
  BY <1>1, <1>2 DEF MemType
<1>9. \A m \in Nodes : m # n => heap'[m] = heap[m]
  BY <1>1, <1>2 DEF MemType
<1>10. heap'[n] # NULL
  <2>1. heap'[n] = [pkt |-> loc[t].pkt, payload |-> buf]
    BY <1>1, <1>2 DEF MemType
  <2>2. [pkt |-> loc[t].pkt, payload |-> buf] # NULL
    BY <1>1, RecordsAssumption DEF MemType, Locals, Records
  <2> QED
    BY <2>1, <2>2
<1>11. Yield \in Threads /\ Links = Nodes \cup {List}
  BY DEF Threads, Links
<1>12. loc'[Yield] = loc[Yield] \/ (loc[Yield].pc = "create" /\ loc'[Yield].pc = "add")
  <2>1. CASE Yield = t
    BY <1>1, <1>6, <1>11, <2>1
  <2>2. CASE Yield # t
    BY <1>1, <1>6, <1>11, <2>2
  <2> QED
    BY <2>1, <2>2
<1>13. Linked(S, r, q)'
  BY <1>7, <1>8, <1>11 DEF ListGood, Linked
<1>14. \A u \in Threads : Fresh(u)' <=> (Fresh(u) \/ u = t)
  BY <1>1, <1>6 DEF Fresh
<1>15. ~Fresh(t)
  BY <1>1 DEF Fresh
<1>16. \A m \in Nodes : /\ Unlinked(m)' <=> Unlinked(m)
                        /\ Unlinked(m) => m # n
  BY <1>2, <1>12 DEF Unlinked, At, ListGood, OwnerInv
<1>17. OwnerInv(S)'
  <2>1. \A m \in S : heap'[m] # NULL
    BY <1>7, <1>9 DEF ListGood, OwnerInv
  <2>2. ASSUME NEW m \in Nodes, heap'[m] # NULL
        PROVE  m \in S \/ Unlinked(m)' \/ \E u \in Threads : Fresh(u)' /\ loc'[u].curr = m
    BY <1>6, <1>9, <1>14, <1>15, <1>16, <2>2 DEF ListGood, OwnerInv
  <2>3. ASSUME NEW u \in Threads, Fresh(u)'
        PROVE  /\ loc'[u].curr \notin S /\ ~Unlinked(loc[u].curr)' /\ heap'[loc'[u].curr] # NULL
               /\ \A v \in Threads : Fresh(v)' /\ loc'[v].curr = loc'[u].curr => v = u
    <3>1. CASE u = t
      BY <1>6, <1>7, <1>10, <1>14, <1>16, <3>1
    <3>2. CASE u # t
      <4>1. Fresh(u) /\ loc'[u].curr = loc[u].curr /\ loc[u].curr # n /\ loc[u].curr \in Nodes
        BY <1>6, <1>7, <1>14, <2>3, <3>2 DEF MemInv, PointerInv, Fresh
      <4> QED
        BY <1>6, <1>9, <1>14, <1>16, <3>2, <4>1 DEF ListGood, OwnerInv
    <3> QED
      BY <3>1, <3>2
  <2>4. At(Yield, "free")' => loc'[Yield].curr \notin S /\ heap'[loc'[Yield].curr] # NULL
    <3> SUFFICES ASSUME At(Yield, "free")' PROVE loc'[Yield].curr \notin S /\ heap'[loc'[Yield].curr] # NULL
      OBVIOUS
    <3>1. At(Yield, "free") /\ loc'[Yield] = loc[Yield] /\ loc[Yield].curr \in Nodes
      BY <1>11, <1>12 DEF At, MemInv, PointerInv, Unlinking
    <3> QED
      BY <1>9, <1>16, <3>1 DEF ListGood, OwnerInv, Unlinked
  <2> QED
    BY <2>1, <2>2, <2>3, <2>4 DEF OwnerInv
<1>18. \A u \in Threads : Appending(u)' => Appending(u) /\ loc'[u] = loc[u] /\ loc[u].curr # n /\ loc[u].curr \in Links
  <2> SUFFICES ASSUME NEW u \in Threads, Appending(u)'
               PROVE  Appending(u) /\ loc'[u] = loc[u] /\ loc[u].curr # n /\ loc[u].curr \in Links
    OBVIOUS
  <2>1. u # t /\ loc'[u] = loc[u]
    BY <1>6 DEF Appending
  <2> QED
    BY <1>7, <1>11, <2>1 DEF Appending, Fresh, MemInv, PointerInv
<1>19. AddInv(q)'
  BY <1>7, <1>8, <1>11, <1>18 DEF ListGood, AddInv, Appending
<1>20. PrevInv(S, q)'
  BY <1>1, <1>6, <1>7, <1>8, <1>11, <1>12 DEF ListGood, PrevInv, At
<1>21. WalkInv(S, q)'
  <2>1. CASE loc'[Yield] = loc[Yield]
    <3>1. loc[Yield].pc \in {"del_1", "del_2"} => loc[Yield].curr # n /\ loc[Yield].after # n /\ loc[Yield].after \in Links
      BY <1>7, <1>11 DEF ListGood, WalkInv, Linked
    <3> QED
      BY <1>7, <1>8, <1>11, <2>1, <3>1 DEF ListGood, WalkInv
  <2>2. CASE loc'[Yield].pc = "add"
    BY <2>2 DEF WalkInv
  <2> QED
    BY <1>12, <2>1, <2>2
<1> QED
  BY <1>13, <1>17, <1>19, <1>20, <1>21 DEF ListGood

\* mqtt_list_add_tail reads the end of the list, unless the thread overlaps.
LEMMA ListAddTail ==
    ASSUME MemInv, NEW S \in SUBSET Nodes, NEW r \in [Nodes -> Nat], NEW q \in [Links -> Links],
           ListGood(S, r, q), NEW t \in Threads, mqtt_list_add_tail(t), ~Overlap'
    PROVE  ListGood(S, r, q)'
<1>1. MemType /\ loc[t] \in Locals /\ loc[t].pc = "add" /\ UNCHANGED listVars
  BY DEF MemInv, MemType, mqtt_list_add_tail, At
<1> DEFINE l == [loc[t] EXCEPT !.pc = "add_1", !.before = prev[List], !.after = List]
<1>2. /\ l \in Locals /\ l.pc = "add_1" /\ l.before = prev[List] /\ l.after = List
      /\ l.curr = loc[t].curr
  BY <1>1 DEF Locals, Links, AllPlaces, Recording, MemType
<1>3. loc' = [loc EXCEPT ![t] = l]
  BY <1>1 DEF mqtt_list_add_tail, MemType, Locals
<1>4. Moves(t) /\ loc'[t] = l
  BY <1>1, <1>2, <1>3, Moved
<1>5. /\ loc'[t].pc = "add_1" /\ loc'[t].before = prev[List] /\ loc'[t].after = List
      /\ loc'[t].curr = loc[t].curr
      /\ \A u \in Threads : u # t => loc'[u] = loc[u]
  BY <1>2, <1>4 DEF Moves
<1> HIDE DEF l
<1>6. next' = next /\ prev' = prev /\ heap' = heap /\ Yield \in Threads
  BY <1>1 DEF listVars, Threads
<1>7. loc'[Yield] = loc[Yield] \/ (loc[Yield].pc = "add" /\ loc'[Yield].pc = "add_1")
  <2>1. CASE Yield = t
    BY <1>1, <1>5, <1>6, <2>1
  <2>2. CASE Yield # t
    BY <1>1, <1>5, <1>6, <2>2
  <2> QED
    BY <2>1, <2>2
<1>8. \A u \in Threads : u # t => ~Appending(u)
  BY <1>5 DEF Overlap, TwoAppends, Appending
<1>9. prev[List] = q[List]
  <2>1. ~\E u \in Threads : loc[u].pc \in {"add_2", "add_3", "add_4"}
    BY <1>1, <1>8 DEF Appending
  <2>2. ~(At(Yield, "del_2") /\ loc[Yield].after = List)
    <3> SUFFICES ASSUME At(Yield, "del_2"), loc[Yield].after = List PROVE FALSE
      OBVIOUS
    <3>1. t \in Users /\ loc'[Yield] = loc[Yield]
      BY <1>1, <1>7 DEF At, Threads
    <3> QED
      BY <1>5, <3>1 DEF Overlap, AppendAtRemoval, Appending, At
  <2> QED
    BY <2>1, <2>2 DEF ListGood, PrevInv
<1>10. Linked(S, r, q)'
  BY <1>6 DEF ListGood, Linked
<1>11. \A u \in Threads : (Fresh(u)' <=> Fresh(u)) /\ loc'[u].curr = loc[u].curr
  BY <1>1, <1>5 DEF Fresh
<1>12. At(Yield, "free")' <=> At(Yield, "free")
  BY <1>7 DEF At
<1>13. OwnerInv(S)'
  BY <1>6, <1>11, <1>12 DEF ListGood, OwnerInv, Unlinked
<1>14. AddInv(q)'
  BY <1>5, <1>8, <1>9 DEF AddInv, Appending
<1>15. PrevInv(S, q)'
  BY <1>1, <1>5, <1>6, <1>7 DEF ListGood, PrevInv, At
<1>16. WalkInv(S, q)'
  BY <1>6, <1>7 DEF ListGood, WalkInv
<1> QED
  BY <1>10, <1>13, <1>14, <1>15, <1>16 DEF ListGood

\* The first three assignments of _mqtt_list_add, none of which a walk can see.
LEMMA ListAddBegin ==
    ASSUME MemInv, NEW S \in SUBSET Nodes, NEW r \in [Nodes -> Nat], NEW q \in [Links -> Links],
           ListGood(S, r, q), ~Overlap, NEW t \in Threads, list_add(t), loc[t].pc # "add_4"
    PROVE  ListGood(S, r, q)'
<1> DEFINE c == loc[t].curr
<1>1. /\ MemType /\ loc[t].pc \in {"add_1", "add_2", "add_3"} /\ Appending(t) /\ Fresh(t)
      /\ c \in Nodes /\ heap' = heap
  BY DEF MemInv, list_add, Appending, Fresh, PointerInv
<1>2. /\ c \notin S /\ c # List /\ loc[t].after = List /\ loc[t].before = q[List]
      /\ loc[t].pc # "add_1" => prev[List] = c
      /\ loc[t].pc = "add_3" => next[c] = List
  BY <1>1, NodesAssumption DEF ListGood, OwnerInv, AddInv
<1>3. PICK p \in {"add_2", "add_3", "add_4"} :
        /\ Goto(t, p)
        /\ \/ loc[t].pc = "add_1" /\ p = "add_2" /\ prev' = [prev EXCEPT ![List] = c] /\ next' = next
           \/ loc[t].pc = "add_2" /\ p = "add_3" /\ next' = [next EXCEPT ![c] = List] /\ prev' = prev
           \/ loc[t].pc = "add_3" /\ p = "add_4" /\ prev' = [prev EXCEPT ![c] = loc[t].before] /\ next' = next
  BY <1>1, <1>2 DEF list_add
<1>4. /\ loc'[t].pc = p /\ loc'[t].curr = c
      /\ loc'[t].before = q[List] /\ loc'[t].after = List
      /\ \A u \in Threads : u # t => loc'[u] = loc[u]
  BY <1>1, <1>2, <1>3, GotoMoves DEF AllPlaces, Recording, Moves
<1> HIDE DEF c
<1>5. /\ \A m \in Links : m # c => next'[m] = next[m] /\ (m # List => prev'[m] = prev[m])
      /\ prev'[List] = c
      /\ p \in {"add_3", "add_4"} => next'[c] = List
      /\ p = "add_4" => prev'[c] = loc[t].before
  <2>1. c \in Links /\ List \in Links
    BY <1>1 DEF Links
  <2> QED
    BY <1>1, <1>2, <1>3, <2>1 DEF MemType
<1>6. Yield \in Threads /\ Links = Nodes \cup {List} /\ S \cup {List} \subseteq Links
  BY DEF Threads, Links
<1>7. \A u \in Threads : u # t => ~Appending(u)
  BY <1>1 DEF Overlap, TwoAppends
<1>8. \/ loc'[Yield] = loc[Yield]
      \/ t = Yield /\ loc[Yield].pc \notin Unlinking \cup {"walk", "send"}
                   /\ loc'[Yield].pc \notin Unlinking \cup {"walk", "send"}
  BY <1>1, <1>3, <1>4, <1>6 DEF Unlinking
<1>9. loc[Yield].pc \in {"del_1", "del_2"} => loc[Yield].after # List
  <2> SUFFICES ASSUME loc[Yield].pc \in {"del_1", "del_2"} PROVE loc[Yield].after # List
    OBVIOUS
  <2>1. t \in Users
    BY <1>1 DEF Threads
  <2> QED
    BY <1>1, <2>1 DEF Overlap, AppendAtRemoval
<1>10. Linked(S, r, q)'
  BY <1>2, <1>5, <1>6 DEF ListGood, Linked
<1>11. \A u \in Threads : (Fresh(u)' <=> Fresh(u)) /\ loc'[u].curr = loc[u].curr
  BY <1>1, <1>3, <1>4 DEF Fresh, c
<1>12. At(Yield, "free")' <=> At(Yield, "free")
  BY <1>8 DEF At, Unlinking
<1>13. OwnerInv(S)'
  BY <1>1, <1>6, <1>11, <1>12 DEF ListGood, OwnerInv, Unlinked
<1>14. AddInv(q)'
  <2>1. \A u \in Threads : Appending(u)' => u = t
    BY <1>4, <1>7 DEF Appending
  <2>2. c = loc'[t].curr /\ loc[t].before = q[List]
    BY <1>2, <1>4
  <2> QED
    BY <1>4, <1>5, <2>1, <2>2 DEF AddInv
<1>15. PrevInv(S, q)'
  <2> SUFFICES ASSUME NEW n \in S
               PROVE  prev'[n] = q[n] \/ (At(Yield, "del_2")' /\ n = loc'[Yield].after)
    BY <1>3, <1>4 DEF PrevInv
  <2>1. n # c /\ n # List /\ n \in Links
    BY <1>2, <1>6, NodesAssumption
  <2>2. prev[n] = q[n] \/ (At(Yield, "del_2") /\ n = loc[Yield].after)
    BY <2>1 DEF ListGood, PrevInv
  <2> QED
    BY <1>5, <1>8, <2>1, <2>2 DEF At, Unlinking
<1>16. WalkInv(S, q)'
  <2>1. CASE loc'[Yield] = loc[Yield]
    <3>1. loc[Yield].pc \in {"del_1", "del_2"} =>
            /\ loc[Yield].curr \in Links /\ loc[Yield].curr # c
            /\ loc[Yield].after \in Links /\ loc[Yield].after # c /\ loc[Yield].after # List
      BY <1>2, <1>6, <1>9 DEF ListGood, WalkInv, Linked
    <3> QED
      BY <1>5, <2>1, <3>1 DEF ListGood, WalkInv
  <2>2. CASE loc'[Yield].pc \notin Unlinking \cup {"walk", "send"}
    BY <2>2 DEF WalkInv, Unlinking
  <2> QED
    BY <1>8, <2>1, <2>2
<1> QED
  BY <1>10, <1>13, <1>14, <1>15, <1>16 DEF ListGood

\* The last assignment of _mqtt_list_add puts the record on the list.
LEMMA ListAddEnd ==
    ASSUME MemInv, NEW S \in SUBSET Nodes, NEW r \in [Nodes -> Nat], NEW q \in [Links -> Links],
           ListGood(S, r, q), ~Overlap, NEW t \in Threads, list_add(t), loc[t].pc = "add_4"
    PROVE  \E S1 \in SUBSET Nodes, r1 \in [Nodes -> Nat], q1 \in [Links -> Links] : ListGood(S1, r1, q1)'
<1>0. PICK c : c = loc[t].curr
  OBVIOUS
<1> DEFINE b == q[List]
           S1 == S \cup {c}
           q1 == [n \in Links |-> IF n = List THEN c ELSE IF n = c THEN b ELSE q[n]]
           r1 == [n \in Nodes |-> IF n # c THEN r[n] ELSE IF b = List THEN 0 ELSE r[b] + 1]
<1>1. /\ MemType /\ JobInv(t) /\ Appending(t) /\ Fresh(t)
      /\ c \in Nodes /\ heap' = heap /\ prev' = prev
      /\ next' = [next EXCEPT ![loc[t].before] = c] /\ Recorded(t, TRUE)
  BY <1>0 DEF MemInv, list_add, Appending, Fresh, PointerInv
<1>2. /\ c \notin S /\ c # List /\ loc[t].before = b
      /\ prev[List] = c /\ next[c] = List /\ prev[c] = b
      /\ b \in S \cup {List} /\ next[b] = List /\ c # b
  BY <1>0, <1>1, NodesAssumption DEF ListGood, OwnerInv, AddInv, Linked
<1>3. loc[t].job \in {"publish", "answer", "release"}
  BY <1>1, ThreadsAssumption DEF JobInv, At, Threads, Recording, Unlinking
<1>4. /\ loc'[t].pc = "idle" \/ (loc'[t].pc = "send" /\ loc'[t].job = "release")
      /\ \A u \in Threads : u # t => loc'[u] = loc[u]
  BY <1>1, <1>3, RecordedEnds DEF Moves
<1>5. Yield \in Threads /\ Links = Nodes \cup {List} /\ S \cup {List} \subseteq Links
  BY DEF Threads, Links
<1> HIDE DEF b
<1>6. S1 \in SUBSET Nodes /\ q1 \in [Links -> Links] /\ r1 \in [Nodes -> Nat]
  BY <1>1, <1>2, <1>5
<1>7. next'[b] = c /\ \A m \in Links : m # b => next'[m] = next[m]
  BY <1>1, <1>2, <1>5 DEF MemType
<1>8. \A u \in Threads : ~Appending(u)' /\ (u # t => ~Appending(u))
  BY <1>1, <1>4 DEF Overlap, TwoAppends, Appending
<1>9. \/ loc'[Yield] = loc[Yield]
      \/ t = Yield /\ loc[Yield].pc = "add_4"
                   /\ (loc'[Yield].pc = "idle" \/ (loc'[Yield].pc = "send" /\ loc'[Yield].job = "release"))
  BY <1>4, <1>5
<1>10. q1[List] = c /\ q1[c] = b /\ \A n \in S : q1[n] = q[n]
  BY <1>1, <1>2, <1>5, NodesAssumption
<1>11. \A n \in S : r1[n] = r[n] /\ r1[n] \in Nat
  BY <1>2
<1>12. b \in S => r1[c] = r1[b] + 1
  BY <1>1, <1>2, NodesAssumption
<1> HIDE DEF q1, r1
<1>13. Linked(S1, r1, q1)'
  <2>1. ASSUME NEW n \in S1 \cup {List} PROVE next'[n] \in S1 \cup {List} /\ q1[next'[n]] = n
    <3>1. CASE n = b
      BY <1>7, <1>10, <3>1
    <3>2. CASE n = c
      BY <1>1, <1>2, <1>5, <1>7, <1>10, <3>2
    <3>3. CASE n # b /\ n # c
      <4>1. n \in S \cup {List} /\ n \in Links
        BY <1>5, <3>3
      <4>2. next[n] \in S \cup {List} /\ q[next[n]] = n
        BY <4>1 DEF ListGood, Linked
      <4>3. next[n] # List
        BY <3>3, <4>2 DEF b
      <4> QED
        BY <1>7, <1>10, <3>3, <4>1, <4>2, <4>3
    <3> QED
      BY <3>1, <3>2, <3>3
  <2>2. ASSUME NEW n \in S1 \cup {List} PROVE q1[n] \in S1 \cup {List} /\ next'[q1[n]] = n
    <3>1. CASE n = List
      BY <1>1, <1>2, <1>5, <1>7, <1>10, <3>1
    <3>2. CASE n = c
      BY <1>2, <1>7, <1>10, <3>2
    <3>3. CASE n # List /\ n # c
      <4>1. n \in S /\ q[n] \in S \cup {List} /\ next[q[n]] = n
        BY <3>3 DEF ListGood, Linked
      <4> QED
        BY <1>2, <1>5, <1>7, <1>10, <3>3, <4>1
    <3> QED
      BY <3>1, <3>2, <3>3
  <2>3. ASSUME NEW n \in S1, next'[n] # List PROVE r1[n] < r1[next'[n]]
    <3>1. CASE n = b
      BY <1>2, <1>7, <1>11, <1>12, <2>3, <3>1
    <3>2. CASE n = c
      BY <1>1, <1>2, <1>5, <1>7, <2>3, <3>2
    <3>3. CASE n # b /\ n # c
      <4>1. n \in S /\ next'[n] = next[n]
        BY <1>5, <1>7, <3>3
      <4>2. next[n] \in S /\ r[n] < r[next[n]]
        BY <2>3, <4>1 DEF ListGood, Linked
      <4> QED
        BY <1>11, <4>1, <4>2
    <3> QED
      BY <3>1, <3>2, <3>3
  <2> QED
    BY <2>1, <2>2, <2>3 DEF Linked
<1>14. OwnerInv(S1)'
  <2>1. \A u \in Threads : Fresh(u)' <=> (Fresh(u) /\ u # t)
    BY <1>4 DEF Fresh
  <2>2. \A u \in Threads : Fresh(u) /\ u # t => loc[u].curr # c
    BY <1>0, <1>1 DEF ListGood, OwnerInv
  <2>3. At(Yield, "free")' <=> At(Yield, "free")
    BY <1>9 DEF At
  <2>4. At(Yield, "free") => loc'[Yield] = loc[Yield] /\ loc[Yield].curr # c
    BY <1>0, <1>1, <1>9 DEF At, ListGood, OwnerInv, Unlinked
  <2>5. \A n \in S1 : heap'[n] # NULL
    BY <1>0, <1>1 DEF ListGood, OwnerInv
  <2>6. ASSUME NEW n \in Nodes, heap'[n] # NULL
        PROVE  n \in S1 \/ Unlinked(n)' \/ \E u \in Threads : Fresh(u)' /\ loc'[u].curr = n
    <3>1. n \in S \/ Unlinked(n) \/ \E u \in Threads : Fresh(u) /\ loc[u].curr = n
      BY <1>1, <2>6 DEF ListGood, OwnerInv
    <3>2. CASE Unlinked(n)
      BY <2>3, <2>4, <3>2 DEF Unlinked
    <3>3. ASSUME NEW u \in Threads, Fresh(u), loc[u].curr = n PROVE n = c \/ (Fresh(u)' /\ loc'[u].curr = n)
      BY <1>0, <1>4, <2>1, <3>3
    <3> QED
      BY <3>1, <3>2, <3>3
  <2>7. ASSUME NEW u \in Threads, Fresh(u)'
        PROVE  /\ loc'[u].curr \notin S1 /\ ~Unlinked(loc[u].curr)' /\ heap'[loc'[u].curr] # NULL
               /\ \A v \in Threads : Fresh(v)' /\ loc'[v].curr = loc'[u].curr => v = u
    <3>1. Fresh(u) /\ u # t /\ loc'[u] = loc[u]
      BY <1>4, <2>1, <2>7
    <3>2. ~Unlinked(loc[u].curr)'
      BY <2>3, <2>4, <3>1 DEF Unlinked, ListGood, OwnerInv
    <3> QED
      BY <1>1, <1>4, <2>1, <2>2, <3>1, <3>2 DEF ListGood, OwnerInv
  <2>8. At(Yield, "free")' => loc'[Yield].curr \notin S1 /\ heap'[loc'[Yield].curr] # NULL
    BY <1>1, <2>3, <2>4 DEF ListGood, OwnerInv
  <2> QED
    BY <2>5, <2>6, <2>7, <2>8 DEF OwnerInv
<1>15. AddInv(q1)'
  BY <1>8 DEF AddInv
<1>16. PrevInv(S1, q1)'
  <2> SUFFICES ASSUME NEW n \in S, n # List
               PROVE  prev'[n] = q1[n] \/ (At(Yield, "del_2")' /\ n = loc'[Yield].after)
    BY <1>1, <1>2, <1>10, NodesAssumption DEF PrevInv
  <2>1. prev[n] = q[n] \/ (At(Yield, "del_2") /\ n = loc[Yield].after)
    BY DEF ListGood, PrevInv
  <2> QED
    BY <1>1, <1>9, <1>10, <2>1 DEF At
<1>17. WalkInv(S1, q1)'
  <2>1. CASE loc'[Yield] = loc[Yield]
    <3>1. loc[Yield].pc \in {"del_1", "del_2"} => loc[Yield].curr \in S /\ loc[Yield].curr # b
      <4> SUFFICES ASSUME loc[Yield].pc \in {"del_1", "del_2"} PROVE loc[Yield].curr \in S /\ loc[Yield].curr # b
        OBVIOUS
      <4>1. loc[Yield].curr \in S /\ loc[Yield].after = next[loc[Yield].curr]
        BY DEF ListGood, WalkInv
      <4>2. loc[Yield].after # List
        BY <1>1, <1>9 DEF Overlap, AppendAtRemoval, Threads
      <4> QED
        BY <1>2, <4>1, <4>2
    <3> QED
      BY <1>1, <1>5, <1>7, <1>10, <2>1, <3>1 DEF ListGood, WalkInv
  <2>2. CASE loc'[Yield].pc = "idle" \/ (loc'[Yield].pc = "send" /\ loc'[Yield].job = "release")
    BY <2>2 DEF WalkInv
  <2> QED
    BY <1>9, <2>1, <2>2
<1>18. ListGood(S1, r1, q1)'
  BY <1>13, <1>14, <1>15, <1>16, <1>17 DEF ListGood
<1> QED
  BY <1>6, <1>18

\* The first assignment of _mqtt_list_del: no walk goes backwards.
LEMMA ListDelBegin ==
    ASSUME MemInv, NEW S \in SUBSET Nodes, NEW r \in [Nodes -> Nat], NEW q \in [Links -> Links],
           ListGood(S, r, q), ~Overlap, list_del, At(Yield, "del_1")
    PROVE  ListGood(S, r, q)'
<1> DEFINE a == loc[Yield].after
           b == loc[Yield].before
<1>1. /\ MemType /\ Yield \in Threads /\ loc[Yield].job = "scan" /\ heap' = heap /\ next' = next
      /\ prev' = [prev EXCEPT ![a] = b] /\ Goto(Yield, "del_2")
  BY DEF MemInv, Threads, list_del, At, JobInv, Unlinking, Recording
<1>2. /\ loc'[Yield].pc = "del_2" /\ loc'[Yield].job = "scan"
      /\ loc'[Yield].curr = loc[Yield].curr /\ loc'[Yield].nxt = loc[Yield].nxt
      /\ loc'[Yield].before = b /\ loc'[Yield].after = a
      /\ \A u \in Threads : u # Yield => loc'[u] = loc[u]
  BY <1>1, GotoMoves DEF AllPlaces, Unlinking, Moves
<1>3. a \in S \cup {List} /\ a \in Links
  BY DEF ListGood, WalkInv, Linked, At, Links
<1>4. prev'[a] = b /\ \A m \in Links : m # a => prev'[m] = prev[m]
  BY <1>1, <1>3 DEF MemType
<1>5. a = List => \A u \in Threads : ~Appending(u)
  BY DEF Overlap, AppendAtRemoval, Appending, Threads, At
<1>6. \A u \in Threads : Fresh(u)' <=> Fresh(u)
  BY <1>2 DEF Fresh, At
<1>7. \A u \in Threads : /\ Fresh(u) => loc'[u] = loc[u] /\ loc[u].curr \in Nodes /\ loc[u].curr \notin S
                         /\ Appending(u) => Fresh(u)
                         /\ Appending(u)' <=> Appending(u)
  BY <1>2 DEF Fresh, Appending, At, MemInv, PointerInv, ListGood, OwnerInv
<1> HIDE DEF a, b
<1>8. Linked(S, r, q)'
  BY <1>1 DEF ListGood, Linked
<1>9. ~At(Yield, "free") /\ ~At(Yield, "free")'
  BY <1>2 DEF At
<1>10. OwnerInv(S)'
  BY <1>1, <1>6, <1>7, <1>9 DEF ListGood, OwnerInv, Unlinked
<1>11. AddInv(q)'
  <2> SUFFICES ASSUME NEW u \in Threads, Appending(u)'
               PROVE  /\ loc'[u].after = List /\ loc'[u].before = q[List]
                      /\ loc'[u].pc # "add_1" => prev'[List] = loc'[u].curr
                      /\ loc'[u].pc \in {"add_3", "add_4"} => next'[loc'[u].curr] = List
                      /\ loc'[u].pc = "add_4" => prev'[loc'[u].curr] = loc'[u].before
    BY DEF AddInv
  <2>1. Appending(u) /\ loc'[u] = loc[u] /\ a # List /\ a # loc[u].curr
    BY <1>3, <1>5, <1>7, NodesAssumption
  <2>2. prev'[List] = prev[List] /\ prev'[loc[u].curr] = prev[loc[u].curr]
    BY <1>4, <1>7, <2>1 DEF Links
  <2> QED
    BY <1>1, <2>1, <2>2 DEF ListGood, AddInv
<1>12. PrevInv(S, q)'
  <2> SUFFICES ASSUME NEW n \in S \cup {List}, n # a
               PROVE  \/ prev'[n] = q[n]
                      \/ n = List /\ \E u \in Threads : loc'[u].pc \in {"add_2", "add_3", "add_4"}
    BY <1>2 DEF PrevInv, At
  <2>1. prev'[n] = prev[n]
    BY <1>4 DEF Links
  <2>2. \/ prev[n] = q[n]
        \/ n = List /\ \E u \in Threads : loc[u].pc \in {"add_2", "add_3", "add_4"}
    BY DEF ListGood, PrevInv, At
  <2>3. \A u \in Threads : loc[u].pc \in {"add_2", "add_3", "add_4"} => loc'[u] = loc[u]
    BY <1>2 DEF At
  <2> QED
    BY <2>1, <2>2, <2>3
<1>13. WalkInv(S, q)'
  BY <1>1, <1>2, <1>4 DEF ListGood, WalkInv, At, a, b
<1> QED
  BY <1>8, <1>10, <1>11, <1>12, <1>13 DEF ListGood

\* The second assignment of _mqtt_list_del takes the record off the list.
LEMMA ListDelEnd ==
    ASSUME MemInv, NEW S \in SUBSET Nodes, NEW r \in [Nodes -> Nat], NEW q \in [Links -> Links],
           ListGood(S, r, q), ~Overlap, list_del, At(Yield, "del_2")
    PROVE  \E S1 \in SUBSET Nodes, q1 \in [Links -> Links] : ListGood(S1, r, q1)'
<1>0. PICK a, b, c : a = loc[Yield].after /\ b = loc[Yield].before /\ c = loc[Yield].curr
  OBVIOUS
<1> DEFINE S1 == S \ {c}
           q1 == [n \in Links |-> IF n = a THEN b ELSE q[n]]
<1>1. /\ MemType /\ Yield \in Threads /\ loc[Yield].job = "scan" /\ heap' = heap /\ prev' = prev
      /\ next' = [next EXCEPT ![b] = a] /\ Goto(Yield, "free")
  BY <1>0 DEF MemInv, Threads, list_del, At, JobInv, Unlinking, Recording
<1>2. /\ loc'[Yield].pc = "free" /\ loc'[Yield].curr = c /\ loc'[Yield].nxt = loc[Yield].nxt
      /\ \A u \in Threads : u # Yield => loc'[u] = loc[u]
  BY <1>0, <1>1, GotoMoves DEF AllPlaces, Unlinking, Moves
<1>3. /\ c \in S /\ b = q[c] /\ a = next[c] /\ prev[a] = b
      /\ loc[Yield].nxt \in (S \cup {List}) \ {c}
  BY <1>0, <1>1, NodesAssumption DEF ListGood, WalkInv, At
<1>4. /\ a \in S \cup {List} /\ q[a] = c /\ b \in S \cup {List} /\ next[b] = c
  BY <1>3 DEF ListGood, Linked
<1>5. \A n \in S : next[n] \in S => r[n] < r[next[n]] /\ r[n] \in Nat /\ r[next[n]] \in Nat
  BY NodesAssumption DEF ListGood, Linked
<1>6. a # c /\ b # c
  BY <1>3, <1>4, <1>5, NodesAssumption
<1>7. Links = Nodes \cup {List} /\ S \cup {List} \subseteq Links
  BY DEF Links
<1>8. S1 \in SUBSET Nodes /\ q1 \in [Links -> Links]
  BY <1>4, <1>7
<1>9. next'[b] = a /\ \A m \in Links : m # b => next'[m] = next[m]
  BY <1>1, <1>4, <1>7 DEF MemType
<1>10. q1[a] = b /\ \A n \in Links : n # a => q1[n] = q[n]
  BY <1>4, <1>7
<1> HIDE DEF q1
<1>11. Linked(S1, r, q1)'
  <2>1. ASSUME NEW n \in S1 \cup {List} PROVE next'[n] \in S1 \cup {List} /\ q1[next'[n]] = n
    <3>1. CASE n = b
      BY <1>4, <1>6, <1>9, <1>10, <3>1
    <3>2. CASE n # b
      <4>1. n \in S \cup {List} /\ n \in Links /\ n # c
        BY <1>3, <1>7, NodesAssumption
      <4>2. next[n] \in S \cup {List} /\ q[next[n]] = n
        BY <4>1 DEF ListGood, Linked
      <4>3. next[n] # c /\ next[n] # a
        BY <1>3, <1>4, <3>2, <4>1, <4>2
      <4> QED
        BY <1>7, <1>9, <1>10, <3>2, <4>1, <4>2, <4>3
    <3> QED
      BY <3>1, <3>2
  <2>2. ASSUME NEW n \in S1 \cup {List} PROVE q1[n] \in S1 \cup {List} /\ next'[q1[n]] = n
    <3>1. CASE n = a
      BY <1>4, <1>6, <1>9, <1>10, <3>1
    <3>2. CASE n # a
      <4>1. n \in S \cup {List} /\ n \in Links /\ n # c
        BY <1>3, <1>7, NodesAssumption
      <4>2. q[n] \in S \cup {List} /\ next[q[n]] = n
        BY <4>1 DEF ListGood, Linked
      <4>3. q[n] # c /\ q[n] # b
        BY <1>3, <1>4, <3>2, <4>1, <4>2
      <4> QED
        BY <1>7, <1>9, <1>10, <3>2, <4>1, <4>2, <4>3
    <3> QED
      BY <3>1, <3>2
  <2>3. ASSUME NEW n \in S1, next'[n] # List PROVE r[n] < r[next'[n]]
    <3>1. CASE n = b
      <4>1. b \in S /\ a \in S
        BY <1>4, <1>9, <2>3, <3>1, NodesAssumption
      <4>2. r[b] < r[c] /\ r[c] < r[a] /\ r[a] \in Nat /\ r[b] \in Nat /\ r[c] \in Nat
        BY <1>3, <1>4, <1>5, <4>1
      <4> QED
        BY <1>9, <3>1, <4>2
    <3>2. CASE n # b
      <4>1. next'[n] = next[n] /\ n \in S
        BY <1>7, <1>9, <3>2
      <4>2. next[n] \in S
        BY <2>3, <4>1 DEF ListGood, Linked
      <4> QED
        BY <1>5, <4>1, <4>2
    <3> QED
      BY <3>1, <3>2
  <2> QED
    BY <2>1, <2>2, <2>3 DEF Linked
<1>12. a = List => \A u \in Threads : ~Appending(u)
  BY <1>0 DEF Overlap, AppendAtRemoval, Appending, Threads, At
<1>13. \A u \in Threads : Fresh(u)' <=> Fresh(u)
  BY <1>2 DEF Fresh, At
<1>14. \A u \in Threads : /\ Fresh(u) => loc'[u] = loc[u] /\ loc[u].curr \in Nodes /\ loc[u].curr \notin S
                          /\ Appending(u) => Fresh(u)
                          /\ Appending(u)' <=> Appending(u)
  BY <1>2 DEF Fresh, Appending, At, MemInv, PointerInv, ListGood, OwnerInv
<1>15. OwnerInv(S1)'
  <2>1. \A n \in Nodes : Unlinked(n)' <=> n = c
    BY <1>2 DEF Unlinked, At
  <2>2. \A n \in Nodes : ~Unlinked(n)
    BY DEF Unlinked, At
  <2>3. At(Yield, "free")' /\ loc'[Yield].curr = c /\ c \notin S1 /\ heap'[c] # NULL
    BY <1>1, <1>2, <1>3 DEF At, ListGood, OwnerInv
  <2>4. \A n \in S1 : heap'[n] # NULL
    BY <1>1 DEF ListGood, OwnerInv
  <2>5. \A n \in Nodes : heap'[n] # NULL =>
           n \in S1 \/ Unlinked(n)' \/ \E u \in Threads : Fresh(u)' /\ loc'[u].curr = n
    BY <1>1, <1>13, <1>14, <2>1, <2>2 DEF ListGood, OwnerInv
  <2>6. ASSUME NEW u \in Threads, Fresh(u)'
        PROVE  /\ loc'[u].curr \notin S1 /\ ~Unlinked(loc[u].curr)' /\ heap'[loc'[u].curr] # NULL
               /\ \A v \in Threads : Fresh(v)' /\ loc'[v].curr = loc'[u].curr => v = u
    <3>1. Fresh(u) /\ loc'[u] = loc[u] /\ loc[u].curr \in Nodes /\ loc[u].curr \notin S
      BY <1>13, <1>14, <2>6
    <3>2. ~Unlinked(loc[u].curr)'
      BY <1>2, <1>3, <3>1 DEF Unlinked
    <3> QED
      BY <1>1, <1>13, <1>14, <3>1, <3>2 DEF ListGood, OwnerInv
  <2> QED
    BY <2>3, <2>4, <2>5, <2>6 DEF OwnerInv
<1>16. AddInv(q1)'
  <2> SUFFICES ASSUME NEW u \in Threads, Appending(u)'
               PROVE  /\ loc'[u].after = List /\ loc'[u].before = q1[List]
                      /\ loc'[u].pc # "add_1" => prev'[List] = loc'[u].curr
                      /\ loc'[u].pc \in {"add_3", "add_4"} => next'[loc'[u].curr] = List
                      /\ loc'[u].pc = "add_4" => prev'[loc'[u].curr] = loc'[u].before
    BY DEF AddInv
  <2>1. Appending(u) /\ loc'[u] = loc[u] /\ a # List /\ b # loc[u].curr /\ loc[u].curr \in Links
    BY <1>4, <1>7, <1>12, <1>14, NodesAssumption
  <2>2. q1[List] = q[List] /\ next'[loc[u].curr] = next[loc[u].curr]
    BY <1>7, <1>9, <1>10, <2>1
  <2> QED
    BY <1>1, <2>1, <2>2 DEF ListGood, AddInv
<1>17. PrevInv(S1, q1)'
  <2> SUFFICES ASSUME NEW n \in S \cup {List}
               PROVE  \/ prev'[n] = q1[n]
                      \/ n = List /\ \E u \in Threads : loc'[u].pc \in {"add_2", "add_3", "add_4"}
    BY DEF PrevInv
  <2>1. CASE n = a
    BY <1>1, <1>3, <1>10, <2>1
  <2>2. CASE n # a
    <3>1. \/ prev[n] = q[n]
          \/ n = List /\ \E u \in Threads : loc[u].pc \in {"add_2", "add_3", "add_4"}
      BY <1>0, <2>2 DEF ListGood, PrevInv
    <3>2. \A u \in Threads : loc[u].pc \in {"add_2", "add_3", "add_4"} => loc'[u] = loc[u]
      BY <1>2 DEF At
    <3> QED
      BY <1>1, <1>7, <1>10, <2>2, <3>1, <3>2
  <2> QED
    BY <2>1, <2>2
<1>18. WalkInv(S1, q1)'
  BY <1>2, <1>3 DEF WalkInv
<1>19. ListGood(S1, r, q1)'
  BY <1>11, <1>15, <1>16, <1>17, <1>18 DEF ListGood
<1> QED
  BY <1>8, <1>19

\* The record that is freed is on no list and in no other thread's hands; the
\* walk goes on with the one it has read beforehand.
LEMMA ListFree ==
    ASSUME MemInv, NEW S \in SUBSET Nodes, NEW r \in [Nodes -> Nat], NEW q \in [Links -> Links],
           ListGood(S, r, q), platform_memory_free
    PROVE  ListGood(S, r, q)'
<1> DEFINE l == [Advance(Yield) EXCEPT !.before = NULL, !.after = NULL]
           c == loc[Yield].curr
           m == loc[Yield].nxt
<1>1. /\ MemType /\ Yield \in Threads /\ loc[Yield].pc = "free" /\ loc[Yield] \in Locals
      /\ c \in Nodes /\ m \in S \cup {List} /\ m \in Links
      /\ heap' = [heap EXCEPT ![c] = NULL] /\ next' = next /\ prev' = prev
      /\ loc' = [loc EXCEPT ![Yield] = l]
  BY DEF MemInv, MemType, Threads, platform_memory_free, At, PointerInv, Unlinking, ListGood, WalkInv
<1>2. next[m] \in Links /\ "walk" \in AllPlaces /\ NULL \in Packets
  BY <1>1 DEF MemType, AllPlaces, Recording, Packets
<1>3. /\ l \in Locals /\ l.pc = "walk" /\ l.curr = m /\ l.nxt = next[m]
  BY <1>1, <1>2 DEF Locals, Advance
<1>4. Moves(Yield) /\ loc'[Yield] = l
  BY <1>1, <1>3, Moved
<1>5. /\ loc'[Yield].pc = "walk" /\ loc'[Yield].curr = m /\ loc'[Yield].nxt = next[m]
      /\ \A u \in Threads : u # Yield => loc'[u] = loc[u]
  BY <1>3, <1>4 DEF Moves
<1>6. \A u \in Threads : Fresh(u) => loc[u].curr # c /\ loc[u].curr \in Nodes
  BY <1>1 DEF ListGood, OwnerInv, Unlinked, At, MemInv, PointerInv, Fresh
<1>7. c \notin S
  BY <1>1 DEF ListGood, OwnerInv, At
<1>8. \A n \in Nodes : /\ Unlinked(n) => n = c
                       /\ n # c => heap'[n] = heap[n]
  BY <1>1 DEF Unlinked, MemType
<1>9. heap'[c] = NULL
  BY <1>1 DEF MemType
<1> HIDE DEF l, c, m
<1>10. \A u \in Threads : /\ Fresh(u)' <=> Fresh(u)
                          /\ Fresh(u) => loc'[u] = loc[u]
                          /\ Appending(u) => Fresh(u)
                          /\ Appending(u)' <=> Appending(u)
  BY <1>1, <1>5 DEF Fresh, Appending
<1>11. Linked(S, r, q)'
  BY <1>1 DEF ListGood, Linked
<1>12. ~At(Yield, "free")'
  BY <1>5 DEF At
<1>13. OwnerInv(S)'
  <2>1. \A n \in S : heap'[n] # NULL
    BY <1>7, <1>8 DEF ListGood, OwnerInv
  <2>2. \A n \in Nodes : heap'[n] # NULL => n \in S \/ \E u \in Threads : Fresh(u)' /\ loc'[u].curr = n
    BY <1>8, <1>9, <1>10 DEF ListGood, OwnerInv
  <2>3. ASSUME NEW u \in Threads, Fresh(u)'
        PROVE  /\ loc'[u].curr \notin S /\ heap'[loc'[u].curr] # NULL
               /\ \A v \in Threads : Fresh(v)' /\ loc'[v].curr = loc'[u].curr => v = u
    <3>1. Fresh(u) /\ loc'[u] = loc[u] /\ loc[u].curr # c /\ loc[u].curr \in Nodes
      BY <1>6, <1>10, <2>3
    <3> QED
      BY <1>8, <1>10, <3>1 DEF ListGood, OwnerInv
  <2> QED
    BY <1>12, <2>1, <2>2, <2>3 DEF OwnerInv, Unlinked
<1>14. AddInv(q)'
  BY <1>1, <1>10 DEF ListGood, AddInv
<1>15. PrevInv(S, q)'
  BY <1>1, <1>5 DEF ListGood, PrevInv, At
<1>16. WalkInv(S, q)'
  <2>1. next[m] \in S \cup {List} /\ (m # List => next[m] # m)
    BY <1>1 DEF ListGood, Linked
  <2> QED
    BY <1>1, <1>5, <2>1 DEF WalkInv
<1> QED
  BY <1>11, <1>13, <1>14, <1>15, <1>16 DEF ListGood

Calm == {"idle", "ping", "send", "record", "walk", "create"}

\* A thread that only reads the list, other than the walk that may unlink.
LEMMA ListOther ==
    ASSUME NEW S \in SUBSET Nodes, NEW r \in [Nodes -> Nat], NEW q \in [Links -> Links],
           ListGood(S, r, q), NEW t \in Threads, Moves(t), UNCHANGED listVars,
           loc[t].pc \in Calm, loc'[t].pc \in Calm,
           loc'[t].pc \in {"idle", "ping", "record", "create"} \/ loc'[t].job # "scan"
    PROVE  ListGood(S, r, q)'
<1>1. ~Fresh(t) /\ ~Fresh(t)' /\ loc[t].pc \notin Unlinking /\ loc'[t].pc \notin Unlinking
  BY DEF Calm, Fresh, Unlinking
<1>2. t = Yield => WalkInv(S, q)'
  BY <1>1 DEF WalkInv, Unlinking
<1> QED
  BY <1>1, <1>2, ListQuiet DEF Unlinking

\* The walk that may unlink is on the list, and two records ahead.
LEMMA ListWalk ==
    ASSUME NEW S \in SUBSET Nodes, NEW r \in [Nodes -> Nat], NEW q \in [Links -> Links],
           ListGood(S, r, q), Moves(Yield), UNCHANGED listVars,
           loc[Yield].pc \in Calm, loc'[Yield].pc \in {"walk", "send"},
           loc'[Yield].curr \in S \cup {List}, loc'[Yield].nxt \in S \cup {List},
           loc'[Yield].curr # List => loc'[Yield].nxt # loc'[Yield].curr
    PROVE  ListGood(S, r, q)'
<1>1. ~Fresh(Yield) /\ ~Fresh(Yield)' /\ loc[Yield].pc \notin Unlinking /\ loc'[Yield].pc \notin Unlinking
  BY DEF Calm, Fresh, Unlinking
<1>2. WalkInv(S, q)'
  BY <1>1 DEF WalkInv, Unlinking
<1> QED
  BY <1>1, <1>2, ListQuiet DEF Unlinking, Threads

\* A round of that walk.
LEMMA ListAdvance ==
    ASSUME NEW S \in SUBSET Nodes, NEW r \in [Nodes -> Nat], NEW q \in [Links -> Links],
           ListGood(S, r, q), NEW n \in S \cup {List}
    PROVE  next[n] \in S \cup {List} /\ (n # List => next[n] # n)
<1>1. next[n] \in S \cup {List}
  BY DEF ListGood, Linked
<1>2. ASSUME n # List, next[n] = n PROVE FALSE
  <2>1. n \in S /\ n \in Nodes /\ r[n] \in Nat /\ r[n] < r[n]
    BY <1>2 DEF ListGood, Linked
  <2> QED
    BY <2>1
<1> QED
  BY <1>1, <1>2

\* The calls, but for the making and the linking of a record.
LEMMA ListCalls ==
    ASSUME MemInv, NEW S \in SUBSET Nodes, NEW r \in [Nodes -> Nat], NEW q \in [Links -> Links],
           ListGood(S, r, q), NEW t \in Threads,
           \/ mqtt_send_packet(t) \/ mqtt_send_packet_fails(t) \/ mqtt_ack_list_record(t)
           \/ mqtt_ack_list_node_is_exist(t) \/ mqtt_ack_handler_create_fails(t)
    PROVE  ListGood(S, r, q)'
<1>1. /\ MemType /\ JobInv(t) /\ PointerInv(t) /\ loc[t].pc \in Calm /\ UNCHANGED listVars
      /\ loc[t].pc \in {"send", "record", "walk", "create"}
  BY DEF MemInv, Calm, mqtt_send_packet, mqtt_send_packet_fails, mqtt_ack_list_record,
         mqtt_ack_list_node_is_exist, mqtt_ack_handler_create_fails, At
<1>2. loc[t].job \in {"publish", "answer", "release", "scan"}
  BY <1>1, ThreadsAssumption DEF JobInv, At, Threads
<1>3. CASE Finish(t)
  <2>1. Moves(t) /\ At(t, "idle")'
    BY <1>1, <1>3, FinishMoves
  <2>2. loc'[t].pc = "idle"
    BY <2>1 DEF At
  <2> QED
    BY <1>1, <2>1, <2>2, ListOther DEF Calm
<1>4. ASSUME NEW p \in {"record", "create"}, Goto(t, p) PROVE ListGood(S, r, q)'
  <2>1. Moves(t) /\ loc'[t].pc = p
    BY <1>1, <1>4, GotoMoves DEF AllPlaces, Recording
  <2> QED
    BY <1>1, <2>1, ListOther DEF Calm
<1>5. ASSUME loc[t].job # "scan", loc' = [loc EXCEPT ![t] = Begin(t)] PROVE ListGood(S, r, q)'
  <2>1. Moves(t) /\ loc'[t].pc = "walk" /\ loc'[t].job = loc[t].job
    BY <1>1, <1>5, BeginMoves
  <2> QED
    BY <1>1, <1>5, <2>1, ListOther DEF Calm
<1>6. ASSUME loc[t].job # "scan", loc[t].pc = "walk", loc' = [loc EXCEPT ![t] = Advance(t)]
      PROVE  ListGood(S, r, q)'
  <2>1. Moves(t) /\ loc'[t].pc = "walk" /\ loc'[t].job = loc[t].job
    BY <1>1, <1>6, AdvanceMoves DEF PointerInv
  <2> QED
    BY <1>1, <1>6, <2>1, ListOther DEF Calm
<1>7. ASSUME loc[t].job = "scan", loc[t].pc = "send", loc' = [loc EXCEPT ![t] = Advance(t)]
      PROVE  ListGood(S, r, q)'
  <2>1. t = Yield
    BY <1>1, <1>7 DEF JobInv, At, Threads
  <2>2. loc[t].nxt \in S \cup {List} /\ loc[t].nxt \in Links
    BY <1>7, <2>1 DEF ListGood, WalkInv, Links
  <2>3. Moves(t) /\ loc'[t].pc = "walk" /\ loc'[t].curr = loc[t].nxt /\ loc'[t].nxt = next[loc[t].nxt]
    BY <1>1, <1>7, <2>2, AdvanceMoves
  <2>4. next[loc[t].nxt] \in S \cup {List} /\ (loc[t].nxt # List => next[loc[t].nxt] # loc[t].nxt)
    BY <2>2, ListAdvance
  <2> QED
    BY <1>1, <2>1, <2>2, <2>3, <2>4, ListWalk
<1>8. ASSUME NEW ok \in BOOLEAN, Recorded(t, ok), loc[t].job # "scan" PROVE ListGood(S, r, q)'
  <2>1. Moves(t) /\ (loc'[t].pc = "idle" \/ (loc'[t].pc = "send" /\ loc'[t].job = "release"))
    BY <1>1, <1>2, <1>8, RecordedEnds
  <2> QED
    BY <1>1, <2>1, ListOther DEF Calm
<1>9. CASE mqtt_send_packet(t)
  BY <1>2, <1>3, <1>4, <1>7, <1>9 DEF mqtt_send_packet, At
<1>10. CASE mqtt_send_packet_fails(t)
  BY <1>2, <1>3, <1>7, <1>10 DEF mqtt_send_packet_fails, At
<1>11. CASE mqtt_ack_list_record(t)
  <2>1. loc[t].job # "scan"
    BY <1>1, <1>11, ThreadsAssumption DEF mqtt_ack_list_record, JobInv, At, Threads, Unlinking
  <2> QED
    BY <1>5, <1>11, <2>1 DEF mqtt_ack_list_record
<1>12. CASE mqtt_ack_list_node_is_exist(t)
  BY <1>4, <1>6, <1>8, <1>12 DEF mqtt_ack_list_node_is_exist, At
<1>13. CASE mqtt_ack_handler_create_fails(t)
  <2>1. loc[t].job # "scan"
    BY <1>1, <1>13, ThreadsAssumption DEF mqtt_ack_handler_create_fails, JobInv, At, Threads, Unlinking
  <2> QED
    BY <1>8, <1>13, <2>1 DEF mqtt_ack_handler_create_fails
<1> QED
  BY <1>9, <1>10, <1>11, <1>12, <1>13

\* A call begins.
LEMMA ListSerialize ==
    ASSUME MemInv, NEW S \in SUBSET Nodes, NEW r \in [Nodes -> Nat], NEW q \in [Links -> Links],
           ListGood(S, r, q), NEW t \in Threads, NEW p \in Packets,
           NEW job \in {"publish", "answer", "release"}, NEW where \in {"send", "record"},
           Serialize(t, job, p, where)
    PROVE  ListGood(S, r, q)'
<1> DEFINE l == [Idle EXCEPT !.pc = where, !.job = job, !.pkt = p]
<1>1. l \in Locals /\ l.pc = where /\ l.job = job
  BY IdleType DEF Locals, Idle, AllPlaces, Recording
<1>2. Moves(t) /\ loc'[t] = l
  BY <1>1, Moved DEF Serialize, MemInv
<1>3. loc'[t].pc \in Calm /\ loc'[t].job # "scan"
  BY <1>1, <1>2 DEF Calm
<1>4. loc[t].pc \in Calm /\ UNCHANGED listVars
  BY DEF Serialize, At, Calm
<1> QED
  BY <1>2, <1>3, <1>4, ListOther

\* The walks of the yield thread, up to the unlinking.
LEMMA ListScan ==
    ASSUME MemInv, NEW S \in SUBSET Nodes, NEW r \in [Nodes -> Nat], NEW q \in [Links -> Links],
           ListGood(S, r, q), ~Damaged,
           \/ mqtt_keep_alive \/ mqtt_keep_alive_send \/ mqtt_ack_list_scan \/ scan_end
           \/ scan_skip \/ mqtt_ack_handler_resend \/ mqtt_ack_handler_destroy
    PROVE  ListGood(S, r, q)'
<1>1. /\ Yield \in Threads /\ MemType /\ loc[Yield] \in Locals /\ UNCHANGED listVars
      /\ loc[Yield].pc \in {"idle", "ping", "walk"} /\ loc[Yield].pc \in Calm
  BY DEF MemInv, MemType, Threads, Calm, mqtt_keep_alive, mqtt_keep_alive_send, mqtt_ack_list_scan,
         scan_end, scan_skip, mqtt_ack_handler_resend, mqtt_ack_handler_destroy, Scanning, At
<1>2. CASE Finish(Yield)
  <2>1. Moves(Yield) /\ At(Yield, "idle")'
    BY <1>1, <1>2, FinishMoves
  <2>2. loc'[Yield].pc = "idle"
    BY <2>1 DEF At
  <2> QED
    BY <1>1, <2>1, <2>2, ListOther DEF Calm
<1>3. CASE mqtt_keep_alive
  <2>1. Moves(Yield) /\ loc'[Yield].pc = "ping"
    BY <1>1, <1>3, GotoMoves DEF mqtt_keep_alive, AllPlaces
  <2> QED
    BY <1>1, <2>1, ListOther DEF Calm
<1>4. Scanning => /\ loc[Yield].curr \in S \cup {List} /\ loc[Yield].nxt \in S \cup {List}
                  /\ loc[Yield].nxt \in Links
                  /\ loc[Yield].curr # List => loc[Yield].nxt # loc[Yield].curr
  BY DEF Scanning, At, ListGood, WalkInv, Links
<1>5. CASE mqtt_ack_list_scan
  <2> DEFINE l == [Begin(Yield) EXCEPT !.job = "scan"]
  <2>1. next[List] \in Links /\ next[next[List]] \in Links /\ "walk" \in AllPlaces
    BY <1>1 DEF MemType, Links, AllPlaces, Recording
  <2>2. l \in Locals /\ l.pc = "walk" /\ l.curr = next[List] /\ l.nxt = next[next[List]]
    BY <1>1, <2>1 DEF Begin, Locals
  <2>3. Moves(Yield) /\ loc'[Yield] = l
    BY <1>1, <1>5, <2>2, Moved DEF mqtt_ack_list_scan
  <2>4. next[List] \in S \cup {List}
    BY ListAdvance
  <2>5. next[next[List]] \in S \cup {List} /\ (next[List] # List => next[next[List]] # next[List])
    BY <2>4, ListAdvance
  <2> HIDE DEF l
  <2> QED
    BY <1>1, <2>2, <2>3, <2>4, <2>5, ListWalk
<1>6. CASE scan_skip
  <2>1. Scanning /\ loc' = [loc EXCEPT ![Yield] = Advance(Yield)]
    BY <1>6 DEF scan_skip
  <2>2. /\ Moves(Yield) /\ loc'[Yield].pc = "walk"
        /\ loc'[Yield].curr = loc[Yield].nxt /\ loc'[Yield].nxt = next[loc[Yield].nxt]
    BY <1>1, <1>4, <2>1, AdvanceMoves
  <2>3. /\ next[loc[Yield].nxt] \in S \cup {List}
        /\ loc[Yield].nxt # List => next[loc[Yield].nxt] # loc[Yield].nxt
    BY <1>4, <2>1, ListAdvance
  <2> QED
    BY <1>1, <1>4, <2>1, <2>2, <2>3, ListWalk
<1>7. CASE mqtt_ack_handler_resend
  <2> DEFINE n == loc[Yield].curr
             l == [loc[Yield] EXCEPT !.pc = "send", !.pkt = heap[n].pkt]
  <2>1. Scanning /\ n \in S /\ n \in Nodes
    BY <1>4, <1>7 DEF mqtt_ack_handler_resend
  <2>2. heap[n] \in Records
    BY <1>1, <2>1 DEF ListGood, OwnerInv, MemType
  <2>3. /\ l \in Locals /\ l.pc = "send" /\ l.curr = n /\ l.nxt = loc[Yield].nxt
    BY <1>1, <2>2 DEF Locals, AllPlaces, Records
  <2>4. loc' = [loc EXCEPT ![Yield] = l]
    BY <1>1, <1>7 DEF mqtt_ack_handler_resend, MemType, Locals
  <2>5. Moves(Yield) /\ loc'[Yield] = l
    BY <1>1, <2>3, <2>4, Moved
  <2> HIDE DEF l
  <2> QED
    BY <1>1, <1>4, <2>1, <2>3, <2>5, ListWalk
<1>8. CASE mqtt_ack_handler_destroy
  <2> DEFINE n == loc[Yield].curr
             l == [loc[Yield] EXCEPT !.pc = "del_1", !.before = prev[n], !.after = next[n]]
  <2>1. Scanning /\ n \in S /\ n \in Nodes /\ n \in Links
    BY <1>4, <1>8 DEF mqtt_ack_handler_destroy, Links
  <2>2. prev[n] \in Links /\ next[n] \in Links /\ "del_1" \in AllPlaces
    BY <1>1, <2>1 DEF MemType, AllPlaces, Unlinking
  <2>3. /\ l \in Locals /\ l.pc = "del_1" /\ l.before = prev[n] /\ l.after = next[n]
        /\ l.job = loc[Yield].job /\ l.curr = n /\ l.nxt = loc[Yield].nxt
    BY <1>1, <2>2 DEF Locals
  <2>4. loc' = [loc EXCEPT ![Yield] = l]
    BY <1>1, <1>8 DEF mqtt_ack_handler_destroy, MemType, Locals
  <2>5. Moves(Yield) /\ loc'[Yield] = l
    BY <1>1, <2>3, <2>4, Moved
  <2>6. prev[n] = q[n]
    BY <1>1, <2>1, NodesAssumption DEF ListGood, PrevInv, At
  <2>7. UNCHANGED <<next, prev>>
    BY <1>1 DEF listVars
  <2>8. WalkInv(S, q)'
    <3>1. /\ loc'[Yield].pc = "del_1" /\ loc'[Yield].before = q[n] /\ loc'[Yield].after = next[n]
          /\ loc'[Yield].curr = n /\ loc'[Yield].nxt = loc[Yield].nxt
      BY <2>3, <2>5, <2>6
    <3> HIDE DEF l
    <3> QED
      BY <1>4, <2>1, <2>7, <3>1 DEF WalkInv
  <2>9. ~Fresh(Yield) /\ ~Fresh(Yield)' /\ loc[Yield].pc \notin Unlinking /\ loc'[Yield].pc \notin {"del_2", "free"}
    BY <1>1, <2>3, <2>5 DEF Fresh, Unlinking
  <2> QED
    BY <1>1, <2>5, <2>8, <2>9, ListQuiet
<1> QED
  BY <1>2, <1>3, <1>5, <1>6, <1>7, <1>8 DEF mqtt_keep_alive_send, scan_end

\* The invariant holds at the beginning: the list is empty.
LEMMA ListInit == Init => ListInv
<1> SUFFICES ASSUME Init PROVE ListInv
  OBVIOUS
<1> DEFINE r == [n \in Nodes |-> 0]
           q == [n \in Links |-> List]
<1>1. \A t \in Threads : loc[t].pc = "idle"
  BY DEF Init, Idle
<1>2. Yield \in Threads /\ List \in Links
  BY DEF Threads, Links
<1>3. ListGood({}, r, q)
  BY <1>1, <1>2 DEF Init, ListGood, Linked, OwnerInv, AddInv, PrevInv, WalkInv, Fresh, Appending, Unlinked, At
<1>4. r \in [Nodes -> Nat] /\ q \in [Links -> Links]
  BY <1>2
<1> HIDE DEF r, q
<1> QED
  BY <1>3, <1>4 DEF ListInv

\* Every step keeps it.
LEMMA ListStep == MemInv /\ ListInv /\ [Next]_vars => ListInv'
<1> SUFFICES ASSUME MemInv, ListInv, [Next]_vars PROVE ListInv'
  OBVIOUS
<1>1. CASE UNCHANGED vars
  BY <1>1 DEF ListInv, Overlap, TwoAppends, AppendAtRemoval, Appending, vars, listVars, ListGood, Linked,
              OwnerInv, AddInv, PrevInv, WalkInv, Fresh, Unlinked, At
<1>2. CASE Next
  <2>1. ~Damaged /\ ~Overlap
    BY <1>2 DEF Next, Damaged, Overlap
  <2>2. PICK S \in SUBSET Nodes, r \in [Nodes -> Nat], q \in [Links -> Links] : ListGood(S, r, q)
    BY <2>1 DEF ListInv
  <2>3. ListGood(S, r, q)' => ListInv'
    BY DEF ListInv
  <2>4. ASSUME NEW u \in Users, mqtt_publish(u) PROVE ListGood(S, r, q)'
    BY <2>2, <2>4, ListSerialize DEF mqtt_publish, Threads, Packets
  <2>5. ASSUME NEW t \in Threads, list_add(t) PROVE ListInv'
    BY <2>1, <2>2, <2>3, <2>5, ListAddBegin, ListAddEnd DEF ListInv
  <2>6. ASSUME NEW t \in Threads, mqtt_list_add_tail(t) PROVE ListInv'
    BY <2>2, <2>3, <2>6, ListAddTail DEF ListInv
  <2>7. ASSUME NEW t \in Threads, Step(t) PROVE ListInv'
    BY <2>2, <2>3, <2>5, <2>6, <2>7, ListCalls, ListCreate DEF Step
  <2>8. CASE mqtt_publish_packet_handle \/ mqtt_publish_ack_packet
    BY <2>2, <2>3, <2>8, ListSerialize DEF mqtt_publish_packet_handle, mqtt_publish_ack_packet, Threads, Packets
  <2>9. CASE list_del
    <3>1. At(Yield, "del_1") \/ At(Yield, "del_2")
      BY <2>9 DEF list_del, At
    <3> QED
      BY <2>1, <2>2, <2>3, <2>9, <3>1, ListDelBegin, ListDelEnd DEF ListInv
  <2>10. CASE platform_memory_free
    BY <2>2, <2>3, <2>10, ListFree
  <2>11. CASE YieldStep
    BY <2>1, <2>2, <2>3, <2>8, <2>9, <2>10, <2>11, ListScan DEF YieldStep
  <2> QED
    BY <1>2, <2>3, <2>4, <2>7, <2>11 DEF Next
<1> QED
  BY <1>1, <1>2

-----------------------------------------------------------------------------
(* What a walk finds.                                                      *)

Less == {p \in Nat \X Nat : p[1] < p[2]}

\* Every nonempty set of naturals has a least element, which stands in for
\* induction below.
LEMMA LeastNat ==
    ASSUME NEW T, T \subseteq Nat, T # {}
    PROVE  \E n \in T : \A m \in T : n <= m
<1>1. IsWellFoundedOn(Less, Nat)
  BY NatLessThanWellFounded DEF OpToRel, Less
<1>2. PICK n \in T : \A m \in T : ~(<<m, n>> \in Less)
  BY <1>1, WFMin
<1>3. \A m \in Nat : m < n => <<m, n>> \in Less
  BY DEF Less
<1>4. \A m \in T : m \in Nat /\ ~(m < n)
  BY <1>2, <1>3, Zenon
<1>5. n \in Nat /\ \A m \in T : n <= m
  BY <1>4
<1> QED
  BY <1>5

N == Cardinality(Nodes)

\* The next address of a walk, which stays at the head once it is back there.
Hop(n) == IF n = List THEN List ELSE next[n]

\* The first k + 1 addresses of a walk.
Trace(g, k) == g \in [0..k -> Links] /\ g[0] = next[List] /\ \A j \in 1..k : g[j] = Hop(g[j - 1])

\* A walk can be followed as far as one likes.
LEMMA TraceExists ==
    ASSUME MemType PROVE \A k \in Nat : \E g : Trace(g, k)
<1> DEFINE T == {k \in Nat : ~\E g : Trace(g, k)}
<1> SUFFICES ASSUME T # {} PROVE FALSE
  OBVIOUS
<1>1. PICK k \in T : \A j \in T : k <= j
  BY LeastNat
<1>2. CASE k = 0
  <2>1. Trace([j \in 0..0 |-> next[List]], 0)
    BY DEF Trace, MemType, Links
  <2> QED
    BY <1>2, <2>1
<1>3. CASE k # 0
  <2>1. k - 1 \in Nat /\ k - 1 \notin T
    BY <1>1, <1>3
  <2>2. PICK g : Trace(g, k - 1)
    BY <2>1
  <2> DEFINE h == [j \in 0..k |-> IF j = k THEN Hop(g[k - 1]) ELSE g[j]]
  <2>3. g[k - 1] \in Links /\ Hop(g[k - 1]) \in Links
    BY <2>1, <2>2 DEF Trace, Hop, MemType, Links
  <2>4. h \in [0..k -> Links] /\ h[0] = next[List] /\ \A j \in 0..(k - 1) : h[j] = g[j]
    BY <1>3, <2>1, <2>2, <2>3 DEF Trace
  <2>5. \A j \in 1..k : h[j] = Hop(h[j - 1])
    <3> SUFFICES ASSUME NEW j \in 1..k PROVE h[j] = Hop(h[j - 1])
      OBVIOUS
    <3>1. h[j - 1] = g[j - 1]
      BY <2>1, <2>4
    <3>2. CASE j = k
      BY <3>1, <3>2
    <3>3. CASE j # k
      BY <2>1, <2>2, <2>4, <3>1, <3>3 DEF Trace
    <3> QED
      BY <3>2, <3>3
  <2>6. Trace(h, k)
    BY <2>4, <2>5 DEF Trace
  <2> QED
    BY <2>6
<1> QED
  BY <1>2, <1>3

\* What the definition of Chain says.
LEMMA ChainDef ==
    ASSUME MemType PROVE N \in Nat /\ Trace(Chain, N)
<1> DEFINE Is(g) == g = [k \in 0..N |-> IF k = 0 THEN next[List]
                                        ELSE IF g[k - 1] = List THEN List ELSE next[g[k - 1]]]
<1>1. N \in Nat
  BY NodesAssumption, FS_CardinalityType DEF N
<1>2. PICK g : Trace(g, N)
  BY <1>1, TraceExists
<1>3. Is(g)
  BY <1>1, <1>2 DEF Trace, Hop
<1>4. Chain = CHOOSE h : Is(h)
  BY DEF Chain, N
<1>5. Is(Chain)
  <2> HIDE DEF Is
  <2> QED
    BY <1>3, <1>4
<1>6. Chain[0] = next[List] /\ \A j \in 1..N : Chain[j] = Hop(Chain[j - 1])
  BY <1>1, <1>5 DEF Hop
<1>7. DOMAIN Chain = 0..N /\ Chain = [k \in 0..N |-> Chain[k]]
  BY <1>5
<1>8. \A k \in 0..N : Chain[k] \in Links
  <2> DEFINE T == {k \in 0..N : Chain[k] \notin Links}
  <2> SUFFICES ASSUME T # {} PROVE FALSE
    OBVIOUS
  <2>1. T \subseteq Nat
    BY <1>1
  <2>2. PICK k \in T : \A j \in T : k <= j
    <3> HIDE DEF T
    <3> QED
      BY <2>1, LeastNat
  <2>3. k # 0
    BY <1>6 DEF MemType, Links
  <2>4. k - 1 \in 0..N /\ k - 1 \notin T /\ k \in 1..N
    BY <1>1, <2>2, <2>3
  <2> QED
    BY <1>6, <2>4 DEF Hop, MemType, Links
<1> QED
  BY <1>1, <1>6, <1>7, <1>8 DEF Trace

\* The walk is on the list and returns to the head; it passes every record.
LEMMA ChainCovers ==
    ASSUME MemType, NEW S \in SUBSET Nodes, NEW r \in [Nodes -> Nat], NEW q \in [Links -> Links],
           Linked(S, r, q)
    PROVE  Chain[N] = List /\ OnChain = S
<1> DEFINE C(k) == Chain[k]
<1>1. N \in Nat /\ C(0) = next[List] /\ (\A k \in 1..N : C(k) = Hop(C(k - 1))) /\ DOMAIN Chain = 0..N
  BY ChainDef DEF Trace
<1>2. List \notin S
  BY NodesAssumption
<1> HIDE DEF C
<1>3. \A k \in 0..N : C(k) \in S \cup {List}
  <2> DEFINE T == {k \in 0..N : C(k) \notin S \cup {List}}
  <2> SUFFICES ASSUME T # {} PROVE FALSE
    OBVIOUS
  <2>1. T \subseteq Nat
    BY <1>1
  <2>2. PICK k \in T : \A j \in T : k <= j
    <3> HIDE DEF T
    <3> QED
      BY <2>1, LeastNat
  <2>3. k # 0
    BY <1>1 DEF Linked
  <2>4. k - 1 \in 0..N /\ k - 1 \notin T /\ k \in 1..N
    BY <1>1, <2>2, <2>3
  <2> QED
    BY <1>1, <2>4 DEF Hop, Linked
<1>4. C(N) = List
  <2> SUFFICES ASSUME C(N) # List PROVE FALSE
    OBVIOUS
  <2>1. \A k \in 0..N : C(k) \in S
    <3> SUFFICES ASSUME NEW i \in 0..N, C(i) = List PROVE FALSE
      BY <1>3
    <3> DEFINE T == {k \in i..N : C(k) # List}
    <3>1. T \subseteq Nat /\ N \in T
      BY <1>1
    <3>2. PICK k \in T : \A j \in T : k <= j
      <4> HIDE DEF T
      <4> QED
        BY <3>1, LeastNat
    <3>3. k # i /\ k \in i..N
      BY <3>2
    <3>4. k - 1 \in i..N /\ k - 1 \notin T /\ k \in 1..N
      BY <1>1, <3>2, <3>3
    <3> QED
      BY <1>1, <3>2, <3>4 DEF Hop
  <2>2. \A k \in 1..N : r[C(k - 1)] < r[C(k)]
    <3> SUFFICES ASSUME NEW k \in 1..N PROVE r[C(k - 1)] < r[C(k)]
      OBVIOUS
    <3>1. C(k - 1) \in S /\ C(k) \in S /\ C(k) = next[C(k - 1)]
      BY <1>1, <1>2, <2>1 DEF Hop
    <3> QED
      BY <1>2, <3>1 DEF Linked
  <2>3. \A k \in 0..N : r[C(k)] \in Nat
    BY <2>1
  <2>4. \A i \in 0..N : \A j \in (i + 1)..N : r[C(i)] < r[C(j)]
    <3> SUFFICES ASSUME NEW i \in 0..N PROVE \A j \in (i + 1)..N : r[C(i)] < r[C(j)]
      OBVIOUS
    <3> DEFINE T == {j \in (i + 1)..N : ~(r[C(i)] < r[C(j)])}
    <3> SUFFICES ASSUME T # {} PROVE FALSE
      OBVIOUS
    <3>1. T \subseteq Nat
      BY <1>1
    <3>2. PICK j \in T : \A k \in T : j <= k
      <4> HIDE DEF T
      <4> QED
        BY <3>1, LeastNat
    <3>3. j \in (i + 1)..N /\ j \in 1..N /\ j - 1 \in 0..N /\ ~(r[C(i)] < r[C(j)])
      BY <1>1, <3>2
    <3>4. r[C(j - 1)] < r[C(j)]
      BY <2>2, <3>3
    <3>5. CASE j = i + 1
      BY <3>3, <3>4, <3>5
    <3>6. CASE j # i + 1
      <4>1. j - 1 \in (i + 1)..N /\ j - 1 \notin T
        BY <1>1, <3>2, <3>3, <3>6
      <4>2. r[C(i)] < r[C(j - 1)]
        BY <4>1
      <4>3. r[C(i)] \in Nat /\ r[C(j - 1)] \in Nat /\ r[C(j)] \in Nat
        BY <2>3, <3>3
      <4> QED
        BY <3>3, <3>4, <4>2, <4>3
    <3> QED
      BY <3>5, <3>6
  <2> DEFINE f == [k \in 0..N |-> C(k)]
  <2>5. f \in Injection(0..N, Nodes)
    <3>1. f \in [0..N -> Nodes]
      BY <2>1
    <3>2. ASSUME NEW i \in 0..N, NEW j \in 0..N, i < j PROVE C(i) # C(j)
      <4>1. j \in (i + 1)..N
        BY <1>1, <3>2
      <4> QED
        BY <2>3, <2>4, <4>1
    <3>3. ASSUME NEW i \in 0..N, NEW j \in 0..N, i # j PROVE C(i) # C(j)
      <4>1. i < j \/ j < i
        BY <1>1, <3>3
      <4> QED
        BY <3>2, <4>1
    <3> QED
      BY <3>1, <3>3 DEF Injection, IsInjective
  <2>6. Cardinality(0..N) <= N
    <3> HIDE DEF f
    <3> QED
      BY <2>5, NodesAssumption, FS_Injection DEF N
  <2>7. Cardinality(0..N) = N + 1
    <3>1. 0 \in Int /\ N \in Int /\ ~(0 > N)
      BY <1>1
    <3>2. Cardinality(0..N) = N - 0 + 1
      BY <3>1, FS_Interval
    <3> QED
      BY <1>1, <3>2
  <2> QED
    BY <1>1, <2>6, <2>7
<1>5. OnChain \subseteq S
  BY <1>1, <1>3 DEF OnChain, C
<1>6. \A k \in 0..N : C(k) # List => C(k) \in OnChain
  BY <1>1 DEF OnChain, C
<1>7. S \subseteq OnChain
  <2> DEFINE T == {r[n] : n \in S \ OnChain}
  <2> SUFFICES ASSUME S \ OnChain # {} PROVE FALSE
    OBVIOUS
  <2>1. T \subseteq Nat /\ T # {}
    OBVIOUS
  <2>2. PICK i \in T : \A j \in T : i <= j
    <3> HIDE DEF T
    <3> QED
      BY <2>1, LeastNat
  <2>3. PICK n \in S \ OnChain : i = r[n]
    BY <2>2
  <2>4. q[n] \in S \cup {List} /\ next[q[n]] = n /\ n # List
    BY <1>2 DEF Linked
  <2>5. CASE q[n] = List
    <3>1. C(0) = n /\ 0 \in 0..N
      BY <1>1, <2>4, <2>5
    <3> QED
      BY <1>6, <2>3, <2>4, <3>1
  <2>6. CASE q[n] # List
    <3>1. q[n] \in S /\ r[q[n]] < r[n] /\ r[q[n]] \in Nat /\ r[n] \in Nat
      BY <2>4, <2>6 DEF Linked
    <3>2. q[n] \in OnChain
      <4> SUFFICES ASSUME q[n] \notin OnChain PROVE FALSE
        OBVIOUS
      <4>1. r[q[n]] \in T
        BY <3>1
      <4>2. r[n] <= r[q[n]]
        BY <2>2, <2>3, <4>1
      <4> QED
        BY <3>1, <4>2
    <3>3. PICK k \in 0..N : C(k) = q[n]
      BY <1>1, <3>2 DEF OnChain, C
    <3>4. k # N
      BY <1>4, <2>6, <3>3
    <3>5. k + 1 \in 1..N /\ (k + 1) - 1 = k
      BY <1>1, <3>4
    <3>6. C(k + 1) = n
      BY <1>1, <2>4, <2>6, <3>3, <3>5 DEF Hop
    <3>7. k + 1 \in 0..N
      BY <1>1, <3>5
    <3> QED
      BY <1>6, <2>3, <2>4, <3>6, <3>7
  <2> QED
    BY <2>5, <2>6
<1> QED
  BY <1>4, <1>5, <1>7 DEF C

\* Whatever the threads do to the list without a lock, a walk goes through
\* allocated records and comes back, and no record is lost, as long as none of
\* the three overlaps happens.
THEOREM ListCorrect == Spec => []ListSafe
<1>1. MemInv /\ ListInv => ListSafe
  <2> SUFFICES ASSUME MemInv, ListInv, ~Damaged PROVE ListSafe
    BY DEF ListSafe
  <2>1. PICK S \in SUBSET Nodes, r \in [Nodes -> Nat], q \in [Links -> Links] : ListGood(S, r, q)
    BY DEF ListInv, Overlap, Damaged
  <2>2. Chain[Cardinality(Nodes)] = List /\ OnChain = S
    BY <2>1, ChainCovers DEF MemInv, ListGood, N
  <2>3. \A n \in S : heap[n] # NULL
    BY <2>1 DEF ListGood, OwnerInv
  <2>4. ASSUME NEW n \in Nodes, Settled(n) PROVE n \in S
    <3>1. n \in S \/ Unlinked(n) \/ \E t \in Threads : Fresh(t) /\ loc[t].curr = n
      BY <2>1, <2>4 DEF ListGood, OwnerInv, Settled
    <3>2. ~Unlinked(n)
      BY <2>4 DEF Settled, Unlinked, At, Threads
    <3>3. ~\E t \in Threads : Fresh(t) /\ loc[t].curr = n
      BY <2>4 DEF Settled, Fresh, Appending
    <3> QED
      BY <3>1, <3>2, <3>3
  <2>5. ASSUME \A t \in Threads : loc[t].pc \notin {"add_1", "add_2", "add_3", "add_4", "del_1", "del_2"},
               NEW n \in S \cup {List}
        PROVE  prev[next[n]] = n
    <3>1. next[n] \in S \cup {List} /\ q[next[n]] = n
      BY <2>1 DEF ListGood, Linked
    <3>2. prev[next[n]] = q[next[n]]
      BY <2>1, <2>5, <3>1 DEF ListGood, PrevInv, At, Threads
    <3> QED
      BY <3>1, <3>2
  <2> QED
    BY <2>2, <2>3, <2>4, <2>5 DEF ListSafe
<1> QED
  BY <1>1, MemInit, MemStep, ListInit, ListStep, PTL DEF Spec
=============================================================================
