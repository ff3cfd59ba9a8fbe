------------------------ MODULE MqttNetworkProofs ------------------------
(***************************************************************************)
(* Theorems about MqttNetwork, for any number of descriptors and TLS       *)
(* objects: the types, the channel and the TLS object in use, that no      *)
(* closed descriptor is used or closed again while the two threads are not *)
(* inside network.c together, and that a TCP client leaks none.            *)
(***************************************************************************)
EXTENDS MqttNetwork, TLAPS

USE DEF network, system, closing, history, Threads

\* Where the threads are: the application calls the API until it leaves, the
\* yield thread cleans up only after that, and a thread is inside
\* network_release or network_disconnect only at the calls of them.
ThreadShape ==
    /\ thread \in {"dropping", "cleaning", "ended"} => conn = "no"
    /\ state = "CLEAN_SESSION" \/ thread \in {"cleaning", "ended"} => app = "gone"
    /\ conn = "set_ca" => ca
    /\ rel["app"] # "no" => app = "state" \/ (app = "start" /\ conn \in {"return", "state"})
    /\ rel["yield"] # "no" => \/ thread \in {"dropping", "cleaning"}
                              \/ thread = "loop" /\ conn \in {"return", "state"}
    /\ \A t \in Threads : rel[t] # "close" => fd[t] = -1

\* A TLS client has a negative n->socket from its first network_init on, which
\* is what keeps network_release from doing anything to it and the plain
\* channel of network_init from being used; a TCP client has no TLS object.
ChannelInv ==
    /\ ~ca => channel = "tcp" /\ DOMAIN heap = {}
    /\ ca => \/ app = "start" /\ conn = "no" /\ socket = 0
             \/ socket = -1 /\ (channel = "tls" \/ conn \in {"channel", "set_ca"})
    /\ ca => /\ rel["app"] = "no"
             /\ rel["yield"] # "no" => thread = "cleaning" /\ rel["yield"] = "disconnect"

\* From the first successful TLS connect to the clean-up there is an object.
ObjectInv ==
    /\ ~ub
    /\ ca /\ (\/ conn = "handshake" \/ thread \in {"loop", "dropping"}
              \/ thread = "cleaning" /\ rel["yield"] = "disconnect") => tls \in DOMAIN heap

NetInv == TypeOK /\ ThreadShape /\ ChannelInv /\ ObjectInv

\* Initially, with the memory of network_t zeroed.
LEMMA NetInit == Init => NetInv
<1> SUFFICES ASSUME Init PROVE NetInv
  OBVIOUS
<1> DEFINE none == [p \in {} |-> 0]
<1>1. none \in [{} -> Fds] /\ DOMAIN none = {}
  OBVIOUS
<1>2. heap = none
  BY DEF Init
<1>3. DOMAIN heap = {} /\ heap \in [DOMAIN heap -> Fds]
  BY <1>1, <1>2
<1>4. owner \in [Fds -> {"nobody", "client", "program"}] /\ 0 \in Fds
  BY MaxFdAssumption DEF Init, Fds
<1>5. /\ rel \in [Threads -> {"no"}] /\ fd \in [Threads -> {-1}]
      /\ rel["app"] = "no" /\ rel["yield"] = "no" /\ \A t \in Threads : fd[t] = -1
  BY DEF Init
<1>6. TypeOK
  BY <1>3, <1>4, <1>5, SwitchesAssumption DEF Init, TypeOK
<1> QED
  BY <1>3, <1>5, <1>6 DEF Init, NetInv, ThreadShape, ChannelInv, ObjectInv

\* close and socket keep the table of descriptors a table.
LEMMA TableType ==
    ASSUME TypeOK
    PROVE  /\ \A f : Closed(f) \in [Fds -> {"nobody", "client", "program"}]
           /\ \A f \in Fds : \A w \in {"client", "program"} :
                 Opened(f, w) \in [Fds -> {"nobody", "client", "program"}]
BY DEF TypeOK, Closed, Opened

\* What the test of n->socket does under the invariant: a TLS client goes no
\* further, and the other thread's place is left alone.
LEMMA ReleaseEffect ==
    ASSUME NetInv, NEW t \in Threads, network_release(t), app # "start" \/ conn # "no"
    PROVE  /\ rel' \in [Threads -> {"no", "disconnect", "close", "reset", "memset"}]
           /\ \A u \in Threads : u # t => rel'[u] = rel[u]
           /\ rel'[t] \in {"no", "disconnect"}
           /\ ca => rel'[t] = "no"
           /\ rel'[t] # "no" => socket >= 0
           /\ rel'[t] = "no" => socket = -1
           /\ overlap' \in BOOLEAN
<1>1. ca => ~(socket >= 0)
  BY DEF NetInv, ChannelInv
<1>2. ~(socket >= 0) => socket = -1
  BY DEF NetInv, TypeOK, Fds
<1> QED
  BY <1>1, <1>2 DEF network_release, Inside, NetInv, TypeOK

\* Every step inside network_release or network_disconnect keeps the invariant.
LEMMA ReleaseStep ==
    ASSUME NetInv, NEW t \in Threads,
           network_disconnect(t) \/ platform_net_socket_close(t)
             \/ nettype_tcp_disconnect(t) \/ network_zeroed(t)
    PROVE  NetInv'
<1> USE DEF NetInv, ThreadShape, ChannelInv, ObjectInv
<1>0. AfterDisconnect(t) \in {"no", "memset"}
  BY DEF AfterDisconnect
<1>1. CASE network_disconnect(t)
  <2>1. CASE ca
    <3>1. t = "yield" /\ thread = "cleaning" /\ app = "gone" /\ conn = "no" /\ channel = "tls"
          /\ tls \in DOMAIN heap
      BY <1>1, <2>1 DEF network_disconnect
    <3>2. nettype_tls_disconnect /\ Inside(t, "no") /\ fd' = fd
      BY <1>1, <3>1 DEF network_disconnect, AfterDisconnect
    <3>3. /\ heap' = [p \in DOMAIN heap \ {tls} |-> heap[p]]
          /\ owner' = Closed(heap[tls]) /\ ub' = ub
      BY <3>1, <3>2 DEF nettype_tls_disconnect
    <3>4. DOMAIN heap' \subseteq Params /\ heap' \in [DOMAIN heap' -> Fds]
      BY <3>3 DEF TypeOK
    <3>5. rel' = [rel EXCEPT ![t] = "no"]
      BY <3>2 DEF Inside
    <3>6. TypeOK'
      BY <1>1, <3>2, <3>3, <3>4, <3>5, TableType DEF network_disconnect, TypeOK
    <3> QED
      BY <1>1, <2>1, <3>1, <3>2, <3>3, <3>5, <3>6 DEF network_disconnect, TypeOK
  <2>2. CASE ~ca
    <3>1. /\ fd' = [fd EXCEPT ![t] = socket] /\ rel' = [rel EXCEPT ![t] = "close"]
          /\ UNCHANGED <<system, ub>>
      BY <1>1, <2>2 DEF network_disconnect, Inside
    <3>2. TypeOK'
      BY <1>1, <3>1 DEF network_disconnect, TypeOK
    <3> QED
      BY <1>1, <2>2, <3>1, <3>2 DEF network_disconnect, TypeOK
  <2> QED
    BY <2>1, <2>2
<1>2. CASE platform_net_socket_close(t)
  <2>1. ~ca
    BY <1>2 DEF platform_net_socket_close
  <2>2. /\ fd' = [fd EXCEPT ![t] = -1] /\ rel' = [rel EXCEPT ![t] = "reset"]
    BY <1>2 DEF platform_net_socket_close, Inside
  <2>3. TypeOK'
    BY <1>2, <2>2, TableType DEF platform_net_socket_close, TypeOK
  <2> QED
    BY <1>2, <2>1, <2>2, <2>3 DEF platform_net_socket_close, TypeOK
<1>3. CASE nettype_tcp_disconnect(t)
  <2>1. ~ca
    BY <1>3 DEF nettype_tcp_disconnect
  <2>2. rel' = [rel EXCEPT ![t] = AfterDisconnect(t)]
    BY <1>3 DEF nettype_tcp_disconnect, Inside
  <2>3. TypeOK'
    BY <1>0, <1>3, <2>2 DEF nettype_tcp_disconnect, TypeOK
  <2> QED
    BY <1>0, <1>3, <2>1, <2>2, <2>3 DEF nettype_tcp_disconnect, TypeOK
<1>4. CASE network_zeroed(t)
  <2>1. ~ca
    BY <1>4 DEF network_zeroed
  <2>2. rel' = [rel EXCEPT ![t] = "no"] /\ 0 \in Fds
    BY <1>4, MaxFdAssumption DEF network_zeroed, Inside, Fds
  <2>3. TypeOK'
    BY <1>4, <2>2 DEF network_zeroed, TypeOK
  <2> QED
    BY <1>4, <2>1, <2>2, <2>3 DEF network_zeroed, TypeOK
<1> QED
  BY <1>1, <1>2, <1>3, <1>4

\* Every step keeps the invariant.
LEMMA NetStep == NetInv /\ [Next]_vars => NetInv'
<1> SUFFICES ASSUME NetInv, [Next]_vars PROVE NetInv'
  OBVIOUS
<1> USE DEF NetInv, ThreadShape, ChannelInv, ObjectInv
<1>1. CASE program_open
  BY <1>1, TableType DEF program_open, TypeOK
<1>2. CASE program_close
  BY <1>2, TableType DEF program_close, TypeOK
<1>3. CASE mqtt_connect
  <2>1. thread \in {"none", "loop"} /\ conn = "no" /\ overlap' \in BOOLEAN
    BY <1>3 DEF mqtt_connect, TypeOK
  <2>2. rel["app"] # "no" => app = "state"
    BY <2>1
  <2>3. rel["yield"] = "no"
    BY <2>1
  <2>4. TypeOK'
    BY <1>3, <2>1 DEF mqtt_connect, TypeOK
  <2> QED
    BY <1>3, <2>1, <2>2, <2>3, <2>4 DEF mqtt_connect, TypeOK
<1>4. CASE network_init
  <2>1. thread \notin {"dropping", "cleaning", "ended"} /\ rel["yield"] = "no"
    BY <1>4 DEF network_init
  <2>2. TypeOK'
    BY <1>4 DEF network_init, TypeOK
  <2> QED
    BY <1>4, <2>1, <2>2 DEF network_init, TypeOK
<1>5. CASE network_set_ca
  <2>1. thread \notin {"dropping", "cleaning", "ended"} /\ rel["yield"] = "no"
    BY <1>5 DEF network_set_ca
  <2> QED
    BY <1>5, <2>1 DEF network_set_ca, TypeOK
<1>6. CASE network_connect
  <2>1. PICK f \in Fds : IF channel = "tls" THEN nettype_tls_connect(f) ELSE nettype_tcp_connect(f)
    BY <1>6 DEF network_connect
  <2>0. thread \notin {"dropping", "cleaning", "ended"} /\ rel["yield"] = "no"
        /\ (rel["app"] # "no" => app = "state")
    BY <1>6 DEF network_connect
  <2>2. CASE channel = "tls"
    <3>1. nettype_tls_connect(f)
      BY <2>1, <2>2
    <3>2. PICK p \in Params \ DOMAIN heap :
            /\ heap' = [q \in DOMAIN heap \cup {p} |-> IF q = p THEN f ELSE heap[q]]
            /\ tls' = p
      BY <3>1 DEF nettype_tls_connect
    <3>3. /\ DOMAIN heap' = DOMAIN heap \cup {p}
          /\ heap' \in [DOMAIN heap' -> Fds]
      BY <3>2 DEF TypeOK
    <3>4. TypeOK'
      BY <1>6, <3>1, <3>2, <3>3, TableType DEF network_connect, nettype_tls_connect, TypeOK
    <3> QED
      BY <1>6, <2>0, <2>2, <3>1, <3>2, <3>3, <3>4 DEF network_connect, nettype_tls_connect, TypeOK
  <2>3. CASE channel # "tls"
    <3>1. nettype_tcp_connect(f) /\ ~ca
      BY <1>6, <2>1, <2>3 DEF network_connect
    <3>2. TypeOK'
      BY <1>6, <3>1, TableType DEF network_connect, nettype_tcp_connect, TypeOK
    <3> QED
      BY <1>6, <2>0, <2>3, <3>1, <3>2 DEF network_connect, nettype_tcp_connect, TypeOK
  <2> QED
    BY <2>2, <2>3
<1>7. CASE network_connect_fails
  <2>0. thread \notin {"dropping", "cleaning", "ended"} /\ rel["yield"] = "no"
        /\ (rel["app"] # "no" => app = "state")
    BY <1>7 DEF network_connect_fails
  <2>1. CASE channel = "tls"
    <3>1. owner' \in [Fds -> {"nobody", "client", "program"}]
      BY <1>7, <2>1, TableType DEF network_connect_fails, nettype_tls_connect_fails, TypeOK
    <3> QED
      BY <1>7, <2>0, <2>1, <3>1 DEF network_connect_fails, nettype_tls_connect_fails, TypeOK
  <2>2. CASE channel # "tls"
    <3>1. ~ca
      BY <1>7, <2>2 DEF network_connect_fails
    <3> QED
      BY <1>7, <2>0, <2>2, <3>1 DEF network_connect_fails, nettype_tcp_connect_fails, TypeOK
  <2> QED
    BY <2>1, <2>2
<1>8. CASE connect_accepted
  <2>1. rel["yield"] = "no" /\ (rel["app"] # "no" => app = "state")
    BY <1>8 DEF connect_accepted
  <2> QED
    BY <1>8, <2>1 DEF connect_accepted, TypeOK
<1>9. CASE connect_no_thread
  BY <1>9 DEF connect_no_thread, TypeOK
<1>10. CASE connect_refused
  BY <1>10 DEF connect_refused, TypeOK
<1>11. CASE connect_release
  <2>1. Connecting \in Threads /\ network_release(Connecting) /\ conn # "no"
        /\ conn' \in {"return", "state"}
    BY <1>11 DEF connect_release, Connecting
  <2>2. thread \in {"none", "loop"} /\ (rel["app"] # "no" => app = "state") /\ rel["yield"] = "no"
    BY <1>11 DEF connect_release, TypeOK
  <2>3. TypeOK'
    BY <1>11, <2>1, ReleaseEffect DEF connect_release, TypeOK
  <2>4. CASE thread = "none"
    <3>1. Connecting = "app" /\ app = "start"
      BY <2>4 DEF Connecting, TypeOK
    <3> QED
      BY <1>11, <2>1, <2>2, <2>3, <2>4, <3>1, ReleaseEffect DEF connect_release, TypeOK
  <2>5. CASE thread = "loop"
    <3>1. Connecting = "yield" /\ app # "start"
      BY <2>5 DEF Connecting, TypeOK
    <3> QED
      BY <1>11, <2>1, <2>2, <2>3, <2>5, <3>1, ReleaseEffect DEF connect_release, TypeOK
  <2> QED
    BY <2>2, <2>4, <2>5
<1>12. CASE connect_return
  <2>1. thread \in {"none", "loop"} /\ conn \in {"return", "state"} /\ rel[Connecting] = "no"
    BY <1>12 DEF connect_return, TypeOK
  <2>2. rel["yield"] = "no" /\ (rel["app"] # "no" => app = "state")
    BY <2>1 DEF Connecting, TypeOK
  <2>3. state' = state \/ state' = "INITIALIZED"
    BY <1>12 DEF connect_return
  <2> QED
    BY <1>12, <2>1, <2>2, <2>3 DEF connect_return, TypeOK
<1>13. CASE mqtt_publish_fails
  BY <1>13 DEF mqtt_publish_fails, TypeOK
<1>14. CASE mqtt_publish_release
  <2>1. network_release("app") /\ app = "release" /\ app' = "state"
    BY <1>14 DEF mqtt_publish_release
  <2> QED
    BY <1>14, <2>1, ReleaseEffect DEF mqtt_publish_release, TypeOK
<1>15. CASE mqtt_publish_disconnected
  BY <1>15 DEF mqtt_publish_disconnected, TypeOK
<1>16. CASE mqtt_disconnect
  BY <1>16 DEF mqtt_disconnect, TypeOK
<1>17. CASE mqtt_disconnect_clean
  BY <1>17 DEF mqtt_disconnect_clean, TypeOK
<1>18. CASE mqtt_keep_alive_release
  <2>1. app # "start" /\ network_release("yield") /\ thread = "loop" /\ conn = "no"
    BY <1>18 DEF mqtt_keep_alive_release, TypeOK
  <2> QED
    BY <1>18, <2>1, ReleaseEffect DEF mqtt_keep_alive_release, TypeOK
<1>19. CASE mqtt_keep_alive_drop
  BY <1>19 DEF mqtt_keep_alive_drop, TypeOK
<1>20. CASE yield_disconnect
  <2>1. /\ rel' = [rel EXCEPT !["yield"] = "disconnect"] /\ overlap' \in BOOLEAN
        /\ app = "gone" /\ conn = "no" /\ rel["yield"] = "no"
    BY <1>20 DEF yield_disconnect, Inside
  <2>2. TypeOK'
    BY <1>20, <2>1 DEF yield_disconnect, TypeOK
  <2> QED
    BY <1>20, <2>1, <2>2 DEF yield_disconnect, TypeOK
<1>21. CASE mqtt_clean_session
  BY <1>21 DEF mqtt_clean_session, TypeOK
<1>22. CASE Release
  BY <1>22, ReleaseStep DEF Release
<1>23. CASE UNCHANGED vars
  BY <1>23 DEF vars, TypeOK
<1>24. CASE Stopped
  BY <1>23, <1>24 DEF Stopped
<1> QED
  BY <1>1, <1>2, <1>3, <1>4, <1>5, <1>6, <1>7, <1>8, <1>9, <1>10, <1>11, <1>12, <1>13, <1>14,
     <1>15, <1>16, <1>17, <1>18, <1>19, <1>20, <1>21, <1>22, <1>23, <1>24
     DEF Next, Connect, Application, YieldThread

\* Every variable of MqttNetwork keeps its type.
THEOREM NetTypeCorrect == Spec => []TypeOK
<1>1. NetInv => TypeOK
  BY DEF NetInv
<1> QED
  BY <1>1, NetInit, NetStep, PTL DEF Spec

\* A client with a CA certificate connects, reads, writes and disconnects over
\* TLS, and in the middle of network_init, where n->channel is the plain one
\* for a moment, there is no descriptor a call of the application could use.
THEOREM EncryptionCorrect == Spec => []EncryptedOnly
<1>1. NetInv => EncryptedOnly
  BY DEF NetInv, TypeOK, ThreadShape, ChannelInv, EncryptedOnly, InUse
<1> QED
  BY <1>1, NetInit, NetStep, PTL DEF Spec

\* Whenever a thread reads or writes on the TLS channel, and when the clean-up
\* frees it, the TLS object of n->nettype_tls_params is allocated.
THEOREM ObjectCorrect == Spec => []TlsObjectLive
<1>1. NetInv => TlsObjectLive
  BY DEF NetInv, TypeOK, ThreadShape, ChannelInv, ObjectInv, TlsObjectLive, InUse
<1> QED
  BY <1>1, NetInit, NetStep, PTL DEF Spec

-----------------------------------------------------------------------------
(* Descriptors.                                                            *)

\* While the threads have not met inside network.c: they are not there
\* together, and the number a thread is about to close is still n->socket.
MeetInv ==
    ~overlap =>
        /\ rel["app"] = "no" \/ (rel["yield"] = "no" /\ conn \notin {"channel", "set_ca", "network"})
        /\ \A t \in Threads : rel[t] = "close" => fd[t] = socket

StaleInv == NoStaleDescriptor /\ MeetInv

\* Initially n->socket is the zero of the memset and there is no TLS object.
LEMMA StaleInit == Init => StaleInv
<1> SUFFICES ASSUME Init PROVE StaleInv
  OBVIOUS
<1>1. DOMAIN heap = {} /\ socket = 0
  BY NetInit DEF NetInv, ChannelInv, Init
<1>2. \A t \in Threads : rel[t] = "no" /\ fd[t] = -1
  BY DEF Init
<1> QED
  BY <1>1, <1>2 DEF StaleInv, MeetInv, NoStaleDescriptor

\* The test of n->socket lets a thread in; it changes nothing the property
\* speaks of, and records a meeting with the other thread.
LEMMA ReleaseMeets ==
    ASSUME NetInv, StaleInv, NEW t \in Threads, network_release(t),
           app # "start" \/ conn # "no", rel[t] = "no",
           UNCHANGED <<owner, socket, heap, fd>>,
           conn' = conn \/ conn' \in {"return", "state"},
           t = "app" /\ thread = "none" => conn \in {"failed", "refused"} /\ conn' \in {"return", "state"}
    PROVE  StaleInv'
<1>1. /\ \A u \in Threads : u # t => rel'[u] = rel[u]
      /\ rel'[t] \in {"no", "disconnect"}
      /\ rel'[t] # "no" => socket >= 0
  BY ReleaseEffect
<1>2. overlap' = (overlap \/ (socket >= 0 /\ Busy(t)))
  BY DEF network_release
<1>3. ~overlap' => ~overlap /\ (rel'[t] # "no" => ~Busy(t))
  BY <1>1, <1>2 DEF NetInv, TypeOK
<1>4. NoStaleDescriptor'
  BY <1>1, <1>3 DEF StaleInv, NoStaleDescriptor
<1>5. thread = "none" => rel["yield"] = "no"
  BY DEF NetInv, ThreadShape
<1>6. CASE t = "app"
  BY <1>1, <1>3, <1>4, <1>5, <1>6 DEF StaleInv, MeetInv, Busy
<1>7. CASE t = "yield"
  BY <1>1, <1>3, <1>4, <1>7 DEF StaleInv, MeetInv, Busy
<1> QED
  BY <1>6, <1>7

\* Inside network_release and network_disconnect: the number loaded is open,
\* and after the close nobody but the closing thread is there to use it.
LEMMA InsideMeets ==
    ASSUME NetInv, StaleInv, NEW t \in Threads,
           network_disconnect(t) \/ platform_net_socket_close(t)
             \/ nettype_tcp_disconnect(t) \/ network_zeroed(t)
    PROVE  StaleInv'
<1>0. /\ overlap' = overlap /\ conn' = conn /\ thread' = thread
      /\ rel[t] # "no"
  BY DEF network_disconnect, platform_net_socket_close, nettype_tcp_disconnect, network_zeroed
<1>1. /\ \A u \in Threads : u # t => rel'[u] = rel[u] /\ fd'[u] = fd[u]
      /\ DOMAIN rel = Threads /\ DOMAIN fd = Threads
  BY DEF network_disconnect, platform_net_socket_close, nettype_tcp_disconnect, network_zeroed,
         Inside, NetInv, TypeOK
<1>2. ~overlap => /\ \A u \in Threads : u # t => rel[u] = "no" /\ fd[u] = -1
                  /\ t = "app" => conn \notin {"channel", "set_ca", "network"}
  BY <1>0 DEF StaleInv, MeetInv, NetInv, ThreadShape
<1>3. CASE network_disconnect(t) /\ ca
  <2>1. t = "yield" /\ thread = "cleaning" /\ socket = -1 /\ channel = "tls" /\ tls \in DOMAIN heap
        /\ rel["app"] = "no" /\ rel[t] = "disconnect"
    BY <1>3 DEF network_disconnect, NetInv, ThreadShape, ChannelInv, ObjectInv
  <2>2. nettype_tls_disconnect /\ rel' = [rel EXCEPT ![t] = "no"] /\ fd' = fd /\ socket' = -1
    BY <1>3, <2>1 DEF network_disconnect, AfterDisconnect, Inside
  <2>3. heap' = [p \in DOMAIN heap \ {tls} |-> heap[p]] /\ owner' = Closed(heap[tls])
    BY <2>1, <2>2 DEF nettype_tls_disconnect
  <2>4. \A p \in DOMAIN heap' : p \in DOMAIN heap /\ heap'[p] = heap[p] /\ heap[p] # heap[tls]
    BY <2>1, <2>3 DEF StaleInv, NoStaleDescriptor
  <2>5. \A p \in DOMAIN heap' : owner'[heap'[p]] = "client"
    BY <2>3, <2>4 DEF Closed, StaleInv, NoStaleDescriptor, NetInv, TypeOK
  <2>6. \A u \in Threads : fd[u] = -1
    BY <2>1 DEF NetInv, ThreadShape
  <2>7. NoStaleDescriptor'
    BY <2>2, <2>4, <2>5, <2>6 DEF StaleInv, NoStaleDescriptor
  <2>8. rel'["app"] = "no" /\ rel'["yield"] = "no"
    BY <1>1, <2>1, <2>2
  <2> QED
    BY <2>7, <2>8 DEF StaleInv, MeetInv
<1>4. CASE network_disconnect(t) /\ ~ca
  <2>1. /\ fd'[t] = socket /\ rel'[t] = "close" /\ rel[t] = "disconnect"
        /\ UNCHANGED <<owner, heap, socket>> /\ DOMAIN heap = {}
    BY <1>1, <1>4 DEF network_disconnect, Inside, NetInv, ChannelInv
  <2>2. ~overlap => \A u \in Threads : rel[u] # "reset"
    BY <1>2, <2>1
  <2>3. ~overlap => (socket > 0 => owner[socket] = "client")
    BY <2>2 DEF StaleInv, NoStaleDescriptor
  <2>4. ~overlap => \A u \in Threads : fd'[u] > 0 => owner'[fd'[u]] = "client"
    BY <1>1, <1>2, <2>1, <2>3
  <2>5. NoStaleDescriptor'
    BY <1>0, <2>1, <2>3, <2>4 DEF NoStaleDescriptor
  <2>6. MeetInv'
    BY <1>0, <1>1, <1>2, <2>1 DEF MeetInv, StaleInv
  <2> QED
    BY <2>5, <2>6 DEF StaleInv
<1>5. CASE platform_net_socket_close(t)
  <2>1. /\ fd'[t] = -1 /\ rel'[t] = "reset"
        /\ UNCHANGED <<heap, socket>> /\ DOMAIN heap = {}
    BY <1>1, <1>5 DEF platform_net_socket_close, Inside, NetInv, ChannelInv
  <2>2. ~overlap => \A u \in Threads : fd'[u] = -1
    BY <1>1, <1>2, <2>1
  <2>3. NoStaleDescriptor'
    BY <1>0, <2>1, <2>2 DEF NoStaleDescriptor
  <2>4. MeetInv'
    BY <1>0, <1>1, <1>2, <2>1 DEF MeetInv, StaleInv
  <2> QED
    BY <2>3, <2>4 DEF StaleInv
<1>6. CASE nettype_tcp_disconnect(t) \/ network_zeroed(t)
  <2>1. /\ fd' = fd /\ rel'[t] \in {"no", "memset"} /\ rel[t] \in {"reset", "memset"}
        /\ UNCHANGED <<heap, owner>> /\ socket' \in {0, -1} /\ DOMAIN heap = {}
    BY <1>1, <1>6 DEF nettype_tcp_disconnect, network_zeroed, Inside, AfterDisconnect, NetInv, ChannelInv
  <2>2. fd[t] = -1
    BY <2>1 DEF NetInv, ThreadShape
  <2>3. ~overlap => \A u \in Threads : fd[u] = -1
    BY <1>2, <2>2
  <2>4. NoStaleDescriptor'
    BY <1>0, <2>1, <2>3 DEF NoStaleDescriptor
  <2>5. MeetInv'
    BY <1>0, <1>1, <1>2, <2>1 DEF MeetInv, StaleInv
  <2> QED
    BY <2>4, <2>5 DEF StaleInv
<1> QED
  BY <1>3, <1>4, <1>5, <1>6

\* No step makes a closed descriptor one the client uses or closes.
LEMMA StaleStep == NetInv /\ StaleInv /\ [Next]_vars => StaleInv'
<1> SUFFICES ASSUME NetInv, StaleInv, [Next]_vars PROVE StaleInv'
  OBVIOUS
<1>1. CASE program_open
  <2>1. PICK f \in Fds : owner[f] = "nobody" /\ owner' = [owner EXCEPT ![f] = "program"]
    BY <1>1 DEF program_open, Lowest, Free, Opened
  <2>2. \A g \in Fds : owner[g] = "client" => owner'[g] = "client"
    BY <2>1 DEF NetInv, TypeOK
  <2> QED
    BY <1>1, <2>2 DEF program_open, StaleInv, MeetInv, NoStaleDescriptor, NetInv, TypeOK
<1>2. CASE program_close
  <2>1. PICK f \in Fds : owner[f] = "program" /\ owner' = Closed(f)
    BY <1>2 DEF program_close
  <2>2. \A g \in Fds : owner[g] = "client" => owner'[g] = "client"
    BY <2>1 DEF Closed
  <2> QED
    BY <1>2, <2>2 DEF program_close, StaleInv, MeetInv, NoStaleDescriptor, NetInv, TypeOK
<1>3. CASE mqtt_connect
  <2>1. /\ thread \in {"none", "loop"} /\ conn = "no" /\ socket' = -1
        /\ UNCHANGED <<owner, heap, rel, fd>>
        /\ overlap' = (overlap \/ Busy(Connecting))
    BY <1>3 DEF mqtt_connect, NetInv, TypeOK
  <2>2. ~overlap' => ~overlap /\ rel["app"] = "no"
    BY <2>1 DEF Connecting, Busy, NetInv, ThreadShape, TypeOK
  <2>3. rel["yield"] = "no"
    BY <2>1 DEF NetInv, ThreadShape
  <2>4. NoStaleDescriptor'
    BY <2>1, <2>2 DEF StaleInv, NoStaleDescriptor
  <2> QED
    BY <2>1, <2>2, <2>3, <2>4 DEF StaleInv, MeetInv
<1>4. CASE network_init \/ network_set_ca
  <2>1. conn \in {"channel", "set_ca"} /\ UNCHANGED <<owner, heap, socket, rel, fd, overlap>>
    BY <1>4 DEF network_init, network_set_ca
  <2> QED
    BY <2>1 DEF StaleInv, MeetInv, NoStaleDescriptor
<1>5. CASE network_connect
  <2>1. PICK f \in Fds : IF channel = "tls" THEN nettype_tls_connect(f) ELSE nettype_tcp_connect(f)
    BY <1>5 DEF network_connect
  <2>0. /\ conn = "network" /\ conn' = "handshake" /\ UNCHANGED <<rel, fd, overlap>>
        /\ ~overlap => \A t \in Threads : rel[t] = "no" /\ fd[t] = -1
    BY <1>5 DEF network_connect, StaleInv, MeetInv, NetInv, ThreadShape
  <2>2. CASE channel = "tls"
    <3>1. nettype_tls_connect(f) /\ socket = -1
      BY <1>5, <2>1, <2>2 DEF network_connect, NetInv, ChannelInv, TypeOK
    <3>2. PICK p \in Params \ DOMAIN heap :
            heap' = [q \in DOMAIN heap \cup {p} |-> IF q = p THEN f ELSE heap[q]]
      BY <3>1 DEF nettype_tls_connect
    <3>3. owner' = [owner EXCEPT ![f] = "client"] /\ owner[f] = "nobody" /\ socket' = -1
      BY <3>1 DEF nettype_tls_connect, Lowest, Free, Opened
    <3>4. \A q \in DOMAIN heap : heap[q] # f /\ heap[q] \in Fds
      BY <3>3 DEF StaleInv, NoStaleDescriptor, NetInv, TypeOK
    <3>5. DOMAIN heap' = DOMAIN heap \cup {p} /\ heap'[p] = f
          /\ \A q \in DOMAIN heap : heap'[q] = heap[q]
      BY <3>2
    <3>6. \A q \in DOMAIN heap' : owner'[heap'[q]] = "client"
      BY <3>3, <3>4, <3>5 DEF StaleInv, NoStaleDescriptor, NetInv, TypeOK
    <3>7. \A q, r \in DOMAIN heap' : heap'[q] = heap'[r] => q = r
      BY <3>4, <3>5 DEF StaleInv, NoStaleDescriptor
    <3>8. NoStaleDescriptor'
      BY <2>0, <3>3, <3>6, <3>7 DEF NoStaleDescriptor
    <3> QED
      BY <2>0, <3>8 DEF StaleInv, MeetInv
  <2>3. CASE channel # "tls"
    <3>1. nettype_tcp_connect(f) /\ DOMAIN heap = {}
      BY <1>5, <2>1, <2>3 DEF network_connect, NetInv, ChannelInv, TypeOK
    <3>2. socket' = f /\ owner'[f] = "client" /\ heap' = heap
      BY <3>1 DEF nettype_tcp_connect, Opened, NetInv, TypeOK
    <3>3. NoStaleDescriptor'
      BY <2>0, <3>1, <3>2 DEF NoStaleDescriptor
    <3> QED
      BY <2>0, <3>3 DEF StaleInv, MeetInv
  <2> QED
    BY <2>2, <2>3
<1>6. CASE network_connect_fails
  <2>0. /\ conn = "network" /\ conn' = "failed" /\ UNCHANGED <<rel, fd, overlap>>
        /\ ~overlap => \A t \in Threads : rel[t] = "no" /\ fd[t] = -1
    BY <1>6 DEF network_connect_fails, StaleInv, MeetInv, NetInv, ThreadShape
  <2>1. CASE channel = "tls"
    <3>1. UNCHANGED <<network, heap>>
      BY <1>6, <2>1 DEF network_connect_fails, nettype_tls_connect_fails
    <3>2. \A f \in Fds : owner[f] = "client" => owner'[f] = "client"
      BY <1>6, <2>1 DEF network_connect_fails, nettype_tls_connect_fails, Opened, NetInv, TypeOK
    <3>3. NoStaleDescriptor'
      BY <2>0, <3>1, <3>2 DEF StaleInv, NoStaleDescriptor, NetInv, TypeOK
    <3> QED
      BY <2>0, <3>3 DEF StaleInv, MeetInv
  <2>2. CASE channel # "tls"
    <3>1. UNCHANGED <<owner, heap>> /\ socket' = -1
      BY <1>6, <2>2 DEF network_connect_fails, nettype_tcp_connect_fails
    <3>2. NoStaleDescriptor'
      BY <2>0, <3>1 DEF StaleInv, NoStaleDescriptor
    <3> QED
      BY <2>0, <3>2 DEF StaleInv, MeetInv
  <2> QED
    BY <2>1, <2>2
<1>7. CASE connect_accepted \/ connect_no_thread \/ connect_refused \/ connect_return
             \/ mqtt_publish_fails \/ mqtt_publish_disconnected \/ mqtt_disconnect
             \/ mqtt_disconnect_clean \/ mqtt_keep_alive_drop \/ mqtt_clean_session
  <2>1. /\ UNCHANGED <<owner, heap, socket, rel, fd, overlap>>
        /\ conn' = conn \/ conn' \in {"no", "failed", "refused"}
    BY <1>7 DEF connect_accepted, connect_no_thread, connect_refused, connect_return,
         mqtt_publish_fails, mqtt_publish_disconnected, mqtt_disconnect, mqtt_disconnect_clean,
         mqtt_keep_alive_drop, mqtt_clean_session
  <2> QED
    BY <2>1 DEF StaleInv, MeetInv, NoStaleDescriptor
<1>8. CASE connect_release
  <2>1. /\ Connecting \in Threads /\ network_release(Connecting)
        /\ conn \in {"failed", "refused"} /\ conn' \in {"return", "state"}
        /\ UNCHANGED <<owner, socket, heap, fd>>
    BY <1>8 DEF connect_release, Connecting
  <2>2. rel[Connecting] = "no"
    BY <2>1 DEF Connecting, NetInv, ThreadShape, TypeOK
  <2> QED
    BY <2>1, <2>2, ReleaseMeets
<1>9. CASE mqtt_publish_release
  <2>1. /\ network_release("app") /\ app = "release" /\ conn' = conn
        /\ UNCHANGED <<owner, socket, heap, fd>>
    BY <1>9 DEF mqtt_publish_release
  <2>2. rel["app"] = "no" /\ thread # "none"
    BY <2>1 DEF NetInv, ThreadShape, TypeOK
  <2> QED
    BY <2>1, <2>2, ReleaseMeets
<1>10. CASE mqtt_keep_alive_release
  <2>1. /\ network_release("yield") /\ thread = "loop" /\ conn = "no" /\ conn' = conn
        /\ UNCHANGED <<owner, socket, heap, fd>>
    BY <1>10 DEF mqtt_keep_alive_release
  <2>2. rel["yield"] = "no" /\ app # "start"
    BY <2>1 DEF NetInv, ThreadShape, TypeOK
  <2> QED
    BY <2>1, <2>2, ReleaseMeets
<1>11. CASE yield_disconnect
  <2>1. /\ rel' = [rel EXCEPT !["yield"] = "disconnect"] /\ conn = "no" /\ conn' = conn
        /\ overlap' = (overlap \/ Busy("yield")) /\ UNCHANGED <<owner, socket, heap, fd>>
    BY <1>11 DEF yield_disconnect, Inside
  <2>2. ~overlap' => ~overlap /\ rel["app"] = "no"
    BY <2>1 DEF Busy
  <2>3. rel["yield"] = "no"
    BY <1>11, <2>1 DEF yield_disconnect, NetInv, ThreadShape
  <2>4. rel'["app"] = rel["app"] /\ rel'["yield"] = "disconnect"
    BY <2>1 DEF NetInv, TypeOK
  <2>5. NoStaleDescriptor'
    BY <2>1, <2>2, <2>3, <2>4 DEF StaleInv, NoStaleDescriptor
  <2> QED
    BY <2>1, <2>2, <2>3, <2>4, <2>5 DEF StaleInv, MeetInv
<1>12. CASE Release
  BY <1>12, InsideMeets DEF Release
<1>13. CASE UNCHANGED vars
  BY <1>13 DEF vars, StaleInv, MeetInv, NoStaleDescriptor
<1>14. CASE Stopped
  BY <1>13, <1>14 DEF Stopped
<1> QED
  BY <1>1, <1>2, <1>3, <1>4, <1>5, <1>6, <1>7, <1>8, <1>9, <1>10, <1>11, <1>12, <1>13, <1>14
     DEF Next, Connect, Application, YieldThread

\* Until the application releases the network while the yield thread releases
\* it or sets it up, every positive number a thread closes, and every positive
\* n->socket outside the moment of a close, is an open descriptor of the
\* client; the descriptors of the TLS objects are so in every run.
THEOREM DescriptorCorrect == Spec => []NoStaleDescriptor
<1>1. StaleInv => NoStaleDescriptor
  BY DEF StaleInv
<1> QED
  BY <1>1, NetInit, NetStep, StaleInit, StaleStep, PTL DEF Spec

-----------------------------------------------------------------------------
(* Leaks.                                                                  *)

\* Where a connect may begin, once a release is over and after the clean-up, a
\* TCP client whose publications are all recorded has no descriptor at all:
\* network_init forgets n->socket.
LeakInv ==
    ~ca /\ ~raced =>
        /\ Own \subseteq {socket}
        /\ conn \in {"channel", "set_ca", "network"} => Own = {}
        /\ conn \in {"return", "state"} /\ rel[Connecting] = "no" => Own = {}
        /\ conn = "no" /\ (app = "start" \/ state \notin {"CONNECTED", "CLEAN_SESSION"}) => Own = {}
        /\ thread \in {"dropping", "cleaning"} /\ rel["yield"] = "no" => Own = {}
        /\ thread = "ended" => Own = {}
        /\ \A t \in Threads : /\ rel[t] = "close" => fd[t] = socket
                              /\ rel[t] \in {"reset", "memset"} => Own = {}

\* A publication that fails marks the run before it sets the state; until then
\* the application is inside network_release only before there is a thread.
RaceInv == app = "state" => raced

\* close takes the descriptor from the client, and nothing else.
LEMMA OwnClosed ==
    ASSUME TypeOK, NEW f, owner' = Closed(f)
    PROVE  Own' = Own \ {f}
BY DEF TypeOK, Own, Closed

\* A client whose only descriptor could be n->socket has none when that is -1.
LEMMA NoneOpen ==
    ASSUME Own \subseteq {socket}, socket = -1
    PROVE  Own = {}
BY DEF Own, Fds

\* While no publication has failed, one thread at most is inside.
LEMMA OneInside ==
    ASSUME NetInv, RaceInv, ~raced
    PROVE  /\ rel["app"] # "no" => thread = "none" /\ rel["yield"] = "no"
           /\ \A t \in Threads : rel[t] # "no" => \A u \in Threads : u # t => rel[u] = "no"
<1>1. rel["app"] # "no" => app = "start"
  BY DEF NetInv, ThreadShape, RaceInv
<1>2. app = "start" => thread = "none"
  BY DEF NetInv, TypeOK
<1>3. thread = "none" => rel["yield"] = "no"
  BY DEF NetInv, ThreadShape
<1> QED
  BY <1>1, <1>2, <1>3

\* The steps inside network_release and network_disconnect.
LEMMA InsideLeaks ==
    ASSUME NetInv, LeakInv, RaceInv, NEW t \in Threads,
           network_disconnect(t) \/ platform_net_socket_close(t)
             \/ nettype_tcp_disconnect(t) \/ network_zeroed(t)
    PROVE  (LeakInv /\ RaceInv)'
<1>0. /\ UNCHANGED <<ca, raced, state, app, thread, conn>> /\ rel[t] # "no"
      /\ Connecting' = Connecting
  BY DEF network_disconnect, platform_net_socket_close, nettype_tcp_disconnect, network_zeroed,
         Connecting
<1>1. RaceInv'
  BY <1>0 DEF RaceInv
<1> SUFFICES ASSUME ~ca, ~raced PROVE LeakInv'
  BY <1>0, <1>1 DEF LeakInv
<1>2. /\ \A u \in Threads : u # t => rel'[u] = "no" /\ rel[u] = "no"
      /\ DOMAIN rel = Threads /\ DOMAIN fd = Threads /\ channel = "tcp"
  BY <1>0, OneInside DEF network_disconnect, platform_net_socket_close, nettype_tcp_disconnect,
         network_zeroed, Inside, NetInv, TypeOK, ChannelInv
<1>3. CASE network_disconnect(t)
  <2>1. fd'[t] = socket /\ rel'[t] = "close" /\ rel[t] = "disconnect"
        /\ UNCHANGED <<owner, socket>>
    BY <1>2, <1>3 DEF network_disconnect, Inside
  <2>2. Own' = Own
    BY <2>1 DEF Own
  <2>3. conn \in {"return", "state"} /\ rel'[Connecting] = "no" => rel[Connecting] = "no"
    BY <1>2, <2>1 DEF Connecting
  <2>4. rel'["yield"] = "no" => rel["yield"] = "no"
    BY <1>2, <2>1
  <2> QED
    BY <1>0, <1>2, <2>1, <2>2, <2>3, <2>4 DEF LeakInv
<1>4. CASE platform_net_socket_close(t)
  <2>1. fd[t] = socket /\ rel'[t] = "reset" /\ socket' = socket /\ owner' = Closed(fd[t])
    BY <1>2, <1>4 DEF platform_net_socket_close, Inside, LeakInv
  <2>2. Own' = {}
    BY <2>1, OwnClosed DEF LeakInv, NetInv
  <2> QED
    BY <1>0, <1>2, <2>1, <2>2 DEF LeakInv
<1>5. CASE nettype_tcp_disconnect(t) \/ network_zeroed(t)
  <2>1. rel[t] \in {"reset", "memset"} /\ rel'[t] \in {"no", "memset"} /\ owner' = owner
    BY <1>2, <1>5 DEF nettype_tcp_disconnect, network_zeroed, Inside, AfterDisconnect
  <2>2. Own' = {}
    BY <2>1 DEF Own, LeakInv
  <2> QED
    BY <1>0, <1>2, <2>1, <2>2 DEF LeakInv
<1> QED
  BY <1>3, <1>4, <1>5

\* The call of network_release: who finds no descriptor has none.
LEMMA ReleaseLeaks ==
    ASSUME NetInv, LeakInv, RaceInv, NEW t \in Threads, network_release(t), ~ca, ~raced,
           app # "start" \/ conn # "no", rel[t] = "no", UNCHANGED <<owner, socket, fd>>
    PROVE  /\ Own' = Own
           /\ rel'[t] = "no" => Own = {}
           /\ \A u \in Threads : /\ rel'[u] = "close" => fd'[u] = socket'
                                 /\ rel'[u] \in {"reset", "memset"} => Own = {}
<1>1. /\ \A u \in Threads : u # t => rel'[u] = rel[u]
      /\ rel'[t] \in {"no", "disconnect"}
      /\ rel'[t] = "no" => socket = -1
  BY ReleaseEffect
<1>2. Own' = Own
  BY DEF Own
<1> QED
  BY <1>1, <1>2, NoneOpen DEF LeakInv

\* No step opens a second descriptor or forgets an open one.
LEMMA LeakStep == NetInv /\ LeakInv /\ RaceInv /\ [Next]_vars => (LeakInv /\ RaceInv)'
<1> SUFFICES ASSUME NetInv, LeakInv, RaceInv, [Next]_vars PROVE (LeakInv /\ RaceInv)'
  OBVIOUS
<1> USE DEF LeakInv, RaceInv
<1>1. CASE program_open \/ program_close
  <2>1. Own' = Own
    BY <1>1 DEF program_open, program_close, Own, Lowest, Free, Opened, Closed, NetInv, TypeOK
  <2> QED
    BY <1>1, <2>1 DEF program_open, program_close, Connecting
<1>2. CASE mqtt_connect
  <2>1. Own' = Own /\ thread \in {"none", "loop"}
    BY <1>2 DEF mqtt_connect, Own, NetInv, TypeOK
  <2>2. ~ca /\ ~raced => Own = {}
    BY <1>2 DEF mqtt_connect
  <2>3. ~raced => \A t \in Threads : rel[t] = "no"
    BY <1>2, <2>1 DEF mqtt_connect, NetInv, ThreadShape
  <2> QED
    BY <1>2, <2>1, <2>2, <2>3 DEF mqtt_connect
<1>3. CASE network_init \/ network_set_ca
  <2>1. Own' = Own
    BY <1>3 DEF network_init, network_set_ca, Own
  <2>2. conn \in {"channel", "set_ca"} /\ conn' \in {"set_ca", "network"}
    BY <1>3 DEF network_init, network_set_ca
  <2> QED
    BY <1>3, <2>1, <2>2 DEF network_init, network_set_ca
<1>4. CASE network_connect
  <2>1. PICK f \in Fds : IF channel = "tls" THEN nettype_tls_connect(f) ELSE nettype_tcp_connect(f)
    BY <1>4 DEF network_connect
  <2>2. ~ca => socket' = f /\ Own' \subseteq Own \cup {f}
    BY <2>1 DEF nettype_tcp_connect, Own, Opened, NetInv, ChannelInv, TypeOK
  <2>3. thread \notin {"dropping", "cleaning", "ended"}
    BY <1>4 DEF network_connect, NetInv, ThreadShape
  <2>4. ~raced => \A t \in Threads : rel[t] = "no"
    BY <1>4, <2>3 DEF network_connect, NetInv, ThreadShape
  <2> QED
    BY <1>4, <2>2, <2>3, <2>4 DEF network_connect
<1>5. CASE network_connect_fails
  <2>1. ~ca => Own' = Own
    BY <1>5 DEF network_connect_fails, nettype_tcp_connect_fails, Own, NetInv, ChannelInv
  <2>2. thread \notin {"dropping", "cleaning", "ended"}
    BY <1>5 DEF network_connect_fails, NetInv, ThreadShape
  <2>3. ~raced => \A t \in Threads : rel[t] = "no"
    BY <1>5, <2>2 DEF network_connect_fails, NetInv, ThreadShape
  <2> QED
    BY <1>5, <2>1, <2>2, <2>3 DEF network_connect_fails
<1>6. CASE connect_accepted
  <2>1. Own' = Own
    BY <1>6 DEF connect_accepted, Own
  <2>2. thread \notin {"dropping", "cleaning", "ended"}
    BY <1>6 DEF connect_accepted, NetInv, ThreadShape
  <2> QED
    BY <1>6, <2>1, <2>2 DEF connect_accepted, NetInv, TypeOK
<1>7. CASE connect_no_thread \/ connect_refused
  <2>1. Own' = Own
    BY <1>7 DEF connect_no_thread, connect_refused, Own
  <2> QED
    BY <1>7, <2>1 DEF connect_no_thread, connect_refused
<1>8. CASE connect_release
  <2>1. /\ Connecting \in Threads /\ network_release(Connecting)
        /\ conn \in {"failed", "refused"} /\ conn' \in {"return", "state"}
        /\ UNCHANGED <<ca, raced, app, thread, state, owner, socket, fd>> /\ Connecting' = Connecting
    BY <1>8 DEF connect_release, Connecting
  <2>2. rel[Connecting] = "no" /\ thread \notin {"dropping", "cleaning", "ended"}
    BY <2>1 DEF Connecting, NetInv, ThreadShape, TypeOK
  <2>3. ~ca /\ ~raced => /\ Own' = Own
                         /\ rel'[Connecting] = "no" => Own = {}
                         /\ \A u \in Threads : /\ rel'[u] = "close" => fd'[u] = socket'
                                               /\ rel'[u] \in {"reset", "memset"} => Own = {}
    BY <2>1, <2>2, ReleaseLeaks
  <2> QED
    BY <2>1, <2>2, <2>3
<1>9. CASE connect_return
  <2>1. Own' = Own
    BY <1>9 DEF connect_return, Own
  <2>2. ~ca /\ ~raced => Own = {}
    BY <1>9 DEF connect_return
  <2> QED
    BY <1>9, <2>1, <2>2 DEF connect_return
<1>10. CASE mqtt_publish_fails \/ mqtt_disconnect
  <2>1. Own' = Own
    BY <1>10 DEF mqtt_publish_fails, mqtt_disconnect, Own
  <2> QED
    BY <1>10, <2>1 DEF mqtt_publish_fails, mqtt_disconnect, Connecting
<1>11. CASE mqtt_publish_release
  BY <1>11 DEF mqtt_publish_release
<1>12. CASE mqtt_publish_disconnected
  BY <1>12 DEF mqtt_publish_disconnected
<1>13. CASE mqtt_disconnect_clean
  <2>1. Own' = Own
    BY <1>13 DEF mqtt_disconnect_clean, Own
  <2> QED
    BY <1>13, <2>1 DEF mqtt_disconnect_clean, Connecting
<1>14. CASE mqtt_keep_alive_release
  <2>1. /\ network_release("yield") /\ thread = "loop" /\ thread' = "dropping" /\ conn = "no"
        /\ state = "CONNECTED"
        /\ UNCHANGED <<ca, raced, app, state, conn, owner, socket, fd>>
    BY <1>14 DEF mqtt_keep_alive_release
  <2>2. rel["yield"] = "no" /\ app # "start"
    BY <2>1 DEF NetInv, ThreadShape, TypeOK
  <2>3. ~ca /\ ~raced => /\ Own' = Own
                         /\ rel'["yield"] = "no" => Own = {}
                         /\ \A u \in Threads : /\ rel'[u] = "close" => fd'[u] = socket'
                                               /\ rel'[u] \in {"reset", "memset"} => Own = {}
    BY <2>1, <2>2, ReleaseLeaks
  <2> QED
    BY <2>1, <2>2, <2>3
<1>15. CASE mqtt_keep_alive_drop
  <2>1. Own' = Own
    BY <1>15 DEF mqtt_keep_alive_drop, Own
  <2>2. ~ca /\ ~raced => Own = {}
    BY <1>15 DEF mqtt_keep_alive_drop
  <2> QED
    BY <1>15, <2>1, <2>2 DEF mqtt_keep_alive_drop
<1>16. CASE yield_disconnect
  <2>1. /\ rel' = [rel EXCEPT !["yield"] = "disconnect"] /\ conn = "no" /\ thread' = "cleaning"
        /\ UNCHANGED <<ca, raced, app, state, conn, owner, socket, fd>>
    BY <1>16 DEF yield_disconnect, Inside
  <2>2. Own' = Own
    BY <2>1 DEF Own
  <2>3. rel'["app"] = rel["app"] /\ rel'["yield"] = "disconnect"
    BY <2>1 DEF NetInv, TypeOK
  <2> QED
    BY <2>1, <2>2, <2>3
<1>17. CASE mqtt_clean_session
  <2>1. Own' = Own
    BY <1>17 DEF mqtt_clean_session, Own
  <2>2. ~ca /\ ~raced => Own = {}
    BY <1>17 DEF mqtt_clean_session
  <2> QED
    BY <1>17, <2>1, <2>2 DEF mqtt_clean_session
<1>18. CASE Release
  BY <1>18, InsideLeaks DEF Release
<1>19. CASE UNCHANGED vars
  <2>1. Own' = Own
    BY <1>19 DEF vars, Own
  <2> QED
    BY <1>19, <2>1 DEF vars, Connecting
<1> QED
  BY <1>1, <1>2, <1>3, <1>4, <1>5, <1>6, <1>7, <1>8, <1>9, <1>10, <1>11, <1>12, <1>13, <1>14,
     <1>15, <1>16, <1>17, <1>18, <1>19 DEF Next, Connect, Application, YieldThread, Stopped

\* Initially the client has no descriptor.
LEMMA LeakInit == Init => LeakInv /\ RaceInv
BY DEF Init, LeakInv, RaceInv, Own

\* Refused connects, lost connections and reconnects leave a TCP client whose
\* publications are all recorded with no descriptor but n->socket.
THEOREM LeakCorrect == Spec => []NoLeak
<1>1. LeakInv => NoLeak
  BY DEF LeakInv, NoLeak
<1> QED
  BY <1>1, NetInit, NetStep, LeakInit, LeakStep, PTL DEF Spec

\* After mqtt_clean_session such a client has none.
THEOREM CleanUpCorrect == Spec => []ClosedAtEnd
<1>1. LeakInv => ClosedAtEnd
  BY DEF LeakInv, ClosedAtEnd
<1> QED
  BY <1>1, NetInit, NetStep, LeakInit, LeakStep, PTL DEF Spec
=============================================================================
