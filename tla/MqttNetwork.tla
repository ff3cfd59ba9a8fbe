---------------------------- MODULE MqttNetwork ----------------------------
(***************************************************************************)
(* The connection below the client: network_t, the descriptors of the      *)
(* process and the TLS objects, through network_init, network_connect,     *)
(* network_disconnect and network_release as one application thread and    *)
(* the yield thread call them.  TCP when the client has no CA certificate, *)
(* TLS when it has one.  Packets are left to MqttClient.                   *)
(***************************************************************************)
EXTENDS Integers

CONSTANTS
    MaxFd,         \* the highest descriptor of the process
    Params,        \* addresses of nettype_tls_params_t objects
    Cas,           \* whether c->mqtt_ca may be set
    PublishFails,  \* whether mqtt_publish may fail to record its packet
    NULL

ASSUME MaxFdAssumption == MaxFd \in Nat
ASSUME ParamsAssumption == NULL \notin Params
ASSUME SwitchesAssumption == Cas \subseteq BOOLEAN /\ PublishFails \in BOOLEAN

Fds == 0..MaxFd

\* The threads that may be inside network.c.
Threads == {"app", "yield"}

VARIABLES
    ca,       \* whether c->mqtt_ca is set; never changes
    owner,    \* of each descriptor: nobody, the client, or the rest of the program
    socket,   \* n->socket
    channel,  \* n->channel
    tls,      \* n->nettype_tls_params
    heap,     \* the TLS objects and the descriptor each holds
    state,    \* c->mqtt_client_state
    app,      \* where the application thread is
    thread,   \* where the yield thread is
    conn,     \* where mqtt_connect_with_results is, in whichever thread calls it
    rel,      \* where each thread is in network_release or network_disconnect
    fd,       \* the descriptor each thread is about to close
    raced,    \* history: a failing mqtt_publish has released the network
    overlap,  \* history: two threads have been inside network.c at once
    ub        \* undefined behaviour executed so far

network == <<socket, channel, tls>>
system == <<owner, heap>>
closing == <<rel, fd>>
history == <<raced, overlap>>
vars == <<ca, owner, socket, channel, tls, heap, state, app, thread, conn, rel, fd, raced,
          overlap, ub>>

-----------------------------------------------------------------------------
(* The system.                                                             *)

Free == {f \in Fds : owner[f] = "nobody"}
Own == {f \in Fds : owner[f] = "client"}

\* A new descriptor is the lowest one that is free.
Lowest(f) == f \in Free /\ \A g \in Free : f <= g

Opened(f, who) == [owner EXCEPT ![f] = who]

\* close: of a number that is not open it does nothing.
Closed(f) == [g \in Fds |-> IF g = f THEN "nobody" ELSE owner[g]]

\* The rest of the program opens and closes files.
program_open ==
    /\ \E f \in Fds : Lowest(f) /\ owner' = Opened(f, "program")
    /\ UNCHANGED <<ca, network, heap, state, app, thread, conn, closing, history, ub>>

program_close ==
    /\ \E f \in Fds : owner[f] = "program" /\ owner' = Closed(f)
    /\ UNCHANGED <<ca, network, heap, state, app, thread, conn, closing, history, ub>>

-----------------------------------------------------------------------------
(* nettype_tcp.c and nettype_tls.c.                                        *)

\* platform_net_socket_connect closes what it opens when it fails.
nettype_tcp_connect(f) ==
    /\ Lowest(f)
    /\ owner' = Opened(f, "client")
    /\ socket' = f
    /\ UNCHANGED <<channel, tls, heap>>

nettype_tcp_connect_fails ==
    /\ socket' = -1
    /\ UNCHANGED <<channel, tls, owner, heap>>

Mutant_nettype_tls_connect(f) ==          \* n->nettype_tls_params not set
    /\ Lowest(f)
    /\ \E p \in Params \ DOMAIN heap :
          heap' = [q \in DOMAIN heap \cup {p} |-> IF q = p THEN f ELSE heap[q]]
    /\ owner' = Opened(f, "client")
    /\ UNCHANGED <<socket, channel, tls>>
nettype_tls_connect(f) ==
    /\ Lowest(f)
    /\ \E p \in Params \ DOMAIN heap :
          /\ heap' = [q \in DOMAIN heap \cup {p} |-> IF q = p THEN f ELSE heap[q]]
          /\ tls' = p
    /\ owner' = Opened(f, "client")
    /\ UNCHANGED <<socket, channel>>

\* The object is freed.  When it was the handshake that failed, the
\* descriptor of the object is not closed.
nettype_tls_connect_fails ==
    /\ \/ UNCHANGED owner
       \/ \E f \in Fds : Lowest(f) /\ owner' = Opened(f, "client")
    /\ UNCHANGED <<network, heap>>

nettype_tls_disconnect ==
    IF tls \in DOMAIN heap
      THEN /\ owner' = Closed(heap[tls])
           /\ heap' = [p \in DOMAIN heap \ {tls} |-> heap[p]]
           /\ UNCHANGED ub
      ELSE ub' = TRUE /\ UNCHANGED system

-----------------------------------------------------------------------------
(* network_release and network_disconnect, without a lock: the test of the *)
(* descriptor, the choice of the channel, close, the assignment of -1 and  *)
(* the memset are steps of their own for the two threads.                  *)

Inside(t, where) == rel' = [rel EXCEPT ![t] = where]

\* The other thread is releasing the network, or the yield thread is setting it
\* up for a new connection.
Busy(t) == IF t = "yield"
             THEN rel["app"] # "no"
             ELSE thread # "none" /\ (rel["yield"] # "no" \/ conn \in {"channel", "set_ca", "network"})

\* The call of network_release: the test of n->socket.
network_release(t) ==
    /\ Inside(t, IF socket >= 0 THEN "disconnect" ELSE "no")
    /\ overlap' = (overlap \/ (socket >= 0 /\ Busy(t)))

\* network_disconnect is called by network_release, which goes on with the
\* memset, and by the clean-up of the yield thread.
AfterDisconnect(t) == IF t = "yield" /\ thread = "cleaning" THEN "no" ELSE "memset"

network_disconnect(t) ==
    /\ rel[t] = "disconnect"
    /\ IF channel = "tls"
         THEN nettype_tls_disconnect /\ Inside(t, AfterDisconnect(t)) /\ UNCHANGED fd
         ELSE fd' = [fd EXCEPT ![t] = socket] /\ Inside(t, "close") /\ UNCHANGED <<system, ub>>
    /\ UNCHANGED <<ca, network, state, app, thread, conn, history>>

platform_net_socket_close(t) ==
    /\ rel[t] = "close"
    /\ owner' = Closed(fd[t])
    /\ fd' = [fd EXCEPT ![t] = -1]
    /\ Inside(t, "reset")
    /\ UNCHANGED <<ca, heap, network, state, app, thread, conn, history, ub>>

Mutant_nettype_tcp_disconnect(t) ==       \* n->socket not reset
    /\ rel[t] = "reset"
    /\ Inside(t, AfterDisconnect(t))
    /\ UNCHANGED <<ca, system, network, state, app, thread, conn, fd, history, ub>>
nettype_tcp_disconnect(t) ==
    /\ rel[t] = "reset"
    /\ socket' = -1
    /\ Inside(t, AfterDisconnect(t))
    /\ UNCHANGED <<ca, system, channel, tls, state, app, thread, conn, fd, history, ub>>

\* The memset makes the descriptor 0 and the channel TCP.
network_zeroed(t) ==
    /\ rel[t] = "memset"
    /\ socket' = 0 /\ channel' = "tcp" /\ tls' = NULL
    /\ Inside(t, "no")
    /\ UNCHANGED <<ca, system, state, app, thread, conn, fd, history, ub>>

Release == \E t \in Threads : network_disconnect(t) \/ platform_net_socket_close(t)
                                \/ nettype_tcp_disconnect(t) \/ network_zeroed(t)

-----------------------------------------------------------------------------
(* mqtt_connect_with_results, by the application until it has succeeded    *)
(* once, then by the yield thread.                                         *)

Connecting == IF thread = "none" THEN "app" ELSE "yield"

\* network_init, assignment by assignment: n->socket, the plain channel, and
\* with a certificate the TLS channel in network_set_ca.
mqtt_connect ==
    /\ conn = "no"
    /\ \/ app = "start"
       \/ thread = "loop" /\ state \notin {"CONNECTED", "CLEAN_SESSION"}
    /\ socket' = -1
    /\ conn' = "channel"
    /\ overlap' = (overlap \/ Busy(Connecting))
    /\ UNCHANGED <<ca, system, channel, tls, state, app, thread, closing, raced, ub>>

network_init ==
    /\ conn = "channel"
    /\ channel' = "tcp"
    /\ conn' = IF ca THEN "set_ca" ELSE "network"
    /\ UNCHANGED <<ca, system, socket, tls, state, app, thread, closing, history, ub>>

Mutant_network_set_ca ==                  \* only ca_crt and ca_crt_len set
    /\ conn = "set_ca"
    /\ conn' = "network"
    /\ UNCHANGED <<ca, system, network, state, app, thread, closing, history, ub>>
network_set_ca ==
    /\ conn = "set_ca"
    /\ channel' = "tls"
    /\ conn' = "network"
    /\ UNCHANGED <<ca, system, socket, tls, state, app, thread, closing, history, ub>>

network_connect ==
    /\ conn = "network"
    /\ \E f \in Fds : IF channel = "tls" THEN nettype_tls_connect(f) ELSE nettype_tcp_connect(f)
    /\ conn' = "handshake"
    /\ UNCHANGED <<ca, state, app, thread, closing, history, ub>>

network_connect_fails ==
    /\ conn = "network"
    /\ IF channel = "tls" THEN nettype_tls_connect_fails ELSE nettype_tcp_connect_fails
    /\ conn' = "failed"
    /\ UNCHANGED <<ca, state, app, thread, closing, history, ub>>

connect_accepted ==
    /\ conn = "handshake"
    /\ state' = "CONNECTED"
    /\ app' = IF app = "start" THEN "idle" ELSE app
    /\ thread' = "loop"
    /\ conn' = "no"
    /\ UNCHANGED <<ca, system, network, closing, history, ub>>

\* The thread cannot be created: the state stays what it was.
Mutant_connect_no_thread ==               \* rc left at success
    /\ conn = "handshake"
    /\ thread = "none"
    /\ app' = "idle"
    /\ conn' = "failed"
    /\ UNCHANGED <<ca, system, network, state, thread, closing, history, ub>>
connect_no_thread ==
    /\ conn = "handshake"
    /\ thread = "none"
    /\ conn' = "failed"
    /\ UNCHANGED <<ca, system, network, state, app, thread, closing, history, ub>>

connect_refused ==
    /\ conn = "handshake"
    /\ conn' = "refused"
    /\ UNCHANGED <<ca, system, network, state, app, thread, closing, history, ub>>

Mutant_connect_release ==                 \* the network not released
    /\ conn \in {"failed", "refused"}
    /\ conn' = IF conn = "refused" THEN "state" ELSE "return"
    /\ UNCHANGED <<ca, system, network, state, app, thread, closing, history, ub>>
connect_release ==
    /\ conn \in {"failed", "refused"}
    /\ network_release(Connecting)
    /\ conn' = IF conn = "refused" THEN "state" ELSE "return"
    /\ UNCHANGED <<ca, system, network, state, app, thread, fd, raced, ub>>

connect_return ==
    /\ conn \in {"return", "state"} /\ rel[Connecting] = "no"
    /\ state' = IF conn = "state" THEN "INITIALIZED" ELSE state
    /\ conn' = "no"
    /\ UNCHANGED <<ca, system, network, app, thread, closing, history, ub>>

\* The write lock is held from CONNECT to the end of mqtt_connect_with_results.
Locked == conn \in {"handshake", "refused", "state"}

-----------------------------------------------------------------------------
(* The application after the first connect.                                *)

\* A publication that cannot be recorded: the lock is released, then the
\* network, then the state is set.
mqtt_publish_fails ==
    /\ PublishFails
    /\ app = "idle" /\ state = "CONNECTED"
    /\ app' = "release"
    /\ UNCHANGED <<ca, system, network, state, thread, conn, closing, history, ub>>

mqtt_publish_release ==
    /\ app = "release"
    /\ network_release("app")
    /\ raced' = TRUE
    /\ app' = "state"
    /\ UNCHANGED <<ca, system, network, state, thread, conn, fd, ub>>

mqtt_publish_disconnected ==
    /\ app = "state" /\ rel["app"] = "no"
    /\ state' = "DISCONNECTED"
    /\ app' = "idle"
    /\ UNCHANGED <<ca, system, network, thread, conn, closing, history, ub>>

\* DISCONNECT is sent under the lock, the state set after it.
mqtt_disconnect ==
    /\ app = "idle" /\ ~Locked
    /\ app' = "leaving"
    /\ UNCHANGED <<ca, system, network, state, thread, conn, closing, history, ub>>

mqtt_disconnect_clean ==
    /\ app = "leaving"
    /\ state' = "CLEAN_SESSION"
    /\ app' = "gone"
    /\ UNCHANGED <<ca, system, network, thread, conn, closing, history, ub>>

-----------------------------------------------------------------------------
(* The yield thread.                                                       *)

\* mqtt_keep_alive with a ping outstanding: release, then set the state.
mqtt_keep_alive_release ==
    /\ thread = "loop" /\ conn = "no" /\ state = "CONNECTED"
    /\ network_release("yield")
    /\ thread' = "dropping"
    /\ UNCHANGED <<ca, system, network, state, app, conn, fd, raced, ub>>

mqtt_keep_alive_drop ==
    /\ thread = "dropping" /\ rel["yield"] = "no"
    /\ state' = "DISCONNECTED"
    /\ thread' = "loop"
    /\ UNCHANGED <<ca, system, network, app, conn, closing, history, ub>>

\* The clean-up calls network_disconnect whatever n->socket is.
Mutant_yield_disconnect ==                \* the connection left open
    /\ thread = "loop" /\ conn = "no" /\ state = "CLEAN_SESSION"
    /\ thread' = "cleaning"
    /\ UNCHANGED <<ca, system, network, state, app, conn, closing, history, ub>>
yield_disconnect ==
    /\ thread = "loop" /\ conn = "no" /\ state = "CLEAN_SESSION"
    /\ Inside("yield", "disconnect")
    /\ overlap' = (overlap \/ Busy("yield"))
    /\ thread' = "cleaning"
    /\ UNCHANGED <<ca, system, network, state, app, conn, fd, raced, ub>>

mqtt_clean_session ==
    /\ thread = "cleaning" /\ rel["yield"] = "no"
    /\ state' = "INVALID"
    /\ thread' = "ended"
    /\ UNCHANGED <<ca, system, network, app, conn, closing, history, ub>>

-----------------------------------------------------------------------------
\* Descriptor 0 is the standard input of the program.
Init ==
    /\ ca \in Cas
    /\ owner = [f \in Fds |-> IF f = 0 THEN "program" ELSE "nobody"]
    /\ socket = 0 /\ channel = "tcp" /\ tls = NULL
    /\ heap = [p \in {} |-> 0]
    /\ state = "INITIALIZED"
    /\ app = "start" /\ thread = "none" /\ conn = "no"
    /\ rel = [t \in Threads |-> "no"] /\ fd = [t \in Threads |-> -1]
    /\ raced = FALSE /\ overlap = FALSE /\ ub = FALSE

Connect == mqtt_connect \/ network_init \/ network_set_ca
             \/ network_connect \/ network_connect_fails
             \/ connect_accepted \/ connect_no_thread \/ connect_refused
             \/ connect_release \/ connect_return

Application == mqtt_publish_fails \/ mqtt_publish_release \/ mqtt_publish_disconnected
                 \/ mqtt_disconnect \/ mqtt_disconnect_clean

YieldThread == mqtt_keep_alive_release \/ mqtt_keep_alive_drop
                 \/ yield_disconnect \/ mqtt_clean_session

\* The session is over.
Stopped == (thread = "ended" \/ ub) /\ UNCHANGED vars

Next == program_open \/ program_close \/ Connect \/ Application \/ YieldThread \/ Release
          \/ Stopped

Spec == Init /\ [][Next]_vars

-----------------------------------------------------------------------------
(* Properties.                                                             *)

\* Every variable has its type, and the application goes on from mqtt_connect
\* exactly when there is a yield thread.
TypeOK ==
    /\ ca \in BOOLEAN /\ raced \in BOOLEAN /\ overlap \in BOOLEAN /\ ub \in BOOLEAN
    /\ owner \in [Fds -> {"nobody", "client", "program"}]
    /\ socket \in {-1} \cup Fds /\ channel \in {"tcp", "tls"}
    /\ tls \in Params \cup {NULL}
    /\ DOMAIN heap \subseteq Params /\ heap \in [DOMAIN heap -> Fds]
    /\ state \in {"INITIALIZED", "CONNECTED", "DISCONNECTED", "CLEAN_SESSION", "INVALID"}
    /\ app \in {"start", "idle", "release", "state", "leaving", "gone"}
    /\ thread \in {"none", "loop", "dropping", "cleaning", "ended"}
    /\ conn \in {"no", "channel", "set_ca", "network", "failed", "handshake", "refused",
                 "return", "state"}
    /\ rel \in [Threads -> {"no", "disconnect", "close", "reset", "memset"}]
    /\ fd \in [Threads -> {-1} \cup Fds]
    /\ app = "start" <=> thread = "none"

\* As long as the two threads have not been inside network.c at once: a thread
\* about to close a positive number closes the client's own descriptor, and
\* but for the moment between close and the assignment of -1 a positive
\* n->socket is open and the client's, so that nothing the program opened
\* later is read, written or closed under an old number.  A publication may
\* fail and release the network while the yield thread is anywhere else.
\* What the descriptor of a TLS object is holds in every run.
NoStaleDescriptor ==
    /\ ~overlap => /\ \A t \in Threads : fd[t] > 0 => owner[fd[t]] = "client"
                   /\ \/ \E t \in Threads : rel[t] = "reset"
                      \/ socket > 0 => owner[socket] = "client"
    /\ \A p \in DOMAIN heap : owner[heap[p]] = "client"
    /\ \A p, q \in DOMAIN heap : heap[p] = heap[q] => p = q

\* A TCP client whose publications are all recorded holds no descriptor but
\* the one of its connection, through refused connects, lost connections and
\* reconnects.
NoLeak == ~ca /\ ~raced => Own \subseteq {socket}

\* After the clean-up of such a client no descriptor is left.
ClosedAtEnd == ~ca /\ ~raced /\ thread = "ended" => Own = {}

\* The points at which the thread that connects, or the yield thread, reads,
\* writes or disconnects through network_t.
InUse == \/ conn = "handshake"
         \/ thread = "loop" /\ conn = "no" /\ state \in {"CONNECTED", "CLEAN_SESSION"}
         \/ thread = "cleaning" /\ rel["yield"] = "disconnect"

\* A client with a CA certificate connects, reads, writes and disconnects over
\* TLS.  In the middle of network_init n->channel is the plain one for a
\* moment, and a call of the application may use it then: n->socket is -1 from
\* the first connect on, so nothing is ever written in plain.
EncryptedOnly ==
    ca => /\ InUse => channel = "tls"
          /\ app # "start" \/ conn # "no" => socket = -1

\* On the TLS channel the object used, also by the application, which may
\* disconnect in every state, and the one freed at the end is there.
TlsObjectLive == ~ub /\ (channel = "tls" /\ (InUse \/ app = "idle") => tls \in DOMAIN heap)

-----------------------------------------------------------------------------
(* What comments of the code say, and the code does not do in every run.   *)

\* A client that has dropped its connection has released its descriptor.
ReleasedWhenDisconnected == state = "DISCONNECTED" /\ conn = "no" => Own = {}

\* What network_disconnect closes is not a file of the rest of the program.
ClosesOnlyOwn == \A t \in Threads : rel[t] = "close" /\ fd[t] \in Fds => owner[fd[t]] # "program"

\* The same for a client whose descriptor is never the zero of the memset,
\* when a publication fails while the yield thread is at work.
ThreadsCloseOwn == \A t \in Threads : rel[t] = "close" /\ fd[t] > 0 => owner[fd[t]] # "program"
=============================================================================
