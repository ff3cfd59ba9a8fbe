--------------------------- MODULE MqttLifecycle ---------------------------
(***************************************************************************)
(* The life of one client: mqtt_lease, mqtt_connect, mqtt_disconnect and   *)
(* mqtt_release called by the application, the yield thread that the first *)
(* successful connect creates and that ends itself when the session is     *)
(* cleaned, and the thread primitives of the platform ports, which differ  *)
(* in when a created thread begins to run and in what destroying it does.  *)
(* Packets are left to MqttClient: here the yield thread is only           *)
(* connected, reconnecting or leaving.                                     *)
(***************************************************************************)
EXTENDS Naturals, FiniteSets

CONSTANTS
    App,           \* the application thread
    Threads,       \* platform_thread_t objects, each with the thread it names
    Ports,         \* the platforms considered
    MaxDrops,      \* bound: how often the connection is lost
    AllocMayFail,  \* whether malloc may fail in mqtt_lease
    ThreadMayFail, \* whether the system may refuse to create a thread
    Reuses,        \* whether the application connects again after a disconnect
    NULL

ASSUME ActorsAssumption == App \notin Threads /\ NULL \notin Threads \cup {App}
ASSUME PortsAssumption == Ports \subseteq {"linux", "FreeRTOS", "RT-Thread"}
ASSUME MaxDropsAssumption == MaxDrops \in Nat
ASSUME SwitchesAssumption ==
    AllocMayFail \in BOOLEAN /\ ThreadMayFail \in BOOLEAN /\ Reuses \subseteq BOOLEAN

Actors == {App} \cup Threads

VARIABLES
    port,    \* the platform the client is built for; never changes
    reuse,   \* whether this application connects again after a disconnect
    state,   \* c->mqtt_client_state
    thread,  \* c->mqtt_thread
    bufs,    \* what mqtt_init allocated and mqtt_release has not freed
    lock,    \* the holder of c->mqtt_write_lock, or NULL
    obj,     \* the heap of thread objects
    pc,      \* where each thread is
    left,    \* whether mqtt_disconnect has been called
    drops,   \* connections lost so far
    ub       \* undefined behaviour executed so far

build == <<port, reuse>>
vars == <<build, state, thread, bufs, lock, obj, pc, left, drops, ub>>

AllBufs == {"network", "read_buf", "write_buf"}

Go(p, where) == pc' = [pc EXCEPT ![p] = where]

\* A call ends: the application is idle again, the yield thread back in mqtt_yield.
Home(p) == IF p = App THEN "idle" ELSE "loop"
Return(p) == Go(p, Home(p))

-----------------------------------------------------------------------------
(* mqtt_lease and mqtt_release.                                            *)

Mutant_lease ==                           \* the state left as malloc returned it
    /\ pc[App] = "start"
    /\ bufs' = AllBufs
    /\ state' = "UNINITIALISED"
    /\ Go(App, "idle")
    /\ UNCHANGED <<build, thread, lock, obj, left, drops, ub>>

\* mqtt_init gives up when the network object cannot be allocated, and ignores
\* a failure to allocate the buffers.
mqtt_lease ==
    /\ pc[App] = "start"
    /\ \/ /\ bufs' \in IF AllocMayFail THEN {b \in SUBSET AllBufs : "network" \in b} ELSE {AllBufs}
          /\ state' = "INITIALIZED"
          /\ Go(App, "idle")
       \/ /\ AllocMayFail
          /\ Go(App, "end")
          /\ UNCHANGED <<bufs, state>>
    /\ UNCHANGED <<build, thread, lock, obj, left, drops, ub>>

mqtt_release ==
    /\ pc[App] = "idle"
    /\ Go(App, "release")
    /\ UNCHANGED <<build, state, thread, bufs, lock, obj, left, drops, ub>>

\* The state is polled until it is INVALID or the timer expires.
mqtt_release_timeout ==
    /\ pc[App] = "release"
    /\ state # "INVALID"
    /\ Go(App, "idle")
    /\ UNCHANGED <<build, state, thread, bufs, lock, obj, left, drops, ub>>

Mutant_release_free ==                    \* the state is not waited for
    /\ pc[App] = "release"
    /\ bufs' = {}
    /\ Go(App, "freed")
    /\ UNCHANGED <<build, state, thread, lock, obj, left, drops, ub>>

mqtt_release_free ==
    /\ pc[App] = "release"
    /\ state = "INVALID"
    /\ bufs' = {}
    /\ Go(App, "freed")
    /\ UNCHANGED <<build, state, thread, lock, obj, left, drops, ub>>

\* memset(c, 0, ...): the pointer to the thread is lost, and 0 is INITIALIZED.
mqtt_release_zero ==
    /\ pc[App] = "freed"
    /\ thread' = NULL
    /\ state' = "INITIALIZED"
    /\ Go(App, "end")
    /\ UNCHANGED <<build, bufs, lock, obj, left, drops, ub>>

-----------------------------------------------------------------------------
(* mqtt_connect_with_results, called by the application or, to reconnect,  *)
(* by the yield thread.                                                    *)

mqtt_connect ==
    /\ pc[App] = "idle"
    /\ reuse \/ ~left
    /\ Go(App, "connect")
    /\ UNCHANGED <<build, state, thread, bufs, lock, obj, left, drops, ub>>

\* Already connected, or network_connect fails: return.  Else go on.
connect_network(p) ==
    /\ pc[p] = "connect"
    /\ \/ Return(p)
       \/ state # "CONNECTED" /\ Go(p, "handshake")
    /\ UNCHANGED <<build, state, thread, bufs, lock, obj, left, drops, ub>>

\* CONNECT is serialised into the write buffer under the lock and CONNACK read
\* into the read buffer; accepted or not, the lock is kept.
connect_handshake(p) ==
    /\ pc[p] = "handshake"
    /\ lock = NULL
    /\ lock' = p
    /\ IF AllBufs \subseteq bufs
         THEN (Go(p, "accepted") \/ Go(p, "refused")) /\ UNCHANGED ub
         ELSE ub' = "bad_buffer" /\ Go(p, "refused")
    /\ UNCHANGED <<build, state, thread, bufs, obj, left, drops>>

connect_refused(p) ==
    /\ pc[p] = "refused"
    /\ state' = "INITIALIZED"
    /\ lock' = NULL
    /\ Return(p)
    /\ UNCHANGED <<build, thread, bufs, obj, left, drops, ub>>

\* A reconnect: the thread exists already.
connect_again(p) ==
    /\ pc[p] = "accepted"
    /\ thread # NULL
    /\ state' = "CONNECTED"
    /\ lock' = NULL
    /\ Return(p)
    /\ UNCHANGED <<build, thread, bufs, obj, left, drops, ub>>

\* Where a created thread runs at once, and where it waits for its startup.
Mutant_FirstPlace == "entry"              \* RT-Thread starting threads at once
FirstPlace == IF port = "RT-Thread" THEN "created" ELSE "entry"

Unused == {t \in Threads : obj[t] = "none"}

\* platform_thread_init: the thread may run before this call returns.
Mutant_thread_init(p) ==                  \* the check of c->mqtt_thread dropped
    /\ pc[p] = "accepted"
    /\ \E t \in Unused :
          /\ obj' = [obj EXCEPT ![t] = "live"]
          /\ pc' = [pc EXCEPT ![p] = "assign", ![t] = FirstPlace]
    /\ UNCHANGED <<build, state, thread, bufs, lock, left, drops, ub>>

platform_thread_init(p) ==
    /\ pc[p] = "accepted"
    /\ thread = NULL
    /\ \E t \in Unused :
          /\ obj' = [obj EXCEPT ![t] = "live"]
          /\ pc' = [pc EXCEPT ![p] = "assign", ![t] = FirstPlace]
    /\ UNCHANGED <<build, state, thread, bufs, lock, left, drops, ub>>

\* The system refuses the thread.  FreeRTOS frees the object and returns NULL,
\* RT-Thread only returns NULL, and the connect fails without touching the
\* state; the Linux port writes to the object it has just freed and returns it.
\* Bound: the last unused object is kept for a creation that succeeds.
platform_thread_init_fails(p) ==
    /\ ThreadMayFail /\ Cardinality(Unused) > 1
    /\ pc[p] = "accepted"
    /\ thread = NULL
    /\ \E t \in Unused :
          IF port = "linux"
            THEN /\ obj' = [obj EXCEPT ![t] = "freed"]
                 /\ ub' = "freed_thread"
                 /\ UNCHANGED <<pc, lock>>
            ELSE /\ obj' = [obj EXCEPT ![t] = IF port = "FreeRTOS" THEN "none" ELSE "live"]
                 /\ lock' = NULL
                 /\ Return(p)
                 /\ UNCHANGED ub
    /\ UNCHANGED <<build, state, thread, bufs, left, drops>>

\* c->mqtt_thread = platform_thread_init(...)
connect_assign(p) ==
    /\ pc[p] = "assign"
    /\ \E t \in Threads :
          /\ obj[t] = "live" /\ pc[t] # "none"
          /\ thread' = t
    /\ Go(p, "set_state")
    /\ UNCHANGED <<build, state, bufs, lock, obj, left, drops, ub>>

connect_set_state(p) ==
    /\ pc[p] = "set_state"
    /\ state' = "CONNECTED"
    /\ Go(p, "startup")
    /\ UNCHANGED <<build, thread, bufs, lock, obj, left, drops, ub>>

\* platform_thread_startup makes a created thread ready; platform_thread_start
\* wakes a thread that is suspended, and does nothing to any other.
Woken(t) == CASE pc[t] = "created"   -> "entry"
              [] pc[t] = "suspended" -> "loop"
              [] OTHER               -> pc[t]

platform_thread_start(p) ==
    /\ pc[p] = "startup"
    /\ pc' = [pc EXCEPT ![p] = Home(p), ![thread] = Woken(thread)]
    /\ lock' = NULL
    /\ UNCHANGED <<build, state, thread, bufs, obj, left, drops, ub>>

-----------------------------------------------------------------------------
(* mqtt_disconnect: DISCONNECT is sent under the lock, then the state is   *)
(* overwritten.                                                            *)

mqtt_disconnect ==
    /\ pc[App] = "idle"
    /\ lock = NULL
    /\ IF "write_buf" \in bufs THEN UNCHANGED ub ELSE ub' = "bad_buffer"
    /\ left' = TRUE
    /\ Go(App, "disconnect")
    /\ UNCHANGED <<build, state, thread, bufs, lock, obj, drops>>

mqtt_disconnect_clean ==
    /\ pc[App] = "disconnect"
    /\ state' = "CLEAN_SESSION"
    /\ Go(App, "idle")
    /\ UNCHANGED <<build, thread, bufs, lock, obj, left, drops, ub>>

-----------------------------------------------------------------------------
(* mqtt_yield_thread.                                                      *)

\* The thread looks at the state first, and suspends itself when it is not
\* CONNECTED.
yield_entry(t) ==
    /\ pc[t] = "entry"
    /\ Go(t, IF state = "CONNECTED" THEN "loop" ELSE "stop")
    /\ UNCHANGED <<build, state, thread, bufs, lock, obj, left, drops, ub>>

\* platform_thread_stop(c->mqtt_thread)
platform_thread_stop(t) ==
    /\ pc[t] = "stop"
    /\ IF thread = NULL
         THEN ub' = "null_dereference" /\ UNCHANGED pc
         ELSE Go(t, "suspended") /\ UNCHANGED ub
    /\ UNCHANGED <<build, state, thread, bufs, lock, obj, left, drops>>

\* mqtt_yield: leave, reconnect, or handle packets until the connection is lost.
mqtt_yield(t) ==
    /\ pc[t] = "loop"
    /\ \/ state = "CLEAN_SESSION" /\ Go(t, "clean") /\ UNCHANGED drops
       \/ state \notin {"CLEAN_SESSION", "CONNECTED"} /\ Go(t, "connect") /\ UNCHANGED drops
       \/ state = "CONNECTED" /\ drops < MaxDrops /\ drops' = drops + 1 /\ Go(t, "drop")
    /\ ub' = IF {"network", "read_buf"} \subseteq bufs THEN ub ELSE "use_after_free"
    /\ UNCHANGED <<build, state, thread, bufs, lock, obj, left>>

\* mqtt_keep_alive has released the network and now overwrites the state.
mqtt_keep_alive_drop(t) ==
    /\ pc[t] = "drop"
    /\ state' = "DISCONNECTED"
    /\ Go(t, "loop")
    /\ UNCHANGED <<build, thread, bufs, lock, obj, left, drops, ub>>

\* network_disconnect and mqtt_clean_session.
Mutant_clean_session(t) ==                \* the state not reset
    /\ pc[t] = "clean"
    /\ Go(t, "exit")
    /\ UNCHANGED <<build, state, thread, bufs, lock, obj, left, drops, ub>>

mqtt_clean_session(t) ==
    /\ pc[t] = "clean"
    /\ state' = "INVALID"
    /\ ub' = IF "network" \in bufs THEN ub ELSE "use_after_free"
    /\ Go(t, "exit")
    /\ UNCHANGED <<build, thread, bufs, lock, obj, left, drops>>

\* The end of the thread: destroy and free the object c->mqtt_thread points to,
\* which may have been zeroed since.  On Linux platform_thread_destroy detaches
\* the thread; on RT-Thread it frees the object, which is then freed again; on
\* FreeRTOS it deletes the calling task and does not return.
yield_exit(t) ==
    /\ pc[t] = "exit"
    /\ obj' = IF thread = NULL \/ port = "FreeRTOS" THEN obj ELSE [obj EXCEPT ![thread] = "freed"]
    /\ ub' = IF thread # NULL /\ (port = "RT-Thread" \/ obj[thread] = "freed")
               THEN "double_free" ELSE ub
    /\ Go(t, "done")
    /\ UNCHANGED <<build, state, thread, bufs, lock, left, drops>>

-----------------------------------------------------------------------------
Init ==
    /\ port \in Ports /\ reuse \in Reuses
    /\ state = "INVALID" /\ thread = NULL /\ bufs = {} /\ lock = NULL
    /\ obj = [t \in Threads |-> "none"]
    /\ pc = [p \in Actors |-> IF p = App THEN "start" ELSE "none"]
    /\ left = FALSE /\ drops = 0 /\ ub = "none"

Connect(p) ==
    \/ connect_network(p) \/ connect_handshake(p) \/ connect_refused(p) \/ connect_again(p)
    \/ platform_thread_init(p) \/ platform_thread_init_fails(p) \/ connect_assign(p)
    \/ connect_set_state(p) \/ platform_thread_start(p)

\* The application calls what it likes, and finishes the calls it makes.
Call == mqtt_lease \/ mqtt_connect \/ mqtt_disconnect \/ mqtt_release
Within == \/ Connect(App) \/ mqtt_disconnect_clean
          \/ mqtt_release_timeout \/ mqtt_release_free \/ mqtt_release_zero

mqtt_yield_thread(t) ==
    \/ yield_entry(t) \/ platform_thread_stop(t) \/ mqtt_yield(t) \/ mqtt_keep_alive_drop(t)
    \/ Connect(t) \/ mqtt_clean_session(t) \/ yield_exit(t)

Stopped == (ub # "none" \/ pc[App] = "end") /\ UNCHANGED vars

Next == \/ ub = "none" /\ (Call \/ Within \/ \E t \in Threads : mqtt_yield_thread(t))
        \/ Stopped

\* Both threads are scheduled by a preemptive kernel: neither stops in the
\* middle of the library's code.
Fairness == /\ WF_vars(ub = "none" /\ Within)
            /\ \A t \in Threads : WF_vars(ub = "none" /\ mqtt_yield_thread(t))

Spec == Init /\ [][Next]_vars /\ Fairness

-----------------------------------------------------------------------------
(* Properties.                                                             *)

Places == {"start", "idle", "end", "release", "freed", "connect", "handshake", "accepted",
           "refused", "assign", "set_state", "startup", "disconnect", "none", "created",
           "entry", "stop", "suspended", "loop", "drop", "clean", "exit", "done"}

\* Every variable has its type: what the C declarations promise.
TypeOK ==
    /\ port \in Ports /\ reuse \in Reuses
    /\ state \in {"INVALID", "INITIALIZED", "CONNECTED", "DISCONNECTED", "CLEAN_SESSION"}
    /\ thread \in Threads \cup {NULL} /\ bufs \subseteq AllBufs
    /\ lock \in Actors \cup {NULL}
    /\ obj \in [Threads -> {"none", "live", "freed"}]
    /\ pc \in [Actors -> Places]
    /\ left \in BOOLEAN /\ drops \in 0..MaxDrops
    /\ ub \in {"none", "bad_buffer", "null_dereference", "use_after_free", "double_free",
              "freed_thread"}

\* In the loop of mqtt_yield_thread.
Looping(t) == pc[t] \in {"loop", "drop", "connect", "handshake", "accepted", "refused", "clean"}
Gone(t) == pc[t] \in {"none", "done"}

\* However often the connection is lost and made again, by the application or
\* by the yield thread, one client never has two yield threads.
OneYieldThread == Cardinality({t \in Threads : ~Gone(t)}) <= 1

\* mqtt_release frees the network object and the buffers only when the yield
\* thread has stopped using them.
NoUseAfterFree == ub # "use_after_free"

\* Once a client is CONNECTED and the call that connected it is over, a yield
\* thread runs, neither suspended nor about to suspend itself (note of
\* mqtt_connect_with_results: the yield thread is started automatically).
YieldThreadRuns ==
    ub = "none" /\ state = "CONNECTED" /\ pc[App] # "startup" =>
        \E t \in Threads : pc[t] = "entry" \/ Looping(t)

\* The same where a created thread waits for its startup, for an application
\* that does not connect a second time.
StartedThreadRuns == port = "RT-Thread" /\ ~reuse => YieldThreadRuns

\* Where a created thread waits for its startup, it never suspends itself
\* through a NULL c->mqtt_thread.
StartSafe == port = "RT-Thread" => ub # "null_dereference"

\* While the connection is up and nobody connects again, mqtt_disconnect makes
\* the yield thread clean the session, which is what mqtt_release waits for.
CleanUp ==
    (state = "CLEAN_SESSION" /\ ~reuse /\ drops = 0 /\ \E t \in Threads : Looping(t))
        ~> (state = "INVALID" \/ drops > 0)

\* The end of mqtt_yield_thread destroys the thread's object and frees its
\* memory (comment at the end of mqtt_yield_thread), once.
FreedOnce == ub # "double_free"

=============================================================================
