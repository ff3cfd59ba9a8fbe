------------------------ MODULE MqttLifecycleProofs ------------------------
(***************************************************************************)
(* Theorems about MqttLifecycle, for any number of thread objects, losses  *)
(* of the connection and failed allocations: one yield thread, no use of   *)
(* freed memory, and what the start of the thread guarantees on each port. *)
(***************************************************************************)
EXTENDS MqttLifecycle, FiniteSetTheorems, TLAPS

AppPlaces == {"start", "idle", "end", "release", "freed", "connect", "handshake", "accepted",
              "refused", "assign", "set_state", "startup", "disconnect"}
ThreadPlaces == {"none", "created", "entry", "stop", "suspended", "loop", "drop", "connect",
                 "handshake", "accepted", "refused", "clean", "exit", "done"}

\* Between platform_mutex_lock and platform_mutex_unlock of a connect.
Locked == {"accepted", "refused", "assign", "set_state", "startup"}

\* Inside mqtt_connect_with_results.
Connecting == {"connect", "handshake"} \cup Locked

\* Application and yield thread are each in their own code, and the write lock
\* is held exactly by the actor that is between taking it and giving it back.
LockInv ==
    /\ pc[App] \in AppPlaces
    /\ \A t \in Threads : pc[t] \in ThreadPlaces
    /\ \A p \in Actors : pc[p] \in Locked <=> lock = p

\* A thread that was created stays the only one: c->mqtt_thread is NULL only
\* before the first creation, at the assignment of its result, and after the
\* memset of mqtt_release, when the thread has left its loop.
ThreadInv ==
    /\ \A t, u \in Threads : pc[t] # "none" /\ pc[u] # "none" => t = u
    /\ \A t \in Threads : pc[t] \notin {"none", "done"} => obj[t] = "live"
    /\ \A t \in Threads : pc[t] = "done" => obj[t] # "none"
    /\ thread # NULL => pc[thread] # "none"
    /\ thread = NULL => /\ state # "CONNECTED"
                        /\ pc[App] \notin {"set_state", "startup"}
                        /\ \A t \in Threads : pc[t] # "none" => pc[App] \in {"assign", "end"}
    /\ pc[App] = "assign" => thread = NULL
    /\ pc[App] = "end" => \A t \in Threads : pc[t] \in {"none", "exit", "done"}
    /\ pc[App] = "freed" => state = "INVALID"

\* The state is INVALID before mqtt_lease and after the clean-up, and the
\* creation of a thread is over before the thread can change the state.
StateInv ==
    /\ state = "INVALID" => /\ pc[App] \in {"start", "end"} \/ thread # NULL
                            /\ \A t \in Threads : pc[t] \in {"none", "exit", "done"}
    /\ pc[App] = "start" => state = "INVALID" /\ thread = NULL
    /\ pc[App] \in {"assign", "set_state"} =>
          /\ state # "CONNECTED"
          /\ \A t \in Threads : pc[t] \in {"none", "created", "entry", "stop", "suspended"}

\* Who is past the handshake, and every thread that has not left its loop, has
\* the network object and both buffers.
BufInv ==
    /\ pc[App] \in {"accepted", "assign", "set_state", "startup"} => AllBufs \subseteq bufs
    /\ \A t \in Threads : pc[t] \notin {"none", "exit", "done"} => AllBufs \subseteq bufs

\* On RT-Thread a created thread waits for the startup, which comes after the
\* state is set.
StartInv ==
    /\ \A t \in Threads : pc[t] = "created" => pc[App] \in {"assign", "set_state", "startup"}
    /\ port = "RT-Thread" =>
          /\ pc[App] \in {"assign", "set_state", "startup"} =>
                \A t \in Threads : pc[t] \in {"none", "created"}
          /\ pc[App] = "startup" => state = "CONNECTED"

\* An application that does not connect again after mqtt_disconnect: the thread
\* stops or ends only because the application has left.
LeaveInv ==
    /\ state = "CLEAN_SESSION" \/ pc[App] = "disconnect" => left
    /\ \A t \in Threads : pc[t] = "clean" => left
    /\ ~reuse /\ left => pc[App] \notin Connecting
    /\ port = "RT-Thread" /\ ~reuse => \A t \in Threads :
          /\ pc[t] \in {"stop", "suspended", "exit", "done"} => left /\ state # "CONNECTED"
          /\ pc[t] = "entry" =>
                left \/ (state = "CONNECTED" /\ pc[App] \notin {"handshake", "accepted", "refused"})

\* No thread touches freed memory, a thread object is freed once, and where
\* threads wait for their startup c->mqtt_thread is not NULL when it is used.
UbInv == NoUseAfterFree /\ StartSafe

LifeInv == TypeOK /\ LockInv /\ ThreadInv /\ StateInv /\ BufInv /\ StartInv /\ LeaveInv /\ UbInv

-----------------------------------------------------------------------------
(* Types.                                                                  *)

\* Initially.
LEMMA TypeInit == Init => TypeOK
<1> SUFFICES ASSUME Init PROVE TypeOK
  OBVIOUS
<1>1. pc \in [Actors -> Places]
  BY DEF Init, Places
<1>2. drops \in 0..MaxDrops
  BY MaxDropsAssumption DEF Init
<1>3. left \in BOOLEAN
  BY DEF Init
<1> QED
  BY <1>1, <1>2, <1>3 DEF Init, TypeOK

\* The calls of the application keep the types.
LEMMA TypeCalls == TypeOK /\ (Call \/ mqtt_disconnect_clean \/ mqtt_release_timeout
                               \/ mqtt_release_free \/ mqtt_release_zero) => TypeOK'
<1> SUFFICES ASSUME TypeOK, Call \/ mqtt_disconnect_clean \/ mqtt_release_timeout
                              \/ mqtt_release_free \/ mqtt_release_zero
             PROVE  TypeOK'
  OBVIOUS
<1> USE DEF TypeOK, Go, Places, Actors, build
<1>1. CASE mqtt_lease
  BY <1>1 DEF mqtt_lease, AllBufs
<1>2. CASE mqtt_connect
  BY <1>2 DEF mqtt_connect
<1>3. CASE mqtt_disconnect
  BY <1>3 DEF mqtt_disconnect
<1>4. CASE mqtt_release
  BY <1>4 DEF mqtt_release
<1>5. CASE mqtt_disconnect_clean
  BY <1>5 DEF mqtt_disconnect_clean
<1>6. CASE mqtt_release_timeout
  BY <1>6 DEF mqtt_release_timeout
<1>7. CASE mqtt_release_free
  BY <1>7 DEF mqtt_release_free
<1>8. CASE mqtt_release_zero
  BY <1>8 DEF mqtt_release_zero
<1> QED
  BY <1>1, <1>2, <1>3, <1>4, <1>5, <1>6, <1>7, <1>8 DEF Call

\* So does a connect, whoever calls it.
LEMMA TypeConnect == ASSUME TypeOK, NEW p \in Actors, Connect(p) PROVE TypeOK'
<1> USE DEF TypeOK, Go, Return, Home, Places, Actors, build
<1>1. CASE connect_network(p)
  BY <1>1 DEF connect_network
<1>2. CASE connect_handshake(p)
  BY <1>2 DEF connect_handshake
<1>3. CASE connect_refused(p)
  BY <1>3 DEF connect_refused
<1>4. CASE connect_again(p)
  BY <1>4 DEF connect_again
<1>5. CASE platform_thread_init(p)
  BY <1>5 DEF platform_thread_init, FirstPlace, Unused
<1>6. CASE platform_thread_init_fails(p)
  BY <1>6 DEF platform_thread_init_fails, Unused
<1>7. CASE connect_assign(p)
  BY <1>7 DEF connect_assign
<1>8. CASE connect_set_state(p)
  BY <1>8 DEF connect_set_state
<1>9. CASE platform_thread_start(p)
  BY <1>9 DEF platform_thread_start, Woken
<1> QED
  BY <1>1, <1>2, <1>3, <1>4, <1>5, <1>6, <1>7, <1>8, <1>9 DEF Connect

\* And the yield thread.
LEMMA TypeThread == ASSUME TypeOK, NEW t \in Threads, mqtt_yield_thread(t) PROVE TypeOK'
<1> USE DEF TypeOK, Go, Places, Actors, build
<1>1. CASE yield_entry(t)
  BY <1>1 DEF yield_entry
<1>2. CASE platform_thread_stop(t)
  BY <1>2 DEF platform_thread_stop
<1>3. CASE mqtt_yield(t)
  <2>1. drops' \in 0..MaxDrops
    BY <1>3, MaxDropsAssumption DEF mqtt_yield
  <2> QED
    BY <1>3, <2>1 DEF mqtt_yield
<1>4. CASE mqtt_keep_alive_drop(t)
  BY <1>4 DEF mqtt_keep_alive_drop
<1>5. CASE mqtt_clean_session(t)
  BY <1>5 DEF mqtt_clean_session
<1>6. CASE yield_exit(t)
  BY <1>6 DEF yield_exit
<1>7. CASE Connect(t)
  BY <1>7, TypeConnect
<1> QED
  BY <1>1, <1>2, <1>3, <1>4, <1>5, <1>6, <1>7 DEF mqtt_yield_thread

-----------------------------------------------------------------------------
(* Every step keeps the invariant.                                         *)

\* What the steps keep besides the types.
Order == LockInv /\ ThreadInv /\ StateInv /\ BufInv /\ StartInv /\ LeaveInv /\ UbInv

\* The application's calls: nothing is freed before the state is INVALID, and
\* after mqtt_disconnect an application that does not reuse the client stays out
\* of mqtt_connect.
LEMMA LifeCalls ==
    ASSUME LifeInv, ub = "none", Call \/ mqtt_disconnect_clean \/ mqtt_release_timeout
                                   \/ mqtt_release_free \/ mqtt_release_zero
    PROVE  Order'
<1> USE ActorsAssumption
    DEF Order, Go, Actors, build,
        LifeInv, TypeOK, LockInv, AppPlaces, ThreadPlaces, Locked, ThreadInv, StateInv,
            BufInv, StartInv, LeaveInv, Connecting, UbInv, NoUseAfterFree, StartSafe
<1>1. CASE mqtt_lease
  BY <1>1 DEF mqtt_lease, AllBufs
<1>2. CASE mqtt_connect
  BY <1>2 DEF mqtt_connect
<1>3. CASE mqtt_disconnect
  BY <1>3 DEF mqtt_disconnect
<1>4. CASE mqtt_release
  BY <1>4 DEF mqtt_release
<1>5. CASE mqtt_disconnect_clean
  BY <1>5 DEF mqtt_disconnect_clean
<1>6. CASE mqtt_release_timeout
  BY <1>6 DEF mqtt_release_timeout
<1>7. CASE mqtt_release_free
  BY <1>7 DEF mqtt_release_free
<1>8. CASE mqtt_release_zero
  BY <1>8 DEF mqtt_release_zero
<1> QED
  BY <1>1, <1>2, <1>3, <1>4, <1>5, <1>6, <1>7, <1>8 DEF Call

\* A connect: the lock makes the creation of the thread and the assignment of
\* c->mqtt_thread one operation for every other connect.
LEMMA LifeConnect ==
    ASSUME LifeInv, ub = "none", NEW p \in Actors, Connect(p)
    PROVE  Order'
<1> USE ActorsAssumption
    DEF Order, Go, Return, Home, Actors, build,
        LifeInv, TypeOK, LockInv, AppPlaces, ThreadPlaces, Locked, ThreadInv, StateInv,
            BufInv, StartInv, LeaveInv, Connecting, UbInv, NoUseAfterFree, StartSafe
<1>1. CASE connect_network(p)
  BY <1>1 DEF connect_network
<1>2. CASE connect_handshake(p)
  BY <1>2 DEF connect_handshake, AllBufs
<1>3. CASE connect_refused(p)
  BY <1>3 DEF connect_refused
<1>4. CASE connect_again(p)
  BY <1>4 DEF connect_again
<1>5. CASE platform_thread_init(p)
  BY <1>5 DEF platform_thread_init, FirstPlace, Unused
<1>6. CASE platform_thread_init_fails(p)
  BY <1>6 DEF platform_thread_init_fails, Unused
<1>7. CASE connect_assign(p)
  BY <1>7 DEF connect_assign
<1>8. CASE connect_set_state(p)
  BY <1>8 DEF connect_set_state
<1>9. CASE platform_thread_start(p)
  BY <1>9 DEF platform_thread_start, Woken
<1> QED
  BY <1>1, <1>2, <1>3, <1>4, <1>5, <1>6, <1>7, <1>8, <1>9 DEF Connect

\* The yield thread: it is the only one, it has its buffers until it leaves the
\* loop, and c->mqtt_thread is its own object when it ends.
LEMMA LifeThread ==
    ASSUME LifeInv, ub = "none", NEW t \in Threads, mqtt_yield_thread(t)
    PROVE  Order'
<1> USE ActorsAssumption
    DEF Order, Go, Actors, build,
        LifeInv, TypeOK, LockInv, AppPlaces, ThreadPlaces, Locked, ThreadInv, StateInv,
            BufInv, StartInv, LeaveInv, Connecting, UbInv, NoUseAfterFree, StartSafe
<1>1. CASE yield_entry(t)
  BY <1>1 DEF yield_entry
<1>2. CASE platform_thread_stop(t)
  BY <1>2 DEF platform_thread_stop
<1>3. CASE mqtt_yield(t)
  BY <1>3 DEF mqtt_yield, AllBufs
<1>4. CASE mqtt_keep_alive_drop(t)
  BY <1>4 DEF mqtt_keep_alive_drop
<1>5. CASE mqtt_clean_session(t)
  BY <1>5 DEF mqtt_clean_session, AllBufs
<1>6. CASE yield_exit(t)
  BY <1>6 DEF yield_exit
<1>7. CASE Connect(t)
  BY <1>7, LifeConnect
<1> QED
  BY <1>1, <1>2, <1>3, <1>4, <1>5, <1>6, <1>7 DEF mqtt_yield_thread

\* Initially.
LEMMA LifeInit == Init => LifeInv
<1> SUFFICES ASSUME Init PROVE LifeInv
  OBVIOUS
<1>1. pc[App] = "start" /\ \A t \in Threads : pc[t] = "none"
  BY ActorsAssumption DEF Init, Actors
<1>2. LockInv
  BY <1>1, ActorsAssumption DEF Init, LockInv, AppPlaces, ThreadPlaces, Locked, Actors
<1>3. ThreadInv /\ StateInv /\ BufInv /\ StartInv /\ LeaveInv /\ UbInv
  BY <1>1 DEF Init, ThreadInv, StateInv, BufInv, StartInv, LeaveInv, Connecting, Locked,
              UbInv, NoUseAfterFree, StartSafe
<1> QED
  BY <1>2, <1>3, TypeInit DEF LifeInv

\* Every step keeps the whole of it.
LEMMA LifeStep == LifeInv /\ [Next]_vars => LifeInv'
<1> SUFFICES ASSUME LifeInv, [Next]_vars PROVE LifeInv'
  OBVIOUS
<1>1. CASE UNCHANGED vars
  <2>1. TypeOK'
    BY <1>1 DEF LifeInv, TypeOK, vars, build
  <2>2. LockInv' /\ ThreadInv'
    BY <1>1 DEF LifeInv, vars, build, LockInv, ThreadInv
  <2>3. StateInv' /\ BufInv'
    BY <1>1 DEF LifeInv, vars, build, StateInv, BufInv
  <2>4. StartInv' /\ LeaveInv' /\ UbInv'
    BY <1>1 DEF LifeInv, vars, build, StartInv, LeaveInv, UbInv, NoUseAfterFree, StartSafe
  <2> QED
    BY <2>1, <2>2, <2>3, <2>4 DEF LifeInv
<1>2. CASE ub = "none" /\ (Call \/ Within)
  BY <1>2, TypeCalls, TypeConnect, LifeCalls, LifeConnect DEF Within, LifeInv, Order, Actors
<1>3. CASE ub = "none" /\ \E t \in Threads : mqtt_yield_thread(t)
  BY <1>3, TypeThread, LifeThread DEF LifeInv, Order
<1> QED
  BY <1>1, <1>2, <1>3 DEF Next, Stopped

-----------------------------------------------------------------------------
(* The theorems.                                                           *)

\* Every variable of MqttLifecycle keeps its type.
THEOREM LifeTypeCorrect == Spec => []TypeOK
<1>1. LifeInv => TypeOK
  BY DEF LifeInv
<1> QED
  BY <1>1, LifeInit, LifeStep, PTL DEF Spec

\* However often the connection is lost and made again, by whichever thread, a
\* client never has two yield threads.
THEOREM OneThreadCorrect == Spec => []OneYieldThread
<1>1. LifeInv => OneYieldThread
  <2> SUFFICES ASSUME LifeInv PROVE OneYieldThread
    OBVIOUS
  <2> DEFINE running == {t \in Threads : ~Gone(t)}
  <2>1. \A t, u \in running : t = u
    BY DEF LifeInv, ThreadInv, Gone
  <2>2. CASE running = {}
    BY <2>2, FS_EmptySet DEF OneYieldThread
  <2>3. CASE running # {}
    <3>1. PICK t : running = {t}
      BY <2>1, <2>3
    <3>2. Cardinality(running) = 1
      BY <3>1, FS_Singleton
    <3> QED
      BY <3>2 DEF OneYieldThread
  <2> QED
    BY <2>2, <2>3
<1> QED
  BY <1>1, LifeInit, LifeStep, PTL DEF Spec

\* mqtt_release never frees the network object or a buffer that the yield thread
\* still uses.
THEOREM ReleaseCorrect == Spec => []NoUseAfterFree
<1>1. LifeInv => NoUseAfterFree
  BY DEF LifeInv, UbInv
<1> QED
  BY <1>1, LifeInit, LifeStep, PTL DEF Spec

\* On RT-Thread the new thread never suspends itself through a c->mqtt_thread
\* that is still NULL.
THEOREM StartCorrect == Spec => []StartSafe
<1>1. LifeInv => StartSafe
  BY DEF LifeInv, UbInv
<1> QED
  BY <1>1, LifeInit, LifeStep, PTL DEF Spec

\* On RT-Thread, for an application that does not connect again after it has
\* disconnected, a client that is CONNECTED has a yield thread that runs, and
\* neither is suspended nor about to suspend itself.
THEOREM RunningCorrect == Spec => []StartedThreadRuns
<1>1. LifeInv => StartedThreadRuns
  <2> SUFFICES ASSUME LifeInv, port = "RT-Thread", ~reuse, state = "CONNECTED", pc[App] # "startup"
               PROVE  \E t \in Threads : pc[t] = "entry" \/ Looping(t)
    BY DEF StartedThreadRuns, YieldThreadRuns
  <2>1. thread \in Threads /\ pc[thread] \in ThreadPlaces \ {"none"}
    BY DEF LifeInv, TypeOK, LockInv, ThreadInv
  <2>2. pc[thread] # "created"
    BY <2>1 DEF LifeInv, StartInv, StateInv
  <2>3. pc[thread] \notin {"stop", "suspended", "exit", "done"}
    BY <2>1 DEF LifeInv, LeaveInv
  <2> QED
    BY <2>1, <2>2, <2>3 DEF ThreadPlaces, Looping
<1> QED
  BY <1>1, LifeInit, LifeStep, PTL DEF Spec
=============================================================================
