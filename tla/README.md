# A TLA+ model of mqttclient

This directory holds TLA+ specifications of the MQTT client in `mqttclient/mqttclient.c`, the TLC
configurations that check them on small instances, and TLAPS proofs of the main results for every
instance. Paths below are relative to the root of the repository; `c:` stands for
`mqttclient/mqttclient.c`. Files are run from this directory:

    tlc -workers 2 -config pub.cfg MCMqttClient
    tlapm MqttClientProofs.tla

## 1. The system

A client is one `mqtt_client_t`. **Application threads** call the API (`mqtt_publish`,
`mqtt_subscribe`, ...). The first successful `mqtt_connect` creates the **yield thread**, which owns
the socket's reading side: it reads packets, sends pings, repeats unacknowledged packets, reconnects,
and at the end of the session frees the lists and itself.

| Component | State | Operations | Correct when |
|---|---|---|---|
| Client engine (c:) | client state, network open or not, ping flag, packet id, ack list and its count, message-handler list | publish, subscribe, unsubscribe, disconnect; one handler per packet type; keep-alive, scan, reconnect, resubscribe, clean-up | the ack list is counted right and has no duplicates; an accepted QoS 1/2 message stays recorded until acknowledged; QoS 2 is delivered once; each handler is owned once and freed once |
| Client lifecycle (c:) | client state, thread pointer, buffers, write lock | lease, connect, disconnect, release; the thread's entry, loop and end | one yield thread, running while connected; clean-up happens; nothing is freed while in use |
| Thread ports (`platform/*/platform_thread.c`) | a thread object: none, live, freed | init, startup, start, stop, destroy | as the lifecycle needs |
| Topic matching (c:414) | two cursors | the loop of `mqtt_topic_is_matched` | a match is an MQTT match |
| Reading and framing (c:190-325) | read buffer | read, decode the length, drain | a packet is read whole, or the stream stays aligned |
| Packet codec (`mqtt/`) | none | serialize, deserialize | decoding inverts encoding |
| Network (`network/`) | descriptor, TLS contexts | init, connect, read, write, disconnect, release | each descriptor is closed once |
| Intrusive list (`common/mqtt_list.*`) | links | add, delete, iterate | the list stays circular |
| Timers (`platform/*/platform_timer.c`) | a deadline | cutdown, expired, remain | monotone across wrap |
| Logging (`common/log/`) | a FIFO between threads | put, get | no entry lost or torn |
| Options, random numbers, memory and mutex ports, TLS library, examples | - | - | not part of the protocol |

Interaction. Application threads and the yield thread share all of `mqtt_client_t`.
`mqtt_write_lock` covers sending, and in `mqtt_publish`, `mqtt_subscribe` and `mqtt_unsubscribe` the
record that follows; `mqtt_global_lock` covers only single reads and writes of the state, the packet
id and the count. The lists have no lock of their own: the PUBACK, SUBACK and UNSUBACK handlers, the scan
and the clean-up change them unlocked.

What is hard here:

* the state is checked before the lock is taken and overwritten after it is released, by both kinds
  of threads, so decisions are stale when they are acted on;
* acknowledgements arrive in any order, late, twice, or before the record they are for exists;
* a timeout discards or repeats what an answer on its way will confirm;
* the packet id wraps round while old ids are outstanding; the ack list is bounded;
* a reconnect replays everything recorded while the application goes on publishing, and a connection
  may be dead long before anyone knows;
* the write buffer and the links of the lists are touched by threads that do not hold the lock;
* allocations fail in the middle of a multi-step exchange;
* the yield thread starts, ends and is freed concurrently with connect, disconnect and release, with
  thread primitives that differ by port.

`PROJECT.json` lists each as a hazard, at its line, with the properties aimed at it.

## 2. Modules

| Module | What it is |
|---|---|
| `MqttClient` | the client engine: application threads and yield thread interleaved |
| `MqttLifecycle` | lease to release, the yield thread and the ports' thread primitives |
| `MqttTopic` | `mqtt_topic_is_matched` against the definition by levels |
| `MqttReader` | `mqtt_read_packet` over a stream of bytes |
| `PacketStream` | what `mqtt_read_packet` promises; `MqttReader` implements it |
| `MqttNetwork` | `network_t`, the descriptors and the TLS objects below the client |
| `MqttSystem` | `MqttClient` composed with a broker that follows MQTT, over connections that fail |
| `Delivery` | what MQTT promises for the messages of one sender; `MqttSystem` implements it both ways |
| `MqttMemory` | the write buffer and the links of the ack list, assignment by assignment |
| `SalofFifo` | the log's ring between the threads that log and the task that prints |
| `LogQueue` | what the log promises; `SalofFifo` implements it |
| `MCMqttClient`, `MCMqttLifecycle`, `MCMqttTopic`, `MCMqttReader`, `MCMqttNetwork`, `MCMqttSystem`, `MCMqttMemory` | the instances TLC checks |
| `MqttClientProofs` | the ack list, the types and the limit on publications; repetition, tracking, QoS 2 delivery; message-handler ownership, proved |
| `MqttSystemProofs` | both deliveries, as far as safety goes, and handlers against subscriptions, proved |
| `MqttNetworkProofs` | the channel, the TLS object, the descriptors in use and their release, proved |
| `MqttLifecycleProofs` | one yield thread, its start, and what is freed when, proved |
| `MqttMemoryProofs` | the links of the ack list, proved |
| `MqttTopicProofs` | the scan against the definition by levels, proved |
| `MqttReaderProofs` | `MqttReader` implements the safety part of `PacketStream`, proved |
| `SalofFifoProofs` | `SalofFifo` implements `LogQueue`, proved |

### MqttClient

A step is what a thread runs between two points at which the other threads can see or change what it
uses. A call of the application is its unlocked state check (`mqtt_publish`, `mqtt_subscribe`,
`mqtt_unsubscribe`, with the packet to be built), then lock and send (`mqtt_publish_send`,
`mqtt_request_send`), then record and unlock (`mqtt_publish_record`, ...). The two unlocked writes at
the end of a `mqtt_publish` without room or memory are two steps (`mqtt_publish_release`,
`mqtt_publish_disconnected`), as are send and state of `mqtt_disconnect`. A packet handler of the
yield thread is one action that includes everything the handler calls, but for the callback of a
PUBLISH: its acknowledgement is on the wire before `mqtt_deliver_message` runs (c:1144, c:1153), which is
a step of its own. `mqtt_keep_alive` follows, then `mqtt_ack_list_scan`, one record a step (`todo` holds the records still to visit), then the next
read. A reconnect is `mqtt_try_reconnect`, `mqtt_reconnect_handshake` (lock taken, CONNECT sent,
CONNACK awaited), `mqtt_reconnect_done` (state set, unlock), one `mqtt_try_resubscribe` per installed
handler, and a scan of every record.

| Variable | Code |
|---|---|
| `state`, `net`, `ping`, `packetId` | `mqtt_client_state`, an open connection in `mqtt_network`, `mqtt_ping_outstanding`, `mqtt_packet_id` |
| `acks`, `ackNum` | `mqtt_ack_handler_list`, `mqtt_ack_handler_number` |
| `mem`, `installed` | the heap of `message_handlers_t`, `mqtt_msg_handler_list` |
| `u`, `y`, `todo`, `resub` | where each thread is |
| `out` | the packet the step put on the connection |
| `ub` | undefined behaviour met: the rest of the run is then unconstrained, and stops |
| `inflight`, `del2`, `early`, `refused` | history, read by no guard |

Abstractions, and why they are safe:

* The environment is the weakest possible broker: any packet with any id may arrive whenever the
  connection is open; timers may expire at any step; every send may fail. What is proved holds for
  every broker and every timing.
* A list is a set of records. Duplicates (same type and id) are possible in C only if
  `mqtt_ack_list_node_is_exist` is wrong, and a mutant that drops that test is caught by
  `AckUnique`. Whether a record appended during a scan of all records is visited is a free choice
  until the scan has left a SUBACK or UNSUBACK record behind: it destroys those it visits, so it has
  passed the tail by then (`PassedTail`).
* List operations are single steps, and the write buffer belongs to the holder of the lock. In C the
  lists have no lock, `mqtt_keep_alive` writes the buffer without it (c:1900), and the PUBREC is copied
  into its record after unlocking (c:1156): `MqttMemory` is about what that does.
* Message callbacks do not call the API. `mqtt_connect` by the application is possible only before
  the yield thread exists; after that, `MqttLifecycle` has it.
* An UNSUBACK without a record tests an uninitialised pointer (c:1094): the outcomes are "NULL" and
  undefined behaviour.
* The end of `mqtt_yield` is read as its indentation and comments intend: the comment opened at
  c:1428 is not closed, so the file as committed does not compile. The scan that follows a handled
  packet is taken from the same place.

### MqttLifecycle

`pc` says where the application thread and each thread object's thread are. `mqtt_connect` is cut at
every point where the new thread can see the difference: creation, assignment to `c->mqtt_thread`,
CONNECTED, start. `port` is chosen at the start: on RT-Thread a created thread waits for
its startup, elsewhere it runs at once; destroying frees the object on RT-Thread, deletes the calling
task (and so never returns) on FreeRTOS, only detaches on Linux. `bufs` is what `mqtt_init` allocated;
using what is missing sets `ub`. `reuse` is
whether the application connects again after a disconnect; both kinds of application are in one run. Spurious wake-ups of `pthread_cond_wait` and the TencentOS-tiny
port are not modelled.

### MqttTopic

`Init` chooses a well-formed filter and a name; each turn of the C loop is one action. `Matches` is
the MQTT definition, written over levels and independent of the scan: the n-th level lies between the
n-th cut (a separator or an end of the string) and the one before it.

### MqttReader and PacketStream

A byte knows the packet it belongs to and its part; only the bytes of a remaining length have a value.
Each action is one `network_read` with what the code does until the next one; every read may fail
after it took some bytes, as `recv` with a timeout does (TCP; the TLS reads return what they have
instead of -1). A read that fails inside a packet leaves the stream in the middle of it: `torn`. A byte
that is then taken for a length byte can decode as anything. `PacketStream` is the promise to the
caller: packets come out whole and in order, too large ones are skipped, until a read fails inside
a packet. The mapping: `pending` are the packets not read to their end, `delivered` what the buffer
held at each successful return, `sync` is `~torn`.

### MqttNetwork

| Variable | Code |
|---|---|
| `socket`, `channel`, `tls` | `n->socket`, `n->channel`, `n->nettype_tls_params` |
| `owner` | the descriptors of the process: the client's, the rest of the program's, free |
| `heap` | the `nettype_tls_params_t` objects, each with the descriptor in it |
| `app`, `thread`, `conn` | where the application, the yield thread and `mqtt_connect_with_results` are |
| `rel`, `fd` | where each thread is in `network_release` or `network_disconnect`, and the number it is about to close |

One application thread and the yield thread; the application calls `mqtt_connect` until it succeeds,
publishes, and disconnects once (`MqttLifecycle` has connecting again). A new descriptor is the lowest
free one, as POSIX has it, so a number that was closed comes back as another file. `network_t` has no
lock: the test of `n->socket`, the choice of the channel, `close`, the assignment of -1 and the `memset`
of `network_release`, and the assignments of `network_init` and `network_set_ca`, are steps of their own
in each thread (`rel`, `fd`, `conn`). `overlap` is history: one thread has entered while the other was
inside. Linux sockets;
`mbedtls_net_connect` and `mbedtls_net_free` are those of `network/mbedtls/wrapper`.

### MqttSystem and Delivery

The actions of `MqttClient` with their environment made concrete. A packet in `out` joins `toBroker`,
what a handler reads is the head of `toClient`; the broker answers every packet as MQTT 3.1.1 says,
keeps one message under way to the client and uses one packet id again and again, which is the hard
case for `mqtt_ack_list_node_is_exist`. On a new connection it repeats what it has not had confirmed
(`Resume`); with `CleanSession` it forgets its session. `link` is the broker's end of the connection:
`Cut` kills it and tells nobody, as a lost mobile network does. `none` is a connection on which
CONNECT has not come: another packet makes the broker close it.

A *fault* is a cut, a send or connect that fails, or a timer that expires with packets still under way
(`Timely`); a run has at most `MaxFaults` of them, anywhere. In between, time passes only when nothing
is under way: without that, a client whose every timer expires too early never gets anywhere, and no
liveness holds. Records of requests have the same timeout and expire in the order they were made
(`InOrder`).

`Delivery` is the promise to a user of MQTT: at QoS 1 at least once, at QoS 2 exactly once, nothing
forgotten before it arrived. It is implemented twice. For the messages the application publishes,
`accepted` are those `mqtt_publish` recorded, `got` counts what the broker passed on, and `confirmed`
those with no exchange left; weak fairness of each message's delivery and end is part of it. For the
broker's messages, `got` counts what `mqtt_deliver_message` has passed on, `confirmed` what the broker was told, but
for the message that is in the hands of `mqtt_deliver_message` at the moment (`hand`): the code acknowledges first
and calls back after (c:1144, c:1153; c:1157 for QoS 2). The application has an interceptor or a handler for the
topic; without one `mqtt_deliver_message` drops the message (c:508-520). Safety only, for
the reason given in the module.

### MqttMemory

The packets of `MqttClient` become bytes in one buffer: two parts, the first two bytes and the rest. A
thread takes the lock, serializes, sends (the buffer is being read as long as it is at `send`),
records. The ack list is `next` and `prev` at each address; `_mqtt_list_add` is four steps,
`_mqtt_list_del` its arguments, two steps and `free`, `LIST_FOR_EACH_SAFE` one step a turn. The yield
thread's three walks (`mqtt_ack_list_scan`, `mqtt_ack_list_unrecord`, `mqtt_clean_session`) are one
walk that may skip, repeat or destroy each record. Pointer assignments are seen in program order.
The message-handler list uses the same functions and has the same writers.

### SalofFifo and LogQueue

A byte is named by the thread whose text it is. `salof` formats into the one static buffer without a
lock, so the bytes a thread writes may be another's; the mutex, the free space, the two copies, the
counter and the semaphore are a step each, on the reading side too. Counters have `Width` bits. `waits`
is the port: on Linux the mutex and the semaphore wait for ever, on the others the mutex may time out
and the semaphore, asked with timeout 0, never waits. `LogQueue` is a queue of bytes; the mapping is
the bytes between the counters.

## 3. Runs

State counts and times are for two workers.

| Run | Instance | Properties | States |
|---|---|---|---|
| publish | one thread, one message at QoS 0/1/2, incoming QoS 2, 2 ids, 2 records | `TypeOK` `AckCount` `PublishTracked` `NoResendAfterAck` `DeliveredOnce` | 2.8 M, 58 s |
| threads | two threads, two messages at QoS 1/2, 2 ids, 1 record | `PublishWindow` `Qos2RecordedFirst` | 1.1 M, 23 s |
| subscribe | one thread, two topics, three handler addresses, answers 0 and 0x80, allocations fail | `AckUnique` `NoUseAfterFree` `HandlerOwnership` `OneHandlerPerTopic` | 1.3 M, 37 s |
| lifecycle | Linux, FreeRTOS and RT-Thread, 3 lost connections, buffers may be missing, thread creation fails, with and without connecting again | `TypeOK` `OneYieldThread` `StartedThreadRuns` `StartSafe` `NoUseAfterFree` `CleanUp` | 13 k |
| topic | filters up to 4 characters, names up to 5, two letters | `TypeOK` `MatchAgrees` `MatchSound` | 164 k |
| reader | three packets of six lengths, buffer of 5, two-valued length bytes, two failing reads | `TypeOK` `Aligned` `ReadsPackets` | 614 k, 18 s |
| network | five descriptors, three TLS objects, TCP and TLS | `TypeOK` `NoStaleDescriptor` `NoLeak` `ClosedAtEnd` `EncryptedOnly` `TlsObjectLive` | 1.3 M, 27 s |
| system | one thread, two messages out and two in at QoS 1/2, two of them in a run, or three requests on one topic; two faults | `HandlersHeard` `OutboundDelivery` `InboundDelivery` `SessionResumes` | 714 k, 103 s |
| memory | two application threads, three record addresses | `ListSafe` | 283 k, 6 s |
| log | two threads, entries of 1 or 2 bytes, a ring of 4 (5 asked for), 3-bit counters | `RingIsQueue` `NothingStuck` | 735 k, 50 s |

What the properties say:

* `AckCount`, `AckUnique`: the counter is the length of the list, and an acknowledgement names one
  record, through every thread, failure and timeout.
* `PublishTracked`: an accepted QoS 1/2 publication has exactly the record the exchange needs next
  (PUBACK or PUBREC with the DUP packet, then PUBCOMP with the PUBREL) until it is complete.
* `NoResendAfterAck`: a PUBLISH with DUP on the wire is for a publication whose PUBACK or PUBREC has
  not been processed since it was recorded.
* `Qos2RecordedFirst`: the PUBREC of a QoS 2 publication is never processed between its send and its
  record. The lock makes the difference: for QoS 1 it does not hold (observations).
* `DeliveredOnce`: one delivery per QoS 2 id until its PUBREL, however often it is repeated.
* `PublishWindow`: the limit on publications waiting for their first answer is kept although it is
  tested before the record is made. It does not bound the list: SUBACK, UNSUBACK, PUBREL and PUBCOMP
  records are not tested.
* `NoUseAfterFree`, `HandlerOwnership`, `OneHandlerPerTopic`: no handler is freed twice; the handler
  of a SUBACK record is its own and not installed; a topic has one handler. Under
  `OverlappingUnsub = FALSE`: the application does not unsubscribe from a topic twice at the same
  time (observations for the rest).
* `OneYieldThread`, `StartedThreadRuns`, `StartSafe`, `CleanUp`: see the comments in the
  module, which also name the port each is about. `CleanUp` is a liveness property: once the thread loops and the state is CLEAN_SESSION, the
  session is cleaned or the connection was lost in between.
* `MatchSound`, `MatchAgrees`: a match reported by the scan is an MQTT match; for names without empty levels, and
  other than the bare parent of a `#`, the scan is exact.
* `Aligned`, `ReadsPackets`: while no read fails inside a packet, each `mqtt_read_packet` starts at the
  first byte of a packet, also after one that was drained in several reads, and the reader implements
  `PacketStream`, liveness included. `TypeOK` bounds the reads of a drain even after failures.
* `NoStaleDescriptor`: unless the two threads have been inside `network.c` at once, a thread about to close
  a positive number closes the client's own descriptor, and a positive `n->socket` is open and the
  client's, except between `close` and the assignment of -1. A publication may fail and release the network at
  any other moment. What happens when both are inside, and with the 0 that the `memset` leaves, are
  the first observations below. No TLS object ever holds a descriptor that is not the client's.
* `NoLeak`, `ClosedAtEnd`: a TCP client holds its connection's descriptor and no other, and none after
  the clean-up, unless a publication failed to be recorded (observations).
* `EncryptedOnly`: a client with a certificate connects, reads, writes and disconnects over TLS. In the
  middle of `network_init` the channel is plain for a moment (network.c:64, then :97), and the
  application may call `mqtt_disconnect` just then: nothing goes out, because `n->socket`, which a plain
  write would use, is -1 from the first connect on. That is the second half of the property.
* `TlsObjectLive`: the TLS object in use exists. Both rest on `n->socket` being -1 for TLS, the same fact that
  makes `network_release` do nothing for it (finding `f_tls`): repairing one must keep the others.

* `OutboundDelivery`: every message `mqtt_publish` recorded is passed on by the broker, at QoS 2 exactly
  once, and its exchange ends, with acknowledgements before the record, timeouts that repeat what is
  under way, exchanges cut in half, and replay after a reconnect. Under `CleanSession = FALSE`
  (observations).
* `InboundDelivery`: a message that the broker was told of has been passed to the application, or is the one in
  the hands of `mqtt_deliver_message`; at QoS 2 it is passed on at most once, although the broker uses the id
  again at once. That the moment between acknowledgement and callback is real TLC shows: without the
  exception for `hand` the property is violated.
* `SessionResumes`: a connection that died unnoticed is given up after an unanswered ping, and a session
  opens again.
* `HandlersHeard`: an installed message handler is subscribed at the broker, or about to be removed.
  Refusals, late answers, timeouts and the resubscription after a reconnect all take part. The
  application unsubscribes only from topics whose handler is installed (observations).
* `ListSafe`: at every moment the chain from the head returns to it through allocated records and has
  every record on it, walks included, unless two threads append at once (the PUBREC record has no
  lock), a record is appended while the last one is unlinked, or one is freed under another walk.
  All three can happen, and for the first two TLC finds the chain broken when they are not excepted. The rest is
  safe because `_mqtt_list_add` sets the links of the new node before the one that leads to it.
* `RingIsQueue`, `NothingStuck`: see the module. The first rests on the ring's size being a power of
  two, the second on one post for each entry and a read buffer as long as the longest entry.

Every property has a mutant in `PROJECT.json`: a plausible bug in one definition under which TLC
finds the property violated.

Bounds. Two packet ids are the fewest with which an old id is still outstanding when the counter
wraps; one record is the fewest with which the limit is hit by a second publication. Two threads are
what the write lock separates. Two topics and three handler addresses allow a
subscription, a resubscription of the same topic and another topic at the same time. Three lost
connections allow a loss before, during and after a reconnect. Four filter characters hold `a/+/`,
`+/+`, `a/#`; five name characters hold an empty level in any position.
The lengths of `reader` are no body, a one-byte length, an exact fit, one too large, and what needs one
full read, or one and a rest, to drain; two failures allow one to be answered by another. Five
descriptors allow the standard input, a connection, a leaked one and files of the program. `system` with two messages has both
in the same direction, or one each way, or one and a request; two faults allow a cut and a failure while
recovering from it. Packet ids do not wrap there (8 of them, never all used); `publish` and `subscribe`
have that. Two application threads are enough for `memory`, as the lock admits one application thread to the list at a time; three
records have a first, a middle and a last. A ring of 4 with entries of 2 is filled by two entries, and
a third finds no room; the counters wrap at twice the ring. The run
`publish` has no failing allocations (they break `PublishTracked`); the theorems without
`~AllocMayFail` cover them. The proofs remove
the bounds altogether on `MqttClient`, `MqttLifecycle`, `MqttNetwork`, `MqttMemory`, `MqttTopic`, the ring of
`SalofFifo` and, but for liveness, `MqttReader` and `MqttSystem`.

Symmetry is used over handler addresses (`subscribe`), threads and messages (`threads`), threads and
record addresses (`memory`): all are only compared for equality, and those runs check no liveness.

Deadlock is checked everywhere but in `memory`, whose behaviours end where the list is damaged: a
finished session, or undefined behaviour, stutters explicitly.

Fairness. `MqttClient` assumes none; its properties are safety properties. `MqttLifecycle` assumes weak
fairness of the yield thread and of the application inside a library call, which a preemptive kernel
with both threads runnable gives; it does not assume that the application ever calls anything.
`MqttReader` assumes that the bytes sent arrive and that the yield thread goes on reading, which its loop
does as long as it is connected; `MqttNetwork` and `MqttMemory` assume nothing. `MqttSystem` assumes weak
fairness of the yield thread, of the broker's reading side and of a thread inside a call; nobody has to call or
to send anything. That timers do expire is part of the yield thread's fairness: when nothing is under way
`mqtt_keep_alive` has no other step. `SalofFifo` assumes it of the task and of a thread inside `salof`.

### Findings

Runs that TLC refutes, each against a sentence of the repository quoted in `PROJECT.json`:

* `f_start` (`YieldThreadRuns`): on Linux the new thread may read the state before it is set and
  miss its wake-up.
* `f_tls` (`ReleasedWhenDisconnected`): a lost TLS connection is not closed, because `network_release`
  looks at `n->socket`, which TLS does not use.

### Observations

Met while modelling; each follows from the lines given, and no run is kept for it. Where a definition is
named, TLC refutes it in seconds when it is added to the run's configuration.

* `network/network.c:78` (`ClosesOnlyOwn`, run `network`): the `memset` of `network_release` leaves
  `n->socket` at 0, and the disconnect of the clean-up (c:1484) after a lost connection closes descriptor 0,
  the standard input of the program. `mqtt_disconnect` writes its packet there before.
* c:2314 (`ThreadsCloseOwn`, run `network`): a failing publication and the yield thread (c:1484, c:1894) both
  pass the test of `network_release`, and the second `close` hits a file that got the number in between;
  c:12 promises thread safety.
* c:1506 (`FreedOnce`, run `lifecycle`): `platform/RT-Thread/platform_thread.c:62` frees the thread object,
  and the end of `mqtt_yield_thread` frees it again.
* `mqtt/MQTTPacket.c:139` (`RefusedNotInstalled`, run `subscribe` with `CharSigned = TRUE`): `readChar`
  returns a plain `char`, so the code 0x80 is never equal to `SUBFAIL` where that is signed, as on x86 Linux
  (`CMakeLists.txt` has no `-funsigned-char`): a refused subscription is installed, which breaks
  `HandlersHeard` too.
* c:1900 (`SendsOwnPacket`, run `memory`): a PINGREQ is serialized, without the lock, over the first two bytes of the
  packet that another thread is sending or recording, and the two bytes it sends may be those of another packet.
* c:1156 (`RecordsOwnPacket`, run `memory`): the record of an answered QoS 2 PUBLISH is copied from the
  buffer after the lock was given back, and may hold, and repeat, the beginning of another thread's packet.

* c:1109: two overlapping unsubscribes of a topic record the same handler twice, and it is freed twice
  (`OverlappingUnsub = TRUE` violates `NoUseAfterFree`).
* c:867: a SUBSCRIBE whose SUBACK is late is dropped with its handler; the comment at c:2134 promises
  that it is sent again.
* c:934: the records of a resubscription are made just before the scan that, with flag 0, destroys every SUBACK
  and UNSUBACK record; the answers then meet no record. The installed handlers stay.
* c:932: a topic whose UNSUBACK was lost with the connection is resubscribed, and the scan then removes its handler:
  the broker goes on sending.
* c:2188: an unsubscribe from a topic that is not installed, a subscription still waiting for its SUBACK
  included, is sent but not recorded; its UNSUBACK meets no record (c:1094), and the late SUBACK installs
  a handler the broker has no subscription for.
* c:1589: with `mqtt_set_clean_session(1)` the client still replays PUBLISH and PUBREL into the broker's
  new session, and a QoS 2 message is passed on twice (`CleanSession = TRUE` violates `OutboundDelivery`).
* c:1144: a PUBACK or PUBREC that fails to be sent does not drop the connection; the message waits for the broker to repeat
  it, which it does only on a new connection.
* c:2253: a call that passed its state check may send on a fresh connection before CONNECT, and the broker
  closes it.
* c:1144: at QoS 1 the PUBACK is sent before the callback runs (c:1153), and at QoS 2 the PUBREC before the
  record and the callback (c:1157): an application that stops in between has lost the message.
  c:508: a message without a matching handler or an interceptor is acknowledged and dropped.
* `common/log/salof.c:66`: the format buffer is shared without a lock, so entries of two threads may mix.
  `common/log/arch/linux/arch.c:112`: a full read leaves `_out_buff` without a terminating zero, and
  `fputs` reads on. `common/log/fifo.c:128`: `salof_fifo_read_able` is wrong once `in` has wrapped; it has no caller.
* c:1051: the PUBACK handler does not take the write lock; a PUBACK processed between the send and the
  record of a QoS 1 publication finds nothing to remove, and the message is published again.
* c:2052: CLEAN_SESSION, set after unlocking, is overwritten unconditionally by a failing publication
  (c:2317), a lost ping (c:1896) or a reconnect, and the client connects again.
* c:238: a failed read of a drain counts as -1 byte; the drain then goes on and reads that much too far, into
  the next packet. c:207: the length read so far is used after a failed read. Neither drops the connection.
* c:2317: between the release and the state the yield thread may drop the connection and reconnect; the new
  descriptor is then overwritten by the next reconnect and never closed.
* `network/nettype_tls.c:168`: a failed handshake frees the object without closing its descriptor.
* c:174: a wrapped packet id may equal one that is outstanding; for the same type the second message
  is then sent but not recorded (`mqtt_publish_record`, first disjunct).
* c:2135: when the record of a SUBSCRIBE fails, its handler is never freed.
* c:997: when the PUBCOMP record cannot be allocated the PUBREC record is dropped all the same;
  c:1156: when the PUBREL record cannot be allocated the message is delivered all the same. Hence
  `~AllocMayFail` in six of the theorems.
* c:800: a call that passed its state check records after `mqtt_clean_session` emptied the list.
* c:1501: the thread pointer outlives its object, so a connect after a disconnect starts no thread;
  or it is zeroed by `mqtt_release` first, and the object is never freed.
* c:1466: a disconnect between a connect and the first run of the yield thread makes it suspend
  itself for ever.
* c:1967: `mqtt_release` of a client without a yield thread always times out.
* c:1802: the results of the buffer allocations are ignored.
* `platform/linux/platform_thread.c:27`: after a failed creation the freed object is written and
  returned.
  `platform/FreeRTOS/platform_thread.c:54`: the calling task is deleted, and nothing after is reached.
* c:422: a `+` does not match an empty level, and `a/#` does not match `a`.

## 4. Theorems

Every theorem is `Spec => []P`, or `Spec => P` for the refinements, for all values of the constants that
satisfy the ASSUMEs of the module and the extra assumption of the table. An extra assumption with `[]` is about
the behaviour and stands left of the arrow. The ASSUMEs: NULL is none of the model values and no packet,
no letter is a separator or a wildcard, sets of addresses are finite, bounds are naturals, the length base
is at least 2, the read buffer is longer than the length field, the counters of the log can count the ring.

| Theorem | States | Extra assumption | Invariant |
|---|---|---|---|
| **MqttClient** | | | |
| `AckListCorrect` | `AckCount` | none | `ListInv` |
| `AckUniqueCorrect` | `AckUnique` | none | `ListInv` |
| `TypeCorrect` | `TypeOK` | none | `TypeInv` with `ListInv` |
| `WindowCorrect` | `PublishWindow` | none | `WindowInv` with `ListInv` |
| `ResendCorrect` | `NoResendAfterAck` | none | `ResendInv` |
| `TrackingCorrect` | `PublishTracked` | `~AllocMayFail` | `TrackInv` |
| `RecordedFirstCorrect` | `Qos2RecordedFirst` | none | `EarlyInv` with `ResendInv` |
| `DeliveryCorrect` | `DeliveredOnce` | `~AllocMayFail` | `DeliveryInv` |
| `NoDoubleFree` | `NoUseAfterFree` | `~OverlappingUnsub` | `HandlerInv` |
| `OwnershipCorrect` | `HandlerOwnership` | `~OverlappingUnsub` | `HandlerInv` |
| `OneHandlerCorrect` | `OneHandlerPerTopic` | `~OverlappingUnsub` | `HandlerInv` |
| **MqttSystem** | | | |
| `InboundCorrect` | `InboundDelivery` | `~AllocMayFail`, `~CleanSession` | `InInv` |
| `HeardCorrect` | `HandlersHeard` | `~AllocMayFail`, `~CleanSession`, `~CharSigned`, `~OverlappingUnsub`, `[]NoWrap` | `HeardInv` with `InInv`, `HandlerInv` |
| `OutboundCorrect` | the safety part of `OutboundDelivery` | `~AllocMayFail`, `~CleanSession`, no QoS 0, `[]IdFree` | `OutInv` with `InInv`, `TrackInv`, `ResendInv`, `WindowInv` |
| `IdsStayFree` | `IdFree` | `~AllocMayFail`, `~CleanSession`, `[]NoWrap` | `UsedInv` with the same |
| **MqttLifecycle** | | | |
| `LifeTypeCorrect` | `TypeOK` | none | `LifeInv` |
| `OneThreadCorrect` | `OneYieldThread` | none | `LifeInv` |
| `ReleaseCorrect` | `NoUseAfterFree` | none | `LifeInv` |
| `StartCorrect` | `StartSafe` | none | `LifeInv` |
| `RunningCorrect` | `StartedThreadRuns` | none | `LifeInv` |
| **MqttNetwork** | | | |
| `EncryptionCorrect` | `EncryptedOnly` | none | `NetInv` |
| `ObjectCorrect` | `TlsObjectLive` | none | `NetInv` |
| `DescriptorCorrect` | `NoStaleDescriptor` | none | `StaleInv`, `MeetInv` with `NetInv` |
| `NetTypeCorrect` | `TypeOK` | none | `NetInv` |
| `LeakCorrect` | `NoLeak` | none | `LeakInv`, `RaceInv` with `NetInv` |
| `CleanUpCorrect` | `ClosedAtEnd` | none | the same |
| **MqttMemory** | | | |
| `ListCorrect` | `ListSafe` | none | `ListInv` with `MemInv` |
| **MqttTopic** | | | |
| `TopicTypeCorrect` | `TypeOK` | none | `ScanInv` |
| `MatchSoundCorrect` | `MatchSound` | none | `ScanInv` |
| `MatchAgreesCorrect` | `MatchAgrees` | none | `ScanInv` |
| **MqttReader** | | | |
| `ReaderTypeCorrect` | `TypeOK` | none | `ReadInv` |
| `AlignedCorrect` | `Aligned` | none | `ReadInv` |
| `PacketsCorrect` | the safety part of `ReadsPackets` | none | `ReadInv` |
| **SalofFifo** | | | |
| `RingCorrect` | `RingIsQueue` | none | `RingInv` |

The arguments:

* `ListInv` (of the client) adds to the two properties that the list is finite, that the records a scan has still to
  visit are on it, and that there are none outside a scan. Without the last two, a scan could destroy
  a record that is gone and subtract it again; without uniqueness, one acknowledgement could remove
  two records and the count would have to follow.
* `TypeInv` adds what the code relies on without saying so: which packet a call holds at which point
  (`CallShape`) and that exactly the SUBACK and UNSUBACK records have a handler (`RecordShape`).
* `WindowInv`: only one call is between send and record, and while a publication is there, the list has room
  for its record. The limit alone is not inductive, since it is tested before the send.
* `ResendInv`: the payload of a record fits its type and, for PUBACK and PUBREC, is the DUP packet of
  an unfinished publication (`PayloadShape`); packets of calls in progress never have DUP
  (`FirstSends`).
* `TrackInv` is `PublishTracked` with "only QoS 2 publications are released". The PUBREC handler
  must add the PUBCOMP record before it may drop the other: this is where a failed allocation breaks it.
* `EarlyInv`: only QoS 1 publications are ever acknowledged before their record, because
  the PUBREC handler needs the lock that the publisher holds.
* `DeliveryInv`: an id delivered since its last PUBREL has a PUBREL record.
* `HandlerInv`: while nothing undefined has happened, installed handlers are allocated, one per topic;
  a SUBACK record owns its handler alone; an UNSUBACK record's handler is installed, for its topic,
  and no second record or call in progress unsubscribes from that topic (`UnsubDisjoint`); what is
  still to be resubscribed is installed.
* `InInv`: every step of the system is one of the client, so the client's invariants hold here too
  (`ClientStep`). For a message of the broker, `Exchange` relates four things: what the broker awaits, whether
  the client keeps the id (`Held`), how often the application has got it once `mqtt_deliver_message` returns
  (`Passed`), and which answers are on their way in which order. `HandInv` is about the message in hand: the thread is in
  `mqtt_deliver_message`, and a QoS 2 message there has not been delivered before.
  The order is what makes the one id safe: a PUBREL or PUBCOMP of the last message may still be under way when
  the next one starts, but ahead of what belongs to that.
* `HeardInv`: requests are known by their ids, and those grow (`OrderInv`, `InTurn`, `Rising`). `Agree`
  says of every installed topic that the broker has it or an UNSUBSCRIBE for it is going; of every
  UNSUBSCRIBE on its way that the client still knows of it, or that its topic has no handler and no older
  SUBSCRIBE of it is waited for; of every SUBACK on its way that its topic is subscribed, or a later
  UNSUBSCRIBE is going. The last two fail if a scan gives up a later request before an earlier one, or an id
  comes again: hence `InOrder` in the model and `NoWrap` in the theorem.
* `OutInv`: a message of the application leaves traces, and `Kept` says how they fit: the PUBLISH packets on their way, the
  publication the client will repeat or is about to record, the one whose PUBREC has come, the ids
  the broker keeps, the ids of PUBACK and PUBREC packets on their way back, of PUBREL packets and of PUBCOMP
  records. Traces have the same id exactly if they are of the same message. A QoS 2 message that may still be
  sent was not passed on, or the broker keeps its id; an id that the client was told of is of a message
  that was passed on. A PUBREL never overtakes its PUBLISH (`Behind`), and none is under way while the client still
  repeats the PUBLISH: otherwise the broker would forget the id and pass the message on twice.
* `UsedInv`: every id in use is at most the last one given out; a step adds no other than that one.
* `LifeInv`: a thread object, once created, is the only one there will be, because `c->mqtt_thread` is NULL only before
  the first creation and after the `memset` of `mqtt_release`, when no connect follows (`ThreadInv`); the
  state is INVALID only before the lease and after the thread's clean-up (`StateInv`), so that
  `mqtt_release`, which waits for INVALID, frees what nobody uses (`BufInv`); the write lock is held from
  CONNECT to the end of `mqtt_connect` (`LockInv`). On RT-Thread the thread cannot run before the state
  is set (`StartInv`), and it stops only when the application has left (`LeaveInv`).
* `NetInv`: where the two threads are when `mqtt_connect` runs (`ThreadShape`); a TLS client has
  `n->socket` = -1 from its first `network_init` on, so that no release touches it (`ChannelInv`); from
  the first successful connect to the clean-up there is a TLS object (`ObjectInv`).
* `StaleInv`: until the threads overlap, one of them at most is inside (`MeetInv`), and the number it read and
  is about to close is still `n->socket`; so nobody else closes or replaces it in between.
* `LeakInv`: wherever a connect may begin, and after the clean-up, a TCP client has no descriptor at all;
  otherwise `network_init`, which forgets `n->socket`, would leak it. `RaceInv` says that a publication
  that failed has marked the run.
* `MemInv`: which call each thread can be in at which place and which pointers it is about to follow
  (`JobInv`, `PointerInv`). The write lock plays no part: it does not cover the list.
* `ListInv` (of the memory): unless an overlap has happened there are a set `S` of linked records, the
  predecessor `q` of each, and a rank `r` that grows along `next` (`Linked`). The rank makes the ring
  single: a walk that never met the head would pass through infinitely many ranks. `prev` is not
  simply the inverse of `next` in the middle of `_mqtt_list_add` and `_mqtt_list_del`, so the invariant names
  the one pointer that may be ahead (`AddInv`, `PrevInv`), where the walk stands (`WalkInv`) and who owns a record that is
  allocated and not linked (`OwnerInv`). That the chain reaches every record follows from a count: the
  positions before the return are distinct, hence no more than the records.
* `ScanInv`: the cursors are in levels of the same number, the levels before them are covered one by one, and
  what was read of the present ones is equal, or a `+` with the name's cursor at the end of its level
  (`Reached`); or a `#` has taken the rest (`Hashed`). Soundness is this invariant at both ends of the strings.
  For completeness a stop anywhere else is refuted (`StopsAtEnd`): inside a covered level, at a `#`, or at a pair of cuts
  of which only one is an end; the first two need that no level of the name is empty, the third that the name is
  not the parent of the `#`. That no letter is a wildcard or a separator is the only assumption.
* `ReadInv`: whatever has failed, the value decoded is below the multiplier and a drain has bytes left
  (`RangeInv`); while nothing has, the wire is the rest of the packet being read followed by the packets after it, and the
  length is what the bytes read say plus what the remaining digits will, times the multiplier (`StreamInv`).
  That a fifth length byte is never asked for, and that no digit is lost or counted twice, are
  consequences. The steps then are the abstract ones (`Effect`): deliver, skip, or nothing.
* `RingInv`: the writer that holds the mutex has its room (`RoomInv`) although the reader moves `out` without any lock, since
  reading only makes room; the task has copied the oldest bytes (`CopyInv`) although writers go on, since
  they write elsewhere. Both need that the counters, modulo their width, give the place in a ring whose size is a power of two.

Why `MqttSystem` needs its assumptions. A clean session and failed allocations break the deliveries,
a signed `char` and overlapping unsubscribes the handlers (observations). Both first ones break
`HandlersHeard` too: a new session has no subscriptions until the client has made them again, and an UNSUBSCRIBE that
could not be recorded ends the subscription and leaves the handler. The broker of the model
has no answer to QoS 0. `IdFree` says that the id `mqtt_publish` takes next is in no record of a publication, not at
the broker and not on its way; an id that is taken again while a message still uses it (c:174) makes two
messages one. `NoWrap` says that the packet id has not reached its maximum; `IdsStayFree` derives `IdFree`
from it, but `OutboundCorrect` also covers clients that wrap round and do not meet an id in use. Both
hold in every state of the run `system`.

Three modules define functions by recursion (the multiplier, the encoding and the stream of `MqttReader`, the chain of
`MqttMemory`, the powers of two of `SalofFifo`). What such a function computes is proved without an induction rule, which the
provers cannot instantiate: the set of counterexamples, if it is not empty, has a least element
(`LeastNat`), and the definition gives a smaller one.

Only model-checked, being out of the prover's reach: liveness under fairness (`CleanUp`, `SessionResumes`, `NothingStuck`, the
fairness of `ReadsPackets` and of `OutboundDelivery`), and ENABLED. Every other property of a passing run is the
statement of a theorem.

## 5. Not modelled

* Vendored mbed TLS (`network/mbedtls`), which is more than nine tenths of the lines of the repository and no
  part of its own logic: the modules cover most of what `mqttclient.c`, `network/*.c` and the list and log do,
  and still a small share of all lines.
* The server side of the Paho codec, examples, options: no part of the protocol.
* Durations: a timer expires at any step, or in `MqttSystem` when nothing is under way; no bound on when
  something happens is stated.
* The packet codec's bytes, but for lengths and the return code of a SUBACK; the formatting of log entries.
* Partial writes and the retry loops inside the TLS reads and writes; ports' sockets other than Linux.
* Weak memory: assignments are seen in program order.

## 6. Plan

Done: the modules of section 2; the proofs of section 4.

Next: the packet codec's lengths against the buffer, the timers' wrap-around; `HandlersHeard` for ids
that wrap round but are not reused while a request is open.

## 7. Reading PROJECT.json

`map` ties each definition to the lines it stands for, `hazards` each line that is hard to test to the
properties aimed at it, `mutants` each property to a bug it catches.

## 8. Known gaps

Hazards without a property are those whose outcome is known and listed under observations; the note of a
hazard says which part of it a property leaves out. The count of the ack list and the list itself change in one step
of `MqttClient` (c:658, c:660). `MqttReader` has the short reads of TCP, not those of TLS. `ListSafe`
is about the ack list; the message-handler list is shared in the same way but walked by `mqtt_deliver_message`
too. The run `system` has one topic and one application thread; the theorems about it are for any number, with a
broker that has one message under way at a time.
