# Verification of the Exosite Ready SDK (er_sdk)

The SDK connects a device to the Exosite server: it obtains the time, activates
the device (which yields the CIK, its credential), then reads, writes and
subscribes to data sources over HTTP or CoAP.  This directory models the core of
it in TLA+, checks it with TLC and proves theorems about it with TLAPS.
Paths below are relative to the repository.

## The system

One thread, the periodic callback thread of `src/lib/pclb.c`, calls every 10 ms
what was registered: `activate_sm` (`src/exosite_api.c`), one
`protocol_client_sm_task` per state machine (`src/protocol_client_sm.c`),
`rtc_periodic` and, if started, the configurator server.  Without threads the
application polls the same function.  User threads only call
`exosite_read`, `exosite_write`, `exosite_subscribe` and `exosite_get_status`.

| Component | State | Operations | Hard behaviour | What makes it correct |
|---|---|---|---|---|
| Protocol client state machine, `src/protocol_client_sm.c` | transfer queue, active request, sent list and its count, socket, retry and failure counters, abort flag; shared: connect token, static `start_time` | `_transmit`, `_clear`, `_is_empty`, `_task` | network outcomes in any order, timeouts, aborts, several completions in one call, machines that exclude each other while connecting | every request is called back and freed exactly once, responses go to the right request, nobody waits for ever |
| Exosite API, `src/exosite_api.c` | activation state, request queue, subscription map, list of machines, event "CIK not valid" | `activate_sm`, `exosite_read/write/subscribe`, callbacks | answers and aborts arriving in every activation state, reactivation while requests are in flight | never waits for an answer that cannot come, mixes nothing of two activations, keeps subscriptions alive |
| Periodic callbacks, `src/lib/pclb.c` | running list, shadow list, ids, count | register, unregister, task | register and unregister against the running thread | a callback runs only while registered |
| Concurrent queue, `src/lib/concurrent_queue.c` | queue, limit, mutex | push, pop, peek | user thread against callback thread | bounded FIFO |
| Dictionary, `src/lib/tdictionary.c` | binary tree with parents | add, lookup, iterate | insertion during an iteration, no lock | every alias that was there is visited once |
| Configurator server, `src/configurator_server.c` | listener, two client slots, parser, settings | task, start, stop | slots at their limit, partial sends, parser errors | slots are given back, answers go to whom they concern |
| Buffers, `src/lib/{cbuffer,ts_cbuffer,tcp_buffer,packet_buffer}.c` | rings | push, pop, free, used | full against empty, interrupt against thread | FIFO without loss below the limit |
| Clients, `src/protocol_clients/*` | parser and TLS handshake state | send, receive | partial messages | one message in, one out |
| Server APIs, `src/server_api/*` | none | compose a request, classify a response | code tables | a refused CIK is recognised |
| Heap manager, `src/lib/{heap_manager,hs_mem,heap_tracker,mem_check}.c` | heaps, chunk lists | alloc, realloc, free | shared static variables | every chunk tracked once |
| Clock, `src/rtc.c`, `src/system_utils.c` | seconds, last system time | set, get, periodic | wrap-around, residue | no second lost |
| Ports, `porting/*` | sockets, mutexes, threads | the porting interfaces | event loops of uIP and Atheros | the port contract |

`PROJECT.json` lists each part with its status, and the hazards line by line.

## Modules

    RequestPort      what exosite_api.c relies on (abstract)
      ^ implements   ^ extends
    PcSm             ExositeApi
      ^ MCPcSm, PcSmProofs      ^ MCExositeApi, ExositeApiProofs
                ^ PcSmOwnership
                ^ PcSmPort

    Dictionary              Cbuffer
      ^ extends               ^ extends
    CallbackThread          UipSocket          ConfiguratorServer
      ^ MCCallbackThread      ^ MCUipSocket      ^ MCConfiguratorServer
      ^ CallbackThreadProofs  ^ UipSocketProofs    ^ ConfiguratorServerProofs

(`CbufferProofs` extends `Cbuffer`, and `UipSocketProofs` both of them.)

**PcSm** models `protocol_client_sm.c` whole.  One call of
`protocol_client_sm_task` is one action (`ResetTask`, `FailureTask`,
`TransmitTask`) because one thread makes all these calls, and `Transmit` and
`Clear` as well.  `TransmitTask` chains the stages of `st_transmit` in the order
of the code, each an operator with the name of its C function: `st_new_transmit`,
`st_connect`, `st_send_request`, `st_recv_response`, `pair_request_to_response`,
`st_transmit_complete`, `check_timeout`, `abort_transfers`, and the tail (`Settle`,
`CheckFailures`).  The outcomes of the network calls are the record `net`.
A record per machine holds the fields of `struct protocol_client_sm_class`.
`wire`, `issued` and `freed` are history: what the server may still answer, what
was handed over, what was freed.  The shadow of time: `late` (older than
transmission_timeout), `start_time.late` (connect_timeout has passed),
`reset_due` (a second since last_reset), set by `RequestElapse`, `ConnectElapse`
and `ResetElapse` at any moment, the oldest request first.  The value
`response.status` that the code reads before it ever writes it is arbitrary in
`Init`.  The tick of the model uses the responses that were on their way before it:
a response to a request that the same call sends arrives in a later tick.

**RequestPort** is the contract: machines hold requests; a task calls back at most
one response, one timeout and one abort; a clear ends only when nothing is held;
a request may be lost, but only together with the timeout (asynchronous machines)
or the abort of another one.  `PcSm!ImplementsPort` maps `held` to the queue, the
active request and the sent list; TLC checks that every tick is a step of
the port, and `PcSmPort` proves it.

**ExositeApi** models `exosite_api.c` on top of the port, so that it sees every
behaviour of the machines without their detail.  There is one action per state of
`activate_sm`; `Refused` and `Idle` are the calls that move nothing on; `SmTask`
is a task of a machine with the callbacks it makes (`exosite_api_callback`,
`on_timestamp`, `on_activate`, `on_subscribe`); `ReadOrWrite` and `Subscribe` are the
user's calls.  A request is named by what it is for; an alias has several requests,
because the same subscription can be handed over again while it is held.  One call of
`activate_sm` hands at most one request to a machine, whose queue has one place
(`src/client_config.c:62`).  `stale` and `before` are history: the held
requests that carry a CIK which a later activation replaced, and which request a machine
was given before which.  The server answers as it likes: good, malformed, CIK not
valid, other error, and, to an observed resource, a code of class 2 which
`response_code_to_system_error` does not know: an error to `on_subscribe`, a success to the
machine (`src/protocol_client_sm.c:418-424`), which goes on observing.

**Dictionary** is the binary tree of `src/lib/tdictionary.c`, one shared pointer a step:
`insert` goes down and `node_new` publishes the node in the pointer that was NULL; the
iterator goes to the leftmost node, to the right, or climbs to the parents.
**CallbackThread** puts it under the callback thread of `src/lib/pclb.c`.  `pclb_register`
is its critical section, followed by the unprotected `clb_num++` (`ReadNum`, `WriteNum`);
`pclb_task` takes over the shadow list, `Count` is one turn of its loop, and a callback
is running from `Count` until it `Returns`.  Three callbacks touch what the module is
about: `rtc_periodic`, `protocol_client_sm_task` (a time stamp calls `rtc_set`) and
`activate_sm`, whose walk over the subscriptions is interleaved with one user thread's
insertions.  It is the build with a thread, where `pclb_task(10)` counts in units of its calls.
The stores of `node_new` are taken to reach the other thread in program order, as on
the single cores the SDK is made for; the code has no barrier there.

**Cbuffer** is the ring of `src/lib/cbuffer.c` with the loops of `tcp_buffer_push` and
`_pop` as one operator each.  **UipSocket** is the TCP socket of the uIP port:
one action per call of `net_if_uip_tcp.c` (with the `uip_net_*` function it makes), one
per event for which uIP 1.0 calls `uip_appcall`, whose branches are the
disjuncts of the operator of that name.  `build` chooses between the ring (TCPBUF) and the single
buffer.  uIP and the peer are external: a segment is outstanding until it is
acknowledged and is sent again from the application's buffer, a stopped connection
neither acknowledges nor announces data, and `uip_mss()` follows the window the peer announces
(`Announces`), so that it may differ between a send, its retransmission and its
acknowledgement.  `trouble` is history: the window changed under an outstanding segment, or a segment
filled the ring.  A comment (`porting/net/uip/uip_port.c:115`) says that
`uip_mainloop` is called by the Ethernet interrupt only, but `net_dev_init` (line 453)
registers it as a periodic callback, and so calls and events exclude each other.

**ConfiguratorServer** models `src/configurator_server.c`: `AcceptTask` and one
`SlotTask` per slot are together one call of `configurator_server_task`, with
`receive_task`, the callbacks of the parser, `set_response` and `send_task` as
operators on the slot.  Requests are chunks (`head` or `settings`, then `tail`; `junk`), a
receive takes any number of those that wait, memory may run out, a send may
block or fail.  `start_configurator_server` may be called at any time, with a callback or
without, and may fail to register.  A connection that finds no slot is accepted and stays open
(`"unslotted"`).  `overdue` is history: settings came while there was no callback, and wait for
the one that a later start gave.

Definitions ending in a suffix such as `_NoWait` and marked *Faulty* are variants
of the definition below them with one plausible mistake.  Each is used to see that
a property notices the mistake; no specification uses them.

## What is checked

| Run | Instance | Shows |
|---|---|---|
| `pcsm_http` | one HTTP machine, 3 requests, 1 clear | requests are owned once and completed once, at most one is in flight, none is lost without a clear, a clear drains and closes, every request is answered, timed out or aborted; the machine implements the port |
| `pcsm_coap` | one CoAP machine, an observed resource and a normal request, 1 clear | a response reaches the request it answers (the two ids differ), clears end in spite of a subscription that stays, sent requests get their callback; the machine implements the port |
| `pcsm_two` | two HTTP machines sharing the token, one request | only the holder of the token connects, nobody starves |
| `exosite_http` | main, time and one long poll machine, 2 requests of data, 1 alias with 2 requests | the activation properties below |
| `exosite_coap` | the same over CoAP, 1 request of data | waits, fresh requests and reactivation; a subscription may be lost, or held twice |
| `callback_thread` | two registering threads and a clock followed round the system time three times; or one thread that inserts 4 keys during the iterations | an iteration returns every key that was there, in order; lookup finds every node at any moment; the clock is exact; every registered callback is called for ever |
| `uip_socket` | one slot, two connections, 2 bytes out and 4 in, a ring of 3, a window and a largest segment of 2, both builds | what `send` took reaches the peer once and in order, and a segment is sent again as it was, unless the peer's window changes meanwhile; no byte is skipped and none that was acknowledged is lost until a segment fills the ring; nobody waits for a peer that stays stopped |
| `configurator` | two slots, three browsers: settings with another request behind, a request or junk, a connection alone | the count and the slots agree, a connection beyond them never gets one, a browser is told only of its own settings or of a change that waited for a callback, slots are given back |

The three machines' properties that matter most:

* `OwnedOnce`, `CompletedOnce`: no request is reachable after it was freed nor from
  two places, and though one call may complete three requests it never completes one twice.
* `OwnAnswer`: a response, late or repeated, reaches the request it answers if no other has its id.
* `ParallelLimit`: the count that limits HTTP to one request stays right although
  it is also decremented for requests that were never sent.
* `EveryoneAnswered`, `SentAnswered`, `ClearEnds`: liveness of the machine.
* `ConnectToken`: the shared static `start_time` and the token.
* `WaitsForOne`, `WaitEnds`: activation waits only while its request is held.
* `FreshRequests`, `CleanStart`: no request with the old CIK crosses an activation,
  and no event raised by one forces the next.
* `SubscriptionAlive`, `SubscribedOnce` (HTTP): the mark `sent` agrees with what the
  machines hold, and no two requests share the arguments of a subscription.
* `Reactivates`: a refused CIK leads to an activation request.

Of the other components:

* `IterationComplete`, `LookupFinds`: insertion and iteration share the tree without a lock.
* `ClockExact`: the residue of the division and the wrap of the system time.
* `OutStream`: `outbuf`, its retransmissions and the slot's state, which a new socket
  does not reset: the close of an old connection must not cut off data of the next.  What the
  peer receives is only as accepted while its window does not change under a segment.
* `SentAgain`: uIP keeps no copy of a segment, `outbuf` is the copy, and must still be one when it
  is asked for; a smaller `uip_mss()` may cut its end off, nothing may put other bytes there.
* `InStream`, `Delivered`: stop and restart of the peer against the ring's limit, until a segment
  as long as the receive window fills the ring.
* `PageOwn`: `cfg_changed` and the settings are shared by the slots, the page is not.  Its one
  exception is a change that waited without a callback.
* `SlotsConsistent`: the count, the slots and the connections, those beyond the slots included.
* `Served`: no failure on the way keeps a slot.

### Bounds

`MaxClears` bounds the calls of `_clear`; a clear during a clear changes nothing, so
one per machine meets every stage.  A request object is used once (in the code it
is freed), so the requests are the bound of a run: three let one be queued, one be
active and one be sent and two follow one that timed out.  `QueueSize` 1 makes the
full queue common.  `MaxTimeouts` is 1 where the code has 5, and
`TransmissionRetries` 0, so that the session limit and SM_FAILURE are reached within
the few requests; the violation runs keep the code's 5.  `ExositeApi` is
unbounded in time, because names are reused; `MaxQueue` is 1 with two data
requests over HTTP (one over CoAP, where all share a machine), and MaxSm 0 is the configured
UNLIMITED.  The two requests of an alias bound how often one subscription is held at once.  Deadlock is not checked: a machine
whose requests are used up, with all its time passed, has nothing left to do.

In `callback_thread` four keys give every shape of tree in which a climb passes two
parents; SysTime 8 and Second 3 stand for 2^32 and 1000 (3 does not divide 8), and
`plan.time` is three turns, beyond which time stands.  In `uip_socket` the peer has one
byte more than the ring, so the pointers wrap and the ring can be filled.  The window (2) is as long as
the largest segment, as UIP_RECEIVE_WINDOW is UIP_TCP_MSS by uIP's default, and smaller than the ring, so
that a segment may come with one byte of the ring in use and fill it: `UipAssumption` only asks that a segment
is no longer than the window and the window no longer than the ring.  A largest segment of 2 lets
`uip_mss()` shrink and grow again.  Two connections let one slot be used again; the streams end, so
deadlock is not checked.  In `configurator` three browsers meet two slots, so that a connection finds
none; the third sends nothing, as its slot or the want of one is all it is for.  There every connection is
used once and may stay silent, so deadlock is not checked there either.

### Fairness

The callback thread calls every task for ever and time passes, so PcSm has weak
fairness on each machine's task and on the three elapses.  Network outcomes have
none: the network may fail for ever.  ExositeApi has weak fairness on each step of
`activate_sm` (memory for a request is found in the end), on the delay, and on
`Answers` and `Aborts` of each machine, which PcSm's `EveryoneAnswered`,
`SentAnswered` and `ClearEnds` justify.  No answer of the server is assumed.
CallbackThread has weak fairness on the steps of the thread alone: it is scheduled and
callbacks return; the user threads may stop anywhere.  UipSocket: the machine that waits goes on
receiving (a task is called for ever), uip_mainloop goes on polling, the network delivers in the
end, and a connection that is being closed ends.  ConfiguratorServer: the task is called for ever
and a send does not block for ever, a browser may do so with everything else.

## Where the code departs from its documentation

* `pcsm_clear_loses`: `src/include/protocol_client_sm.h:114` promises that a clear calls
  back every request; `abort_transfers` (`src/protocol_client_sm.c:523`) forgets the
  active request when it pops a queued one.
* `pcsm_late_answer`: over HTTP all requests have the id 1
  (`src/protocol_clients/http_client.c:107`), so after a timeout the late answer
  is handed to the next request.  (A comment at `exosite_api.c:965` knows the
  problem for activation.)
* `pcsm_connect_retries`: `src/client_config.c:43-46` promises several connect
  attempts per socket; the socket is closed after the first.
* `exosite_subscription_lost`: over CoAP a subscription may stay marked as sent
  although no machine holds it: in the trace a read is handed over, then the subscription, and the
  read's timeout makes the machine forget its active request (`protocol_client_sm.c:481`), which is the
  subscription.  The abort of a queued request (523) forgets it as well.

Seen while modelling, and kept by the models:

* A slot of the uIP port keeps its state: a close that the peer or an abort came before
  is executed on the slot's next connection if that has neither sent nor received
  (`porting/net/uip/uip_port.c:364`, 545-558).
* `uip_restart()` (line 356) also sets the flag of new data, so a segment that
  comes with an acknowledgement while the connection is stopped is delivered
  although uIP did not acknowledge it, and comes again: the reader sees it twice.
* Data in the segment of a FIN is lost, as `uip_closed()` returns first (lines 359-363).
* `uip_mss()` is taken anew at each event.  If the peer's window changes between a send
  (line 385) and its acknowledgement (line 376), bytes are skipped or sent twice; if it shrank before a
  retransmission, `uip_send` supplies fewer bytes than the segment has, and uIP sends what the packet
  buffer held before for the others (`Stale`).
* With UIP_RECEIVE_WINDOW equal to UIP_TCP_MSS, a segment into exactly so many free bytes fills the
  ring, which then reads as empty (`src/lib/cbuffer.c:89`): the bytes in it are lost.
* `net_if_send` returns success with -1 bytes on a dead connection
  (`porting/net/uip/net_if_uip_tcp.c:163-169`).
* Over CoAP a 2.01, 2.02 or 2.03 answer to a subscription keeps it in the sent list
  (`src/protocol_client_sm.c:418-424`, `src/protocol_clients/picocoap_client.c:130-137`) and unmarks it
  (`src/exosite_api.c:1081-1111`), so `activate_sm` hands the same arguments over a second time.
* Message ids over CoAP are not unique: activation and timestamp have id 1, because their `app_type` is 0,
  which is APP_PROTO_HTTP (`src/exosite_api.c:785`, 830, 342-345), and a subscription keeps its id at each
  hand-over.  `OwnAnswer` therefore speaks only of requests whose id no other has.
* A subscription answered well in the step that aborts it is freed with its mark `sent` still set.
* `cfg_changed` stays set while there is no callback (`src/configurator_server.c:628-637`).  After
  start(NULL), settings from one browser and start(callback), the slot that is treated next, another browser's
  perhaps, is sent the page about them.
* A web server connection beyond the slots is neither stored nor closed
  (`src/configurator_server.c:455`); after a parser error nothing is answered until the
  browser leaves; a second request behind the first drops the first response; settings
  received in an earlier call than the end of their request are answered with
  the form alone.

Seen while reading, not stated as runs: in builds without threads
`system_delay_and_poll` passes the time since its own start as the "Elapsed time since the
previous call" (`src/include/lib/pclb.h:60`) of `pclb_task`, so callbacks come too often
(`src/system_utils.c:47`); two threads that subscribe at once may lose a node
(`src/lib/tdictionary.c:101`); `timeouts` is commented "in the current
socket session" but survives a reconnect; a subscription that times out while
active, after any good response, is neither kept nor freed; `find_sm` does not
advance past an unnamed item of the right type (never created today);
`activate_requests >> activate_request_attempts == 0` (`exosite_api.c:854`) compares
first; `config_port.h:375-376` says a subscribe request fails
at the limit of state machines, but `exosite_subscribe` only adds to the map.

## What is proved

`PcSmProofs`, `PcSmOwnership` and `PcSmPort` hold for any number of machines and requests and any
configuration that satisfies `ConstantsAssumption`.  Its one restriction is that `Limit` is 0 for
an asynchronous machine and 1 for a synchronous one, the only two pairs of type and rq_limit
`src/client_config.c:123-128` registers.

* `TypeCorrect`: `Spec => []TypeOK`, hence the ASSERT of `st_transmit_complete`
  (`sent_request_num >= 0`) and the fact that a task never stores SM_CONNECT.
  `TypeOK` is inductive.  One lemma per stage of the tick states that it keeps the
  type of the record; `TransmitTask` is the chain of these lemmas.  The list
  operators come from lemmas about `SelectInSeq` and `RemoveFirst`, the former from
  the least element of a set of naturals.
* `TokenExcludes`: `Spec => []ConnectToken`.  `ConnectToken` is not inductive: st_connect
  dates the attempt only when retry_cnt is 0, so `TokenInv` adds `SocketOK`, which
  ties retry_cnt and connected to the socket.  `ConnectCases` enumerates what
  st_connect may return; `TokenKept` shows that a machine that does not run keeps
  its claim because the token does not pass it by.

* `RequestsOwnedOnce`: `Spec => []OwnedOnce`.  `OwnInv` adds to `OwnedOnce` that what a
  machine freed it was given before (`freed` within `issued`): without it a request
  could be freed by one machine and handed to another.  Every stage of the tick that
  completes a request `r` is described by `Completes(s, t, r)`: the result owns its
  requests once, `r` was the machine's own and not yet freed, and nothing but `r` is
  freed.  The stages that leave the requests alone are described by `SameRequests`.  The
  elements and distinctness of a list after a pop, a removal or an insertion are
  lemmas of their own.
* `CallbacksInTime`: `Spec => CompletedOnce`.  The response, the timeout and the abort of one
  tick complete one request each, and `freed` only grows from stage to stage, so a later stage cannot
  call back what an earlier one freed; an observed resource that stays is the response's, which the
  scan for a timeout skips, and during an abort none stays.

* `OneInFlight`, `NothingLost`, `ClearIsComplete` (`ParallelLimit`, `NoneLost`, `ClearDrains`) from
  one invariant, `PortInv`.  `ParallelLimit` is not inductive: during an abort sent_num may be
  smaller than the sent list, because completing a queued request decrements it too, and the end
  of the abort must find the two equal again.  `Limited` therefore bounds sent_num by the length of
  the sent list at all times, so that it is 0 when the abort has emptied the list, and says that an
  active request excludes a sent one.  `WireOK` (no socket, no answer under way) is what
  makes the close of `Settle` drain the wire.  A machine that was never cleared does not abort,
  and with one request in flight the reset of active_request in check_timeout loses nothing.
* `AnswersMatch` (`OwnAnswer`) holds for any `MessageId`: the response that is called back for a request
  whose id no other request of its machine has is the server's response to it.  Over HTTP all ids are 1 and
  the hypothesis fails, which is what `pcsm_late_answer` shows; over CoAP it fails for the ids named above.
* `MachinesImplementPort`: `Spec => ImplementsPort`, the refinement.  Each stage of the tick is
  described by what it leaves of `Held` (`TickLeaves` gathers them); `TickedTask` matches the
  result with `PortTask`, `QuietTask` a task that calls nothing back, and `PortSteps` goes through
  the actions: `Transmit` is `PortTransmit`, `Clear` is `PortClear`, time is a stutter or a
  task without callbacks.

`ExositeApiProofs` holds for any number of machines, requests of data and aliases, both over HTTP and
over CoAP (`ExositeAssumption`, `PortAssumption`), and so, through the refinement, for what any
number of machines of PcSm may do to the activation.

* `OneWait`, `OnlyFresh`, `SentOnce`, `ActivationIsClean` (`WaitsForOne`, `FreshRequests`,
  `SubscribedOnce`, `CleanStart`; `SentOnce` with the hypothesis ~Async) from one invariant, `ExoInv`.  None of them is inductive: a
  callback is only harmless in the states in which its request can be held.  `HeldBy` therefore says
  for every state of activate_sm what the machines may hold: nothing before the time is known,
  exactly the request in the two WAIT states, and only data and subscriptions from there
  on.  The step into AS_SEND_ACTIVATE needs that the clear reaches every machine with a request
  (`Created`), the step out of it that a machine which is not being cleared any more is empty
  (`Clearing`, from the contract that a clear ends only when nothing is held).
* `LongPollAlive` (`SubscriptionAlive`, with the hypothesis ~Async): `Routed` says that a request is
  held only by its machine.  The machine of an alias has no request of another kind, so the loss the port
  allows with an abort cannot hit it.  Over CoAP all requests share a machine, and
  `exosite_subscription_lost` is the counterexample.
* `ExositeTypes` (`TypeOK`).
* `CallbackEffect` describes one call of `exosite_api_callback`, `TaskState` and `TaskMap` the three
  that a task may chain; `TaskLeaves` is what the port promises about one machine.

`CbufferProofs` holds for every ring size and every set of bytes (`RingAssumption`):

* `PushAppends`: a push of fewer bytes than `cbuffer_get_free` appends them to the contents;
  `PopDrops`: a pop takes the front and leaves the rest in order, across the wrap.
* `FullReadsEmpty`: a push of exactly `cbuffer_get_free` bytes empties the ring.  The two
  bounds meet at one byte, which is the segment that `uip_appcall` lets through when it stops
  the peer only below a whole window (`"filled"` in UipSocket).
  The fields after a push (`PushFields`) are stated place by place; the contents follow by
  comparing two sequences element by element.

`CallbackThreadProofs` holds for any number of user threads, every finite set of keys, and every
period, second and range of the system time that `CallbackAssumption` allows: the clock is
updated before the system time has come round once.

* `IteratesAll` and `EveryKeyFound` (`IterationComplete`, `LookupFinds`).  The properties compare keys
  that can be far apart in the tree, and an insertion sees two nodes.  `Tree` therefore gives every node
  two bounds, `lo` and `hi`, the nodes between which its subtree lies, and says that a node without a
  child on one side is the neighbour of its bound on that side (`Dense`).  `Inserts` says that the key
  lies between the bounds of the place where insert is, `Iterates` what has been returned, by the bounds of the
  place where the iterator is: everything up to `lo` on the way down, everything up to `hi` on the way up.
  A new node takes over its parent's bounds and moves no other's (`NewLeft`, `NewRight`), which
  is why an iteration may stop between any two steps.
  `LookupFinds` is about a recursive function.  `SetInduction` derives induction over the numbers
  from the well-foundedness of finite sets; each step of `lookup` leaves fewer keys between the bounds
  (`OnwardShrinks`), so that the path ends at the key.
* `ClockNeverDrifts` (`ClockExact`).  `ClockInv` bounds what the clock has still to count (`Lag`): a residue
  below a second and a sleep for each task since `rtc_periodic` was last called, which the
  counter of the callback bounds (`TaskInv`).  So the system time has not come round in between,
  and the difference that `rtc_periodic` takes modulo 2^32 is the difference of the times (`Turn`).
* `CallbackTypes` (`TypeOK`).  That `clb_num` is at most the number of linked callbacks needs `LinkInv`:
  whatever value a thread holds between its read and its write, all the threads that are
  in `pclb_register` may still add one to it.

`ConfiguratorServerProofs` holds for any number of slots and browsers and every set of scripts, one at
least, of the chunks the parser tells apart (`ServerAssumption`).

* `SlotsAgree` (`SlotsConsistent`) from `SlotInv`, which has it as conjuncts and adds what makes it
  inductive: between two calls a slot is closed, receiving or sending (`Rests`), so that a status
  of the middle of a call is never found by the next one, and a browser that
  did not connect is as new (`Sane`).  `TakeSlot`, `KeepSlot` and `GiveBack` are the three things that
  happen to a slot, and the count of `Used` moves with them; `SlotTreated` says that the chain of
  receive_task, set_response and send_task leaves a slot at rest or one that is closed.
* `NobodyElsesPage` (`PageOwn`) needs `cfg_changed /\ clb_set => overdue` at every step: one flag serves all
  the slots, and what keeps the settings of one browser out of the answer to another is that, while there is
  a callback, it clears the flag in the same treatment of the slot that set it; only a start can
  find the flag set and give it a callback, and that makes the change overdue, until the next slot clears
  both.  A response that waits in a slot for the net device is not told anew.
* `ServerTypes` (`TypeOK`).
* `ParseKeeps` is induction over the chunks of one receive: what one call of the parser's callbacks keeps,
  http_parser_execute keeps.

`UipSocketProofs` holds for every size of ring, window, segment and `outbuf`, any number of bytes and of
connections, and both builds (`UipAssumption`, `RingAssumption`).  Everything rests on one invariant, `UipInv`.

* `OutgoingKept` (`OutStream`).  It is not inductive: when a segment is acknowledged, uip_appcall does not
  take the length that was sent off `outbuf` but UMIN(outbuf_len, uip_mss()) of that moment
  (`porting/net/uip/uip_port.c:376`).  What always holds is that `outbuf` is the last Len(outbuf) bytes of
  what was accepted and the outstanding segment its front, stale bytes apart.  `Outgoing` adds for a connection
  whose window did not change under a segment that the segment is as long as that minimum, so that the two
  lengths agree; `AnnouncesKeeps` is the step that ends this.  `NotClosing` keeps the
  close of an earlier connection away from one that has sent something, and `Fresh` says that a
  connection starts with nothing in either direction.
* `SegmentsStay` (`SentAgain`), an action property, from the same invariant: `AppcallCases` lists what
  uip_appcall may leave of a connection, and only `Rexmit`, `Arrives` and `Resizes` find a segment that
  they do not acknowledge; `SendsAgain` compares what they supply with it byte by byte.
* `IncomingKept` (`InStream`).  The property compares a byte with the maximum of all that came before it; `Incoming`
  says instead that each byte in the buffer is at most the successor of the one before
  (`InOrder`; a byte may come again), and that what the stack acknowledged is at most the last of them.
  `Room` says that a connection that is not stopped has the whole window free, and that a restart is only asked
  for with an empty buffer, so that a segment shorter than the window fits without filling the ring: then
  `PushAppends` applies.  One as long as the window may fill it (`FullReadsEmpty`), which `trouble` records.
  `InOrderAppend` and `InOrderDrop` are a push and a pop, `InOrderNoGap` leads back to the maxima.
* `SocketTypes` (`TypeOK`).
* `From`, the sequence of consecutive bytes, has lemmas for its prefixes, suffixes and concatenation;
  `AppcallKeeps` and `AppcallEnds` are uip_appcall for a connection that lives and for one that is
  over, and each event of the stack is an instance of one of them.

Proved from the named assumptions on the constants, and the hypothesis ~Async where it is named above.
Model-checked only: liveness (`EveryoneAnswered`, `SentAnswered`, `ClearEnds`, `WaitEnds`,
`Reactivates`, `Delivered`, `EveryoneCalled`, `Served`), because it rests on fairness and ENABLED.
Every invariant, action property and refinement that a passing run checks is a theorem, two of them
(`SentOnce`, `LongPollAlive`) over HTTP only.

## Plan

1. More of the system: chunked receive of the HTTP client and the TLS handshake, the code
   tables of the server APIs, the packet ring and the UDP sockets, the tracker of the
   heap, `pclb_task` in builds without threads.
2. Their invariants as theorems, as for the modules above.

## Not modelled

Text composition and patterns (no state), start-up code
(sequential), the operating system wrappers (their contract is assumed), examples
and third-party libraries.  `docs/Doxygen/html/*.js` is generated documentation, not
program.  Of modelled code: the exponential activation delay
(not the configured one); the assertion on a malformed CIK is taken as in a release
build, where the machine goes on; `exosite_get_status` only reads; several exosite
objects at once; `pclb_unregister`, which nothing calls; listening sockets, DHCP and UDP of
the uIP port; the position in a response that is sent in parts.
