# Comlink v2: a TLA+ model of the server

Controllers in the field hold a websocket to `lwsws` and send comma-separated
packets; the server verifies each packet's checksum, answers ACK or NACK, stores
good packets in redis and forwards them to the Comlink server over http. The
server is `lwsws`, the stand-alone web server of a vendored libwebsockets
(`src/libwebsockets`, v3.x), with four plugins of its own. This directory models
the plugins, the programs they start, and the parts of the library that decide
when a plugin is called.

Line numbers in comments and in `PROJECT.json` are those of the sources under
`src/`. "The library" is `src/libwebsockets/lib`.

## 1. Inventory

### The project's own code

| part | state | operations | talks to |
|---|---|---|---|
| `plugin_lws_websocket/protocol_lws_websocket.c` | per vhost: list of sessions, ONE pending reply `amsg`, its number `current`; per session: `last` | the callbacks PROTOCOL_INIT, ESTABLISHED, RECEIVE, SERVER_WRITEABLE, CLOSED | the library (callbacks, `lws_callback_on_writable`, `lws_write`); two shell commands per good packet |
| `plugin_lws_websocket/functions.h` | none | checksum, verification, field splitting, ACK/NACK frames, the two command lines | called by RECEIVE |
| `redisClient.c`, `wget` | one process per packet | connect, PING, SET, GET; POST with `--tries=2` | redis, the Comlink server |
| `plugin_lws_packet`, `plugin_lws_http` (same callback) | per session: `justHeader`, the response text | HTTP, HTTP_BODY, BODY_COMPLETION, HTTP_WRITEABLE, EVENT_WAIT_CANCELLED | the library's http/1 server |
| `plugin-lws_status` | list of sessions; per session a walk over the list | ESTABLISHED, SERVER_WRITEABLE, CLOSED, `trigger_resend()` | the library |
| `lwsws/main.c` | child pids, a reload flag | fork, signals | operating system |
| `client.c`, `httpClient.c`, `index.js`, the Node scripts | little or none | test clients, test servers, a launcher | sockets |

### The parts of the library the server depends on

The service loop (`core/service.c`, `core/pollfd.c`), the http/1 role
(`roles/h1`, `roles/http/server`), the websocket role (`roles/ws`), adoption and
closing of connections (`core/adopt.c`, `core/libwebsockets.c`), output
(`core/output.c`, `event-libs/libuv`), the pool of header tables and the peer limits
(`roles/http/server/parsers.c`, `misc/peer-limits.c`), the ring buffer
(`misc/lws-ring.c`) and lws-mirror, which the host file enables and which is built
on it (`plugins/protocol_lws_mirror.c`), and the thread pool (`misc/threadpool`),
the one part with threads of its own. The rest (TLS, http/2, clients, CGI, JSON,
full-text search, ...) is not on this server's path; section 8 lists it.

### What is hard here

Everything in `lwsws` but the thread pool runs on one service thread (`count-threads` is 1), so there
are no data races between callbacks. What interleaves is *which connection's
callback comes next*:

- all sessions of lws-websocket share one reply buffer and one number, so two
  controllers' RECEIVE and WRITEABLE callbacks interfere;
- a WRITEABLE callback is one shot and asynchronous: whatever is not asked for
  again never happens, and what it finds may have changed since it was asked for;
- lws-status walks a list that changes between two fragments of one message, and
  remembers a pointer to a session that may be freed meanwhile;
- an http response goes out in two callbacks, each of which may be cut short by
  the socket, while the next request is already there to be read, or was read with
  this one and lies in a buffer that is offered later, to whichever branch asks;
- `lws_adopt_descriptor_vhost()` fires EVENT_WAIT_CANCELLED at every new
  connection, which pokes requests in any state;
- a connection without a header table is switched off (no POLLIN) until somebody
  else's `detach` switches it on again;
- the jobs started for a packet are processes: they overtake each other, outlive
  the server and meet services that come and go;
- a mirror's sessions share a ring that only its slowest reader can free, and a
  switch that turns reception off for all of them;
- a close is not an event but a sequence (flush, close frame, wait for the peer's,
  asynchronous `uv_close()`), and anything may ask for another close during it;
- a worker of the thread pool and the service thread meet in a rendezvous made of
  unlocked flags, a signal that is not remembered and a retry;
- the server can end in the middle of RECEIVE (failed assertions are active,
  `Dockerfile:36` builds DEBUG), and is started again from nothing.

The hazards are listed one by one, at their lines, in `PROJECT.json`.

### What makes each component correct

- lws-websocket: each session is written each message at most once, in order,
  none from before it joined; the bytes are the ones that belong to the number;
  an ACK means both commands were started; the newest reply is not forgotten.
- codec: both sides compute the same checksum; damage of one character is
  noticed as long as it leaves the separating comma alone; what the server frames,
  verifies; what verifies has the field that RECEIVE goes on to use.
- jobs: what redis holds comes from a verified packet of the right device; a job
  whose service was there all the time delivers, so an ACK is kept.
- REST plugins: one response per request, headers before body, in the order of
  the requests; no request holds a connection for ever.
- lws-status: every browser ends up with the current list; framing is right; a walk
  that goes on from where it was is still on course.
- header tables: counters exact, no lost wakeup, no starvation, no peer freed
  under a connection.
- ring: a bounded queue with several readers, each of which gets every element
  once and in order; mirror: nothing lost, nobody deaf or blocked for ever, only
  the slowest hung up on.
- thread pool: no task lost, shared or kept for ever; a task does not run during
  its SYNC callback; destroy returns.
- close of a websocket: the user is told once of each thing and in order, one close
  frame at most, nothing written before is lost, every wait ends.

## 2. Modules

| module | models | composed of |
|---|---|---|
| `LwsWebsocket` | lws-websocket, the controllers, restart | |
| `Comlink` | the jobs and the two services, with the plugin | EXTENDS `LwsWebsocket`; a step is a plugin step or a step of one job or service |
| `PacketCodec` | `functions.h` and `getCRC()` of `client.js` over character codes | |
| `HttpPacket` | the two REST plugins with the http/1 server under them | |
| `LwsStatus` | lws-status | |
| `HeaderPool` | header tables, waiting list, peer limits | |
| `MultiReaderFifo` | what `lws-ring.h` promises: the abstract queue | |
| `LwsRing` | the functions of `lws-ring.c` as operators on a ring | |
| `RingUsers` | a ring with a writer and readers; implements `MultiReaderFifo` | EXTENDS `LwsRing`; INSTANCE `MultiReaderFifo` WITH a refinement mapping |
| `LwsMirror` | lws-mirror | EXTENDS `LwsRing` |
| `ThreadPool` | the thread pool with the service thread | |
| `WsClose` | the end of a websocket: closing, control frames, libuv | |
| `ListTheorems` | lemmas about the lists the code links and unlinks: a first match removed, an element pushed, its ends | EXTENDS `SequencesExt` and the library's theorems |
| `ComlinkProofs` | theorems about `LwsWebsocket` and about `Comlink` | EXTENDS `Comlink`, `TLAPS` |
| `RingProofs` | theorems about `LwsRing`, `RingUsers` and `LwsMirror` | EXTENDS `RingUsers`, `LwsMirror`, `TLAPS` |
| `WsCloseProofs`, `HeaderPoolProofs`, `LwsStatusProofs`, `ThreadPoolProofs`, `HttpPacketProofs` | theorems about the module of that name | EXTENDS it, `TLAPS`, and `ListTheorems` where lists matter |
| `MC...` | constants of small instances | EXTENDS the module |

Definitions named `...Never`, `...Always`, `...Late` and the like, introduced by
the word "Mutant", are deliberately wrong variants of the definition that follows
them. They are not part of any specification; `PROJECT.json` pairs each with the
property that must fail when it takes the definition's place.

### LwsWebsocket

One action per callback, because a callback runs to its end on the service
thread. `amsg`, `current`, `pss_list`, `last` are the C fields of the same name.
`pollout` is the set of connections with POLLOUT requested; `rx` and `tx` are the
two directions of each websocket. `Receive` is the whole of LWS_CALLBACK_RECEIVE:
destroy the previous reply, allocate, split, verify, start the commands, compose,
number, ask the sender for a callback. Its early ends are actions of their own:
`ReceiveOOM` (allocation of the payload fails: the old reply is gone already) and
`ReceiveCrash` (the process ends, having started no command or only the first:
an assertion of `str_split()`, a later `malloc()`, a failed `system()` whose status is used as a
format string, `concat()` given NULL for a fragment that verifies without a second field, or
a second command that a newline in the packet has cut in two). `LibraryWrite` stands for pongs and
keepalive pings, after which the library leaves POLLOUT on and the plugin gets a
callback nobody asked for.

A packet is a model value and reaches RECEIVE as a sequence of *fragments*:
`rx_buffer_size` is 128, and the plugin does not ask whether a fragment is the
last. `CRCValid`, `Number`, `Unsplittable` (ends the process before any command) and
`Multiline` (a PC_NOTES packet that ends in EOT and a newline: ends it after the first)
say what the codec makes of a fragment; `PacketCodec` looks into the codec itself. Not
modelled: the payload is allocated for the fragment's length and then given the reply's,
so a fragment shorter than its reply has the reply written past its end. The constant `Window` is how
many answers a controller leaves outstanding (1: it waits; `client.js`, which
sends on a timer, is any window). `joined`, `owed`, `log` and `spawned` are history:
only properties and the controller's own guard read them.

### Comlink

Adds, for every command in `spawned`, how far it has come. `redisClient` is the
straight line of `main()`: connect (1.5 s timeout, exit 1), PING, SET under the
device's key, GET. No reply is examined, so a server that goes away ends it, an error
reply (`RedisRefuse`) looks like success, and, since no timeout is set on replies, a redis
that takes connections and does not answer holds it for ever. `wget` is external and
modelled from the command line the plugin builds: a try that gets no answer, before or
after the POST was processed, is repeated up to `Tries`; a refused connection
(there is no `--retry-connrefused`) and an error status are final.

`health` says how each service answers (up, failing, silent, down) and may change
`MaxChanges` times; `troubled` is history: the jobs whose service was not up all the time
they ran. The plugin puts key and packet unquoted into a shell command, so a job is
given `Word[f]`, what precedes the first blank of the fragment (wget takes the other words
for further URLs, which are not modelled). What other characters mean to the shell
is not modelled.

### PacketCodec

The only state is a packet body that grows by one character per step, so the
state space *is* the set of inputs. Characters are codes; the checksum keeps its
width (8 bits, `% 256`). Folds of the community modules take the place of loops. `client.js`
sends one constant packet (`data`) and calls `getCRC()` nowhere; `Packet` is an
input of the properties, a body with the checksum `getCRC()` gives it.

The fixed-size buffers are not large enough for everything that arrives, and what
happens beyond them is undefined and not modelled: `isCRCValid()` copies the last field into 5
bytes, which four characters fill (`Overruns`; the `EOT` line of a PC_NOTES packet is
one more than fits), and the 200 bytes of the command lines are exceeded by a fragment of
about 85 characters (wget) or by one near the 128 a fragment may have, with a long key
(redisClient). `uVerifyCheckSum()` has no caller and is not modelled.

### HttpPacket

`wsi[c]` holds what the library keeps for a connection (state, header table,
remaining content, POLLOUT, buffered output, deferred completion, timeout) and
the plugin's `justHeader`. A request is a header block and `len` body pieces; a read returns
any number of them, and what the server does not use of it is stashed in the buflist
(`stashed`, a front part of the input), which is offered before anything newer. A GET is
in DOING_TRANSACTION: it reads nothing more, and the plugin answers it only if it is
poked, else its timeout ends it. A POST with content whose headers come out of the buflist is
the action `ReadStashedPost`: the loop of `server.c:1541-1559` feeds those headers to the
body and then either turns round for ever or runs into an assertion, and `fate` says
that the service thread spins or the process is gone.

Reading (`Read...`) follows `lws_h1_server_socket_service()` and
`lws_read_h1()`, writing (`Writeable...`) follows the POLLOUT half, `lws_issue_raw()`
and the plugin's HTTP_WRITEABLE; `TransactionCompleted` follows
`lws_http_transaction_completed()`. `Adopt` puts a byte in the event pipe, and
`EventWaitCancelled` is its consequence. The plugin never starts the "other thread" its
comments mention, so there is none in the model.

### LwsStatus

`pss[c]` is the per-session data; a connection slot stands for its *address*, so a
new session may be given the slot that somebody's `walk_next` still points to.
`text` and `shown` are what the browser has of the current and of the last complete
message: its entries, the punctuation left out. `count_live_pss` is only incremented, as in the code.

### HeaderPool

`Attach` and `Detach` are `lws_header_table_attach()` and
`__lws_header_table_detach()`; `Adopt`, `Service`, `Complete` and `Close` are the
places that call them. The waiting list is newest first, as the linked list is, and
an element is unlinked as the code does it, at its first occurrence. The pool has at least
one table: `context.c:1048-1055` takes the default where the configuration gives none.
An allocation may fail at any attach; `starved` remembers who waits for that
reason. Not modelled: the autoservice a hand-over may trigger (the new owner's
service is the next `Service` step or parsing, which is below this model), and failing
allocations of a peer or a wsi.

### LwsRing, RingUsers, MultiReaderFifo

Head and tails are byte offsets, as in the code, so the wrap, the element that is
always kept free and the `f < 2` of the free count are computed and not assumed.
`RingUsers` lets a writer insert batches (or write into the buffer directly and bump
the head) and readers consume by the macros of the header: a reader that was at the
oldest tail moves it to the worst of all. The mapping to `MultiReaderFifo` takes the
elements given up so far to be those inserted less those still waiting at the oldest
tail; the abstract queue gives up an element only when every open reader had it,
so the refinement says that the ring's bookkeeping by offsets never overwrites or
destroys what somebody still has to read. The ring holds `Count - 1` elements and not
`Count`; `CountsAddUp` is stated with that number. A last single slot of one byte is counted as
none (`f < 2`), so the abstract `Insert` must accept something only when there is room for
two; two such elements inserted at once do reach `Count - 1`.

### LwsMirror

One action per callback, on rings of `LwsRing` (`rings`, `tails` and `MSpec` are named so that
`RingProofs` can extend it together with `RingUsers`). `rxflow` is what
`lws_rx_flow_control()` lets be read, `timeout` the three seconds of the slowest
session, `stuck` a peer that has stopped reading (its WRITEABLE does not come).
`newcomer`, `unasked` and `backlog` are history for the exceptions: a session that joins
a backlog gets no callback until the next message, and timeouts are only set when
the oldest tail has moved. `MAX_MIRROR_INSTANCES` is in the guard of `Established` but
with one name the run does not reach it.

### ThreadPool

What the code does under `tp->lock` is one step; what it does without is a step of its
own: the status a task function's return sets, the test of `args.wsi` and the
request for a callback, the wait, the status the WRITEABLE callback reads before it
takes the lock. `pc` is where a worker is, `svc` where the service thread is. A task
and the wsi it was created for share their identity. Where the code goes on to use memory
that was freed, `wild` becomes true and the model stops; the properties
say up to where they hold. The user of the pool is any program that follows the header's
rules: WRITEABLE asks for the status, syncs when it is SYNCING; a wsi that closes
dequeues its task. (In the library itself nobody calls `lws_threadpool_dequeue()`.)
A wait may return for no reason (`SpuriousWake`): the code, which has no predicate to look at,
takes it for the sync. `released` in `svc` is history: the worker was let go,
by that or by a second callback, while the SYNC callback runs. What destroy reads of
a worker without the lock (`WakeRead`) and its broadcast (`WakeBroadcast`) are two steps.
`lws_threadpool_tsi_context()`, which walks the workers without a lock, is one.

### WsClose

One connection, from ESTABLISHED to its `free()`. `wsi` is a record with the fields
the close depends on and, from `drops` on, the history of what the user was told and what
went on the wire. The functions of the library that act on a wsi (`CloseFreeWsi`,
`JustKill`, `CloseViaRole`, `Written`, ...) are operators on that record, and an action
is one callback of the event loop: a priority of `lws_handle_POLLOUT_event()`, a
frame read, a timeout, the periodic check, the uv close callback, the end of the
context. `debug` chooses the build: `_DEBUG` repeats every close ("uv repeat test"), and
assertions end the process (`aborted`). `conforming` chooses a peer that keeps to RFC 6455.
The user's callbacks may set or end the timeout of the connection (`Retimed`, `UserTimer`), as
lws-mirror's WRITEABLE does with the three seconds of its slowest session.
A read delivers one frame, and the frame parser below it is not modelled, nor are
extensions, rx flow control, UTF-8 validation, TLS shutdown, child connections, http/2
and the client side.

## 3. Runs

`tlc -workers 2 -config <cfg> <module>`; each ends within about three minutes on two cores.

| run | bounds | shows |
|---|---|---|
| `websocket` | 2 controllers (symmetric), a good, a two-fragment, an unsplittable and a PC_NOTES packet, 3 sends, 2 starts, failures on | `TypeOK`, `InOrderOnce`, `WrittenIsLogged`, `AckIsBacked`, `LatestIsOnItsWay` |
| `websocket_fair` | 2 controllers that wait, 3 sends, 2 starts, no allocation failures | `Answered`, `OneReplyEach` |
| `websocket_own_replies` | 2 controllers, one packet each | violated: a controller is written the other's reply |
| `comlink` | 1 controller that waits, a packet with a blank and a bad one of another device, 2 sends, failures on, 2 changes of a service's health | `StoredVerifies`, `Settled`, `AckIsKept` |
| `codec` | all bodies up to 5 characters over `, 0 4 7 A z` | `SentVerifies`, `OneErrorNoticed`, `SplitAssertsExactly`, `VerifiedHasKey` |
| `http` | one connection with up to 3 requests of 4 kinds, 2 pipelined, reads of any size; another that comes and goes | `ResponsesAreWhole`, `NeverForgotten`, `RequestEnds` |
| `status` | 3 slots, 3 joins | `ShownIsRight`, `UntoldIsOnCourse`, `Converges` |
| `header_pool` | 6 connections of 2 peers, 3 tables, 2 per peer, 3 connections per peer | `Accounting`, `WaitListIsRight`, `PeerOutlivesWsi`, `WaitingEnds` |
| `ring` | 3 slots of 1 or 2 bytes, 2 values, batches up to 2, 5 inserts, 2 readers or the NULL one | `ImplementsFifo`, `CountsAddUp` |
| `mirror` | 3 sessions of an instance, ring of 4 (reception off below 2 free, on at 2), 4 messages | `NothingLost`, `NobodyStalls`, `OnlySlowestTimed`, `NeverShut` |
| `threadpool` | 1 worker, 2 tasks, a SYNC tried twice, spurious wake-ups | `TasksAreKept`, `ExclusiveSync`, `FinishedIsReaped`, `DestroyEnds` |
| `ws_close` | 1 connection, both builds, both kinds of peer | `ToldOnceInOrder`, `OneCloseFrame`, `ReasonReachesPeer`, `FlushedBeforeClose`, `ClosingIsTimed`, `CloseEnds` |

Why the bounds are enough. The interference in lws-websocket is between the
session that sends and one other; a third session meets the same two cases
(another sender, or nobody). Two sends are needed to overtake a reply, the third
to see what happens after that; two starts to see a session list and numbers begin
again. In `status`, three joins give a walk over two entries that loses its next one
and has the freed slot taken over. (Four joins, 893,219 states, were checked too.)
In `http` requests of different connections meet only in the event
pipe, so one connection that asks and one that comes and goes cover it; the third
request is there so that two completed transactions precede one. In `header_pool`
there are more connections than tables and than either peer may use, so both reasons
to wait, and waiters of both kinds at once, occur. In `comlink` two sends give two
jobs of each kind that overtake each other, also across a crash of the plugin between
them; two changes let a service leave `up` and come back, or both of them leave it; the packet
with a blank makes what is stored differ from what was sent. In `ring` five inserts
wrap round the three slots, and two readers are the smallest number in which one can
hold the oldest tail while the other is ahead, leaves or joins; the third user passes
NULL. In `mirror` three sessions are needed for the slowest to leave or be timed out while
two others are apart, and four messages fill the ring and wrap. In `threadpool` the second
task waits while the first runs, which is what `finish()`, the queue and the reaping
need; workers meet only in sections under the lock, and the safety properties
were also checked with two workers (4.93 million states). `ws_close` is not bounded: its counters stop
at 2, where the properties are already violated.

`CHECK_DEADLOCK FALSE` is set everywhere because the models may end: the
bounded clients have sent what they may, the wsi is freed, the ring or the pool destroyed.

### Fairness

- `LwsMirror`: a session with POLLOUT on and a peer that reads gets its callback, and a
  timeout that has passed is noticed. Peers may stop reading at any time.
- `ThreadPool`: every thread is scheduled, task functions and callbacks return, waits time
  out (`pthread_cond_timedwait()`), but no wait need be woken for no reason; a round
  of the service loop visits the event pipe and
  every connection that is ready, however often others get in between (strong fairness).
- `WsClose`: libuv's one-second timer notices timeouts, `uv_close()` calls back, a
  conforming peer that has our close frame answers it or is gone, and the ping-pong
  check (`ws-pingpong-secs`, 200 in the Comlink configuration) comes when
  neither side has anything to send. Nothing is assumed of POLLOUT: the socket may
  never take another byte. `CloseEnds` is stated for callbacks that do not touch
  the timeout for ever: one that does keeps the connection for as long.
- `LwsWebsocket`, `LwsStatus`, `HttpPacket`: weak fairness of the callbacks the
  service loop owes (input that is there is read, a connection with POLLOUT on gets its
  callback, a timeout that has passed is noticed). `poll()` reports these until they
  are dealt with, and `favoured_pollin` keeps a connection with both from being only
  read. It assumes peers that go on reading; one that does not is ended by
  the action `Closed`/`Close`, on which there is no fairness. No fairness is
  assumed of controllers, of joins and leaves, of failures, or of partial writes.
- `Comlink`: the operating system runs every process it was given; nothing about
  services coming back. `AckIsKept` is stated for a redis that in the end is not silent,
  since `redisClient` would wait for it; down or failing, the job ends either way.
- `HeaderPool`: whoever holds a table lets go of it, because the transaction ends
  or PENDING_TIMEOUT_HOLDING_AH closes the connection.

## 4. What the runs found

- **A reply can go to the wrong controller** (`websocket_own_replies`). The pending
  reply is shared; a second controller's packet replaces it before the first was
  written, and the first is then written the second's reply. By the same
  mechanism a controller that does not wait for its answer gets one reply for
  several packets. `Answered` is therefore stated as "a write at least as recent",
  and the exact one-to-one promise (`OneReplyEach`) only for a session that is the
  only one to send.

While modelling, these were met in the code; the properties state what holds with
them, and name the exceptions.

- `str_split()`'s assertion (`functions.h:144`) fails on empty fields, which ends the
  server in the DEBUG build the image uses. `SplitAssertsExactly` says for which packets.
- A packet whose only comma is damaged verifies when it does not start with a number
  (`functions.h:74` compares 0 with 0; `OneErrorNoticed`), and RECEIVE then gives the NULL in place of
  its second field to `concat()` (`VerifiedHasKey`). A PC_NOTES packet that ends in EOT is one
  byte more than `isCRCValid()` has room for, and its newline ends the server after
  the first command.
- The command lines quote nothing: a packet with a blank is acknowledged, and redis is given what
  precedes the blank (`Word` in `StoredVerifies`). An error reply of redis ends `redisClient` as
  success does, with nothing stored; a refused connection or an error status ends wget at
  its first try in spite of `--tries=2` (`troubled` in `Settled` and `AckIsKept`).
- lws-status composes the separator before it finds that the next session is gone: a
  message can hold a lone comma, which is not JSON.
- Every adoption of a connection fires EVENT_WAIT_CANCELLED, so a POST can be answered before
  its body arrived (`poked` in `ResponsesAreWhole`).
- A client that sends a POST with content right behind another request, so that one read returns
  both, makes `lws_http_action()` spin or the process end (`server.c:1541-1559`): the loop
  that is meant for a stashed body takes the stashed header block, which is not removed
  yet, for one. Everybody is affected, since there is one service thread. The http properties hold
  up to there (`fate`).
- The ring holds one element less than `lws-ring.h:85` says ("count: the number of
  elements the ringbuffer can contain"), and `lws_ring_get_count_free_elements()`
  (`lws-ring.h:113`) says 0 when one slot of one byte is left. `CountsAddUp` states the numbers the
  code computes.
- lws-mirror: a session that joins a backlog and is not sent anything, or whose peer
  stops reading, can hold the ring without ever being on the timeout (`Blocked` in `NeverShut`).
- `lws_threadpool_finish()` is meant to "stop everyone in the pending queue"
  (`threadpool.c:705`) but follows the link of a task it has just moved: it stops the
  newest only, and turns round for ever with `tp->lock` held when the done queue was not
  empty. A task whose status is set without the lock can be reaped while its worker
  still has it, a task that outlives its wsi is detached without the pool lock, and a wsi
  that closes after `destroy()` touches the freed pool: `wild`. So does `destroy()`, between what it
  reads of a worker's task without the lock and the broadcast to it. A second WRITEABLE
  after the first one's signal can run beside the task, and so can the first, when the worker's
  wait returns for no reason (`released` in `ExclusiveSync`). A stop that
  comes late leaves a done task STOPPING until its wsi closes. The pool's README says that a task that
  outlives its wsi is not stopped; line 544 stops every task without one.
- Closing: a PING while our close waits to be sent overwrites its reason (one buffer
  for both); with output buffered a close never sends its reason; after our close
  frame WRITEABLE is still called, after DROP_PROTOCOL, and its frames go out although
  the comment at `ops-ws.c:1290` says they are banned; in a debug build the
  repeated close kills a close with a reason that a WRITEABLE callback asked for before its
  frame is sent; a frame that is read while output is flushed meets `assert(0)` in
  `lws_read_h1()`; RETURNED_CLOSE, and a close frame whose wait a PONG or the user's WRITEABLE
  (`protocol_lws_mirror.c:394`) has taken the timeout from, are ended only by the ping-pong check.

Everything else that is stated holds, with the qualifications that are part of
the properties (`unusable` in `NeverForgotten`, `starved` in `WaitListIsRight`).

## 5. What is proved

For every value of the constants, from the named assumptions of the modules alone:
`ConstantsOK` (types; `NoReply` is no reply), `ComlinkConstants` (at least one try; `NoReply`
is nobody's `Word`), `RequestsOK` (a request without POST has no body), `PoolOK` (at least one
table, `Peer` maps connections to peers), and those of the same kind in `LwsStatus`, `ThreadPool`,
`WsClose`, `LwsRing`, `RingUsers` and `LwsMirror` (`QUEUELEN` positive,
`1 <= RXFLOW_MIN <= RXFLOW_MAX`, `NoName` is no name).

Each module of theorems has one inductive invariant, proved with one step
per action, and each safety property follows from it. Every such invariant was first
checked with TLC on the instance of the run.

| module | inductive invariant | property theorems |
|---|---|---|
| `ComlinkProofs` (plugin) | `TypeOK`, `Delivery` (`TypeCorrect`, `DeliveryInvariant`); `Replying` | `OrderCorrect` (`InOrderOnce`), `ContentCorrect` (`WrittenIsLogged`), `AckCorrect` (`AckIsBacked`), `NewestNotForgotten` (`LatestIsOnItsWay`), `RepliesCorrect` (`OneReplyEach`) |
| `ComlinkProofs` (bridge) | `JobInv` (`JobsInvariant`) | `StoredCorrect` (`StoredVerifies`), `SettledCorrect` (`Settled`); `BridgeRunsPlugin`, `BridgeAckCorrect` (`AckIsBacked`) |
| `HttpPacketProofs` | `HttpInv` (`HttpInvariant`) | `ResponsesCorrect` (`ResponsesAreWhole`), `ForgottenNever` (`NeverForgotten`) |
| `LwsStatusProofs` | `WalkInv` (`WalkInvariant`) | `ShownCorrect` (`ShownIsRight`), `CourseCorrect` (`UntoldIsOnCourse`) |
| `HeaderPoolProofs` | `PoolInv` (`PoolInvariant`) | `AccountingCorrect` (`Accounting`), `WaitListCorrect` (`WaitListIsRight`), `PeerCorrect` (`PeerOutlivesWsi`) |
| `ThreadPoolProofs` | `ThreadInv` (`ThreadInvariant`) | `KeptCorrect` (`TasksAreKept`), `SyncCorrect` (`ExclusiveSync`) |
| `RingProofs` (users) | `UsersInv` (`UsersInvariant`) | `RingIsFifo` (`ImplementsFifo`), `CountsCorrect` (`CountsAddUp`) |
| `RingProofs` (mirror) | `MirrorInv` (`MirrorInvariant`) | `MirrorLosesNothing` (`NothingLost`), `MirrorNeverStalls` (`NobodyStalls`), `MirrorTimesOnlySlowest` (`OnlySlowestTimed`) |
| `WsCloseProofs` | `CloseInv` (`CloseInvariant`) | `ToldCorrect` (`ToldOnceInOrder`), `FrameCorrect` (`OneCloseFrame`), `ReasonCorrect` (`ReasonReachesPeer`), `FlushCorrect` (`FlushedBeforeClose`), `TimeoutCorrect` (`ClosingIsTimed`) |

Why the invariants are needed, and along which argument they hold:

- **LwsWebsocket.** `WrittenIsLogged` needs to know that the pending reply is the newest
  message's (`amsg = log[current].reply`), because a write copies `amsg` under the number
  `current`; `InOrderOnce` needs `joined <= last <= current`, because `Remember` sets `last` to
  `current` and the guard of the write only says they differ; `AckIsBacked` needs to know that
  a reply in the log was composed by the same test that started the commands, and that no
  command of this start has a number still to be given out. `Bookkeeping` collects these
  facts; `Delivery` is it with the two properties. `AckCorrect` follows in one state;
  `NewestNotForgotten` is a second induction. `RepliesCorrect` is a third, and the one theorem with a
  hypothesis, `Patient`: controllers wait for each answer, a packet is one fragment, nothing
  fails. That is the situation `OneReplyEach` is about and the one its run has. Its invariant
  `Replying` balances an account: what a session was owed is what is unread plus what became
  a message since it joined, and it is at most one more than what it was written; so the
  message that is pending when a write finds `last # current` is exactly the next one. A packet of
  two fragments breaks this: the second reply replaces the first.
- **Comlink.** Jobs exist only for fragments that verify (`OnlyVerified`), also when RECEIVE
  crashes between the two commands; a wget that still runs has a try left, so
  `posted <= tried <= Tries`. That an untroubled job does not fail needs to know that its
  service is up as long as it runs (a job that is neither ended nor troubled has a service that
  is up, so only the steps of a service that is up are its steps), and that what it stored
  stays, since only a redis that goes down loses data and that makes trouble of its finished
  jobs too; steps of the plugin only add jobs (`PluginSpawns`).
  `BridgeRunsPlugin` shows that a step of a job or of a service leaves the
  plugin's state alone, so what is proved of the plugin holds in the bridge.
- **HttpPacket.** The property is about what was written, so the invariant ties it to the wsi:
  `justHeader` is 1 only if the headers of this request are the last thing on the wire, and
  0, in a request that was not poked, only if nothing of it is. For that, one has to know
  that a request whose body is not complete has no callback coming unless it was poked,
  that a socket that failed never gets one, that `ReadAgain` leaves a connection that
  writes nothing more, and that header blocks still to be read belong to later requests.
  What is stashed is a front part of the input, so consuming some of it leaves what is behind it
  in order, whatever a read returned (`ConsumeKeeps`, `RestKeeps`); a request that was poked may have its
  headers written twice and still has one body at most (`OneBody`). `ReadStashedPost` changes
  nothing but `fate`: nothing happens after it.
  `HttpInv` is a conjunction over connections of facts about one connection's values; the
  lemmas are about these values, one for each library function.
- **LwsStatus.** A walk that nobody told of a change (`~changed_partway`) has sent a prefix of the
  list as it is, and its `walk_next` is the entry after it (`SentSoFar`), which is `CourseCorrect` itself;
  `ShownCorrect` follows from it at the last fragment. `trigger_resend()` is the only
  thing that changes the list and it tells everybody (`ResendKeeps`).
- **HeaderPool.** The counters are right after a hand-over only if whoever is on the waiting
  list holds no table, which is what POLLIN tells (`Reading`), and the last table is freed with
  nobody waiting only because the counters are right; so the three properties are proved together.
  The cardinality theorems of the library do the counting (`TallyAdd`, `TallyRemove`).
- **ThreadPool.** A task is in one place because a worker holds one exactly in part of its
  loop (`Working`), and the service thread reaps what is not on the queue (`Serving`); the
  rendezvous is exclusive because a worker in it that was not signalled stays in it. All of
  it is conditional on `~wild`, the memory accesses of section 4, as the properties are, and the
  exclusion on the worker not having been `released` by a second callback or a spurious wake-up.
- **Ring.** Offsets modulo the size say little by themselves; positions in the log of
  everything ever inserted say it all. `Holds(r, e, n, f, lg)` is a ring of `n` elements of `e` bytes
  whose head is at position `Len(lg)` and whose oldest tail is at `f`, with `f <= Len(lg) < f + n`
  and the stretch between them in the slots `i % n`. Two such positions share an offset only if
  they are equal (`Apart`); from that come one lemma per function of `lws-ring.c`: what is free and waiting
  (`FreeHolds`, `WaitingHolds`), and what `Fill`, `CopyOut` and `lws_ring_update_oldest_tail()` do to log and
  positions (`FillHolds`, `CopyHolds`, `UpdateHolds`). `UsersInv` says that the ring `Holds` the
  log and each reader's tail is where its position is. Under it every action is the action of the abstract
  queue of the same purpose (`InsertStep`, `ConsumeStep`, ...), which is the refinement; the
  smallest position exists because the naturals are well-founded (`LeastPosition`).
- **LwsMirror.** Messages of an instance are numbered, so its log is `1..m`. The invariant is the existence of a
  number `g[n]` per instance, how many of them were given up, such that the ring `Keeps` the rest,
  every session has had between `g[n]` and all of them, and its tail is there. Only a
  session at the oldest tail looks for a new one, and that suffices because the oldest tail is
  the position `g[n]` and no other (`AtOldest`). A search moves `g[n]` to the least position
  (`WorstMoves`): whoever was on the timeout and is still there had that position, so the oldest tail did
  not move; and if it moved, reception was looked at.
- **WsClose.** One record, six groups of facts (`Telling`, `Framing`, `Reasoning`, `Flushing`,
  `Timing`, and `Resting`, which holds only between callbacks). The functions of the library
  each have a lemma, because a callback calls several of them in a row. `Timing` has the three
  exceptions of `ClosingIsTimed`; a user's callback can end the timeout only while it is called,
  and of the closing states that is AWAITING_CLOSE_ACK alone.

## 6. What is only model-checked

All liveness (`Answered`, `AckIsKept`, `RequestEnds`, `Converges`, `WaitingEnds`, `NeverShut`,
`FinishedIsReaped`, `DestroyEnds`, `CloseEnds`): fairness and ENABLED are out of the
prover's reach. The codec (`SentVerifies`, `OneErrorNoticed`, `SplitAssertsExactly`,
`VerifiedHasKey`): what a fold computes for every string needs induction over data.
Every other property of a passing run is the statement of a theorem.

## 7. What is left

Modelling: nothing more of the server's own path is planned. The
`handling_pollout` / `leave_pollout_active` handshake needs a second service thread,
which this server does not start; `lwsws`' parent and `client.c` have a handful of
states each.

Proofs: none within the prover's reach; section 6 says what stays with TLC.

## 8. What is not modelled

`PROJECT.json` lists every part. In short: TLS, platform layer, the event
libraries beyond libuv's asynchronous close (system calls and adaptors); http/2,
client roles, CGI, dbus, raw (not used by this
server); header text parsing, ranges, file serving, access log, lws-spa, JSON
configuration (text and I/O with no shared state beyond what `HeaderPool` and
`HttpPacket` keep); extensions, sha-1, base64, jws, full-text search, lwsac, disk cache
(codecs and data structures outside this server's path); vendored plugins and
examples; Node test scripts; build and deployment files, which were read for the
options they set.
