# TLA+ verification of mcp-cpp

mcp-cpp is a C++ library for the Model Context Protocol: JSON-RPC 2.0 sessions
over stdio or HTTP, a `Server` and a `Client` on top of them, and long-running
tasks. This directory holds TLA+ models of its concurrent parts, TLC instances
that check them, and TLAPS proofs of what matters most.

Paths below are relative to the repository (`src/session.cpp` is
`src/src/session.cpp` in `PROJECT.json`).

## 1. Inventory

| Component | State | Operations | Hard behaviour |
|---|---|---|---|
| **Session** `src/session.cpp` | `started_`, `closed_`, `next_id_`, `pending_` (id to resolve/reject/deadline), handler tables, `on_closed_`, `workers_running_` | `send_request*`, `handle_frame` (response, request, notification), `timeout_loop`, the `on_close` lambda, `start`, `close`, `~Session` | Five threads compete for one `Pending` entry; promises are settled outside the lock; `close()` waits for workers that wait for promises; detached workers |
| **TaskStore** `src/server.cpp:72-449` | `entries_` (status, result, cancelled), `order_`, `workers_inflight_`, `shutting_down_`, listener | `create`, `complete`, `fail`, `cancel`, `wait_result`, `list`, `gc_expired`, `worker_started/finished`, `shutdown` | `complete`/`fail`/`cancel` race; notifications after the unlock; detached workers against `~Server`; cap checked before it is taken |
| **Registries** `src/server.cpp:452-600,800-880` | tools, resources, prompts (hash maps), templates and tasks (in order), `page_size_` | `tool`, `resource`, `prompt`, `resource_template`, the `*/list` requests | registration between the pages of a list; `size_t` sums of cursors a client may make up |
| **Server** `src/server.cpp` | `initialized_`, client capabilities, `session_`, `stop_requested_` | `run`, `stop`, `handle_*`, registration, `notify_*`, `sample`, `elicit`, `list_roots` | `run()` waits for `stop()` or for the session to close; one Server, several connections in turn |
| **Client** `src/client.cpp` | `connected_`, `session_`, `server_`, the handlers it keeps, `capabilities_override_` | `connect`, `disconnect`, `initialize`, typed requests, setters of handlers | a second thread inside `initialize` or a request while the first disconnects and connects again; `std::async` that outlives its session |
| **StdioTransport** `src/stdio_transport.cpp` | `running_`, `closing_`, `close_fired_`, wake pipe, read thread, write mutex | `start`, `close`, `send`, `read_loop`, `fire_close` | frames cut at any byte, full pipes, failed writes; EOF against `close()`; the close hook fires once |
| **HttpServerHost** `src/http_server_host.cpp` | session map, per session: inbound buffer, response slots, GET queue, run thread | POST, GET, DELETE, `start`, `stop` | requests of several HTTP threads, 504 timeouts, teardown races, several GETs on one queue, a host and a `Session` that read the same frame independently |
| **HttpClientTransport** `src/http_client_transport.cpp` | send queue, worker, GET stream thread, session id, `last_event_id_`, retry state | `start`, `send`, `close`, `process_send`, `run_get_stream`, `drain_sse` | session expiry (404), re-authorization, an event stream that breaks anywhere and is resumed |
| **Protocol types** `src/protocol.cpp` | none | `to_json`, `from_json`, `parse_message`, `serialize_message` | classification of frames, forms of request ids |
| **log, error** | a level and a sink | | none |

Interaction: a transport calls the session's `on_message` and `on_close` from
its own thread; the session calls `transport->send` and `transport->close`,
starts one detached thread per inbound request and one timeout thread; `Server`
registers handlers with the session and waits in `run()` for the `on_closed`
hook; a task-augmented `tools/call` starts a detached task worker that only
knows the `TaskStore`; `HttpServerHost` makes one `Server` and one transport per
HTTP session and runs `Server::run` in a thread of its own.

What makes each component correct: a request is answered exactly once and every
future is settled by the time `close()` returns (Session); a task has one
terminal transition, one terminal notification, and waiters see it (TaskStore);
a reader of a list sees every item once (Registries); `run()` returns when the
connection ends and serves nobody on the strength of an earlier client (Server);
a `Client` that disconnects leaves nobody waiting (Client); frames arrive whole,
once and in order (StdioTransport, and the event streams of the HTTP
transports); every HTTP request gets its own answer and every session is torn
down once (HttpServerHost); `close()` leaves no thread behind
(HttpClientTransport).

The hazards behind these, with the lines where they bite, are the list
`hazards` of `PROJECT.json`; more that was seen without a property of its own is
at the end of section 4.

## 2. Plan

| Order | Module | What | State |
|---|---|---|---|
| 1 | `Session` | the JSON-RPC session | done |
| 2 | `RequestContract` | abstract specification of a session for its callers; `Session` implements it | done |
| 3 | `SessionProofs` | type correctness, settled once, nothing lost, no duplicate id, no worker left behind, the refinement of the contract | done |
| 4 | `TaskStore`, `TaskStoreProofs` | tasks and their theorems | done |
| 5 | `HttpHost`, `HttpHostProofs` | session map, POST, DELETE, `stop()`, the transport and run thread of a session | done |
| 6 | `HttpClientTransport`, `ClientSideProofs` | send queue, sender threads, session id, GET thread, close | done |
| 7 | `ServerRun`, `ServerProofs` | initialize, the initialized gate, run, stop and run again | done |
| 8 | `Registry`, `ServerProofs` | registration, pages and cursors with `size_t` arithmetic | done |
| 9 | `FrameChannel` | abstract specification of one direction of a transport | done |
| 10 | `Stdio`, `StdioProofs` | two `StdioTransport`s and their pipes; implements `FrameChannel`, proved | done |
| 11 | `HttpStream`, `HttpStreamProofs` | the host's GET streams and their queue; implements `FrameChannel` | done |
| 12 | `Wire` | what a frame is to `protocol.cpp` and to the host; used by `HttpHost` | done |
| 13 | `Client`, `ClientSideProofs` | the facade over one session at a time, and its theorems | done |
| 14 | `EventStream`, `EventStreamProofs` | how the client reads the event stream, its resumption and pauses; implements `FrameChannel`, proved | done |
| 15 | composition | `HttpStream` and `EventStream` as the two ends of one stream; `Client` over `RequestContract` | later |

Two abstract specifications tie the layers together. `RequestContract` is what
`Client`, and the requests a server makes to its client, need of a session.
`FrameChannel` is what a session needs of a transport, direction by direction:
complete frames, each once, in order.

## 3. Modules

### Session

One action per block of code that runs under one lock (`pending_mu_`,
`workers_mu_`, `closed_cb_mu_`) or between two of them.

| Threads | Code | Actions |
|---|---|---|
| a call in `Calls` | `register_pending` | `SendRequest`, `Park`, `CallerReject`, `Send`, `Retract`; `DeadlinePasses` is its clock |
| timeout thread | `timeout_loop` | `TimeoutTop`, `TimeoutExpire`, `TimeoutNotified`, `SpuriousWakeup`, `TimeoutReject`, `TimeoutRelock` |
| a reader in `Readers` | `handle_frame`, the read loop | `HandleResponse`, `ResolveResponse`, `HandleNotification`, `DispatchRequest`, `ReadLoopExit` |
| on_close lambda | constructor, lines 40-63 | `OnCloseDrain`, `OnCloseReject`, `OnCloseMark`, `OnCloseCallback` |
| a worker in `Workers` | `handle_request` | `HandlerCalls`, `WorkerDone` |
| owner | `start`, `close`, `~Session`, and the transport's `start` and `close` | `Start`, `TransportStart`, `CloseBegin`, `CloseDrain`, `CloseReject`, `CloseCancelled`, `CloseWaitWorkers`, `TransportClose`, `TransportJoin`, `TransportFired`, `CloseNotify`, `CloseJoin` |

A `Pending` entry that has been moved out of the map is in the hand of a thread
(`tHand`, `rHand`, `oHand`, `lHand`, or the caller itself): that is the state
in which the code is about to settle a promise outside the lock. Settling a
promise twice, which would throw `future_error`, is the pseudo-outcome `twice`.

Abstractions: time is the set `due` of calls whose deadline has passed, so
`wait_until` returns `timeout` exactly when a deadline it was computed from has
passed; frames are their kind and id (frames that do not parse are dropped by
the code and have no action; `Wire` says which ones they are); a handler may
send one request at a time and wait for it; the transport is `StdioTransport` as
far as the session can tell, reduced to `running`, `fired` and the read loop's
exit. `close()` from within a handler (it would wait for itself) is a use the
code does not support and the model leaves out.

### RequestContract

The promise to callers without threads: opened only while the session is up,
one outcome, refused afterwards, nothing open when `close()` has returned.
`Session` maps `status` and `phase` to it and the property `RefinesContract`
says that every step of the session is one of the contract's or changes nothing
of it; in particular no call is open when `close()` has returned. A call whose own
thread has pulled its entry back after a failed send is
`withdrawn`: `close()` does not wait for that thread.

### TaskStore

`CallTool`, `Create`, `CreateAnnounce`, `WorkerStarted` are `handle_call_tool`;
`Complete` or `Fail`, `WorkerNotify`, `WorkerAnnounce`, `WorkerFinished` the
task worker; `Cancel`, `CancelNotify`, `CancelAnnounce` `handle_cancel_task`;
`GetTaskResult`, `WaitResult`, `WaitTimeout` `handle_get_task_result`;
`Shutdown`, `ShutdownNotify`, `ShutdownWait` `~Server`. What the code does after
unlocking `mu_` (notify `cv_`, call the listener) is a step of its own.
`notes` are the calls of the status listener in their order, each of which
sends one `notifications/tasks/status` while the session lives. Nothing removes
an entry: `gc_expired` has no caller.

### HttpHost

| Threads | Code | Actions |
|---|---|---|
| a request in `Posts` | the POST handler, `deliver_request_or_notification` | `Post`, `RegisterSlot`, `Deliver`, `PostAnswered`, `PostTimeout` |
| the run thread of a session | `Server::run`, `HttpSessionTransport::start` | `Construct`, `SessionStart`, `TransportStart`, `DrainFrame`, `Started`, `RunWakes`, `RunEnds` |
| a session worker | `HttpSessionTransport::send` of a response | `Respond` |
| DELETE | the DELETE handler | `Delete`, then the teardown |
| `stop()` | `HttpServerHost::stop` | `Stop`, the teardowns, `HttpStop`, `ListenerJoined`, `StopReturned` |
| teardown of a session | `invoke_session_closed`, `HttpSessionTransport::close` | `InvokeSessionClosed`, `TransportClose`, `TransportDrain`, `TransportOnClose`, `JoinRun` |

A session is a `SessionContext`; an id that is deleted and initialized again is
another element of `Sessions`. The `Session` object is seen from outside: it is
constructed (`wired`), started, closed by the transport's hook (`sClosed`) and
gone when `run` is `done`. The body of a POST is a `frame` of `Wire`; two POSTs
may have the same one. The host decides from the raw JSON whether it waits for an
answer (`IsRequest`) and under which key (`CanonicalId`); the `Session` decides
from the parsed frame (`Dispatch`). A frame that is delivered to a `Session` that
is gone would call through dangling references; in the model nothing answers it.
The security checks, which look at headers only, are left out.

`Session` and `HttpHost` meet in `sClosed`: `Session`'s `Start` and
`OnCloseMark` are `SessionStart` and `TransportOnClose` here.

### HttpClientTransport

| Threads | Code | Actions |
|---|---|---|
| owner | `start`, `close`, `fire_close` | `Start`; `CloseBegin`, `CloseDelete`, `CloseWakeWorker`, `CloseWakeGet`, `JoinWorker`, `JoinGet`, `CloseDrain`, `FireClose` |
| any caller | `send` | `Send`, `Push` |
| worker | `worker_loop` | `WorkerWait`, `WorkerDispatch` |
| one sender thread per frame | `process_send` and the end of its thread | `PostFails`, `PostReturns`, `NotifyFirstId`, `HandleStatus`, `DeliverBody`, `SenderEnds` |
| GET thread | `run_get_stream` | `GetTop`, `GetWait`, `GetReturns`, `GetRetry`, `GetPauseEnds` |

The server is any server: every POST may fail, come back with any class of
status and name any session id, and the GET may end with any of them. A block
under `out_mu_`, `session_id_mu_` or `inflight_mu_` is one step. What flows
through the stream, the event ids and the length of the retry pause are in
`EventStream`.
`asked` and `rearmed` count calls of `on_unauthorized` and POSTs answered 2xx;
they exist for `AskedOncePerBatch` and are bounded by the number of frames.

### ServerRun

| Threads | Code | Actions |
|---|---|---|
| the caller of `run()` | `Server::run` | `RunBegin`, `RunResetStop`, `RunBind`, `RunStart`, `RunWait`, `RunClose`, `RunDrain`, `RunUnbind` |
| any thread | `Server::stop` | `Stop` |
| the session | the end of its input, its `on_closed` hook, a frame that gets a worker | `SessionEnds`, `OnClosed`, `Arrive` |
| a worker | `handle_initialize`, the check of `initialized_`, the rest of a handler | `Claim`, `Record`, `Describe`, `Gate`, `Serve` |

A request belongs to the connection in which it arrived (`at`). The session is
what `run()` knows of it: `RunDrain` stands for the waits inside
`Session::close` that module `Session` has in detail, without the request that
arrives after the workers were counted. `ping` and
`logging/setLevel`, which do not look at `initialized_`, are not among the
requests. `MaxRuns` bounds the calls of `run()`.

### Wire

No state: of a JSON frame `Wire` keeps the members that say what it is, and the
JSON type of its id. `IsJsonRpcRequest`, `IsJsonRpcNotification`,
`IsJsonRpcResponse` and `Parses` are what `parse_message` and the `from_json`
behind it accept, `RequestIdOf` and `Response` the id of an answer; `IsRequest`
and `CanonicalId` are the host's own reading. Left out: numbers beyond
`int64_t` (one that is an integer wraps alike wherever it is read, the conversion
of one that is a float is undefined), the inside of an `ErrorObject`, and a body
that is no JSON, which the host answers with 202 or an error before any of this.

### FrameChannel

One direction of a transport as `transport.hpp` describes it: `Put`, `Take`, and
`Tear` for a write that fails part of the way, after which what was written is
glued to the next frame. `Stdio` implements it from client to server
(`ToServer`), and all GET streams of an HTTP session together implement it
(`ToClient` of `HttpStream`). On the client's side the connections of the GET
thread implement it too (`ToApplication` of `EventStream`), as long as no POST is
answered with a numbered event.

### Stdio

| Threads | Code | Actions |
|---|---|---|
| any sender at an end | `send` | `Enter`, `Lock`, `Write`, `Feed`, `WriteFails` |
| read thread of an end | `read_loop`, `fire_close` | `ReaderCheck`, `PollWake`, `PollRead`, `PollHangUp`, `PollFails`, `LineByte`, `ExcessByte`, `PlainByte`, `ReaderEnd` |
| owner of an end | `start`, `close`, `~StdioTransport` | `Start`; `CloseFlags`, `CloseWake`, `CloseJoin`, `CloseLock`; `Release` |

Two ends, `client` and `server`, with a pipe of `Room` bytes each way. A byte is
a letter of a frame, a line feed or a carriage return; a frame that contains a
line feed is refused, and one that ends with a carriage return loses it. A
carriage return counts toward `max_frame_bytes`. `sent` and `part` are history:
the lines that are complete on the wire, and what failed writes have left. The
owner calls `close()` and the destructor one after the other, as
`Session::close` and `~Session` do. `Session` has the same transport reduced to
`running`, `fired` and the end of the read loop.

### HttpStream

| Threads | Code | Actions |
|---|---|---|
| a thread that notifies or asks the client | `Server::log`, `sample`, `elicit`, ..., `HttpSessionTransport::send` | `Offer`, `SendCheck`, `Push` |
| a GET handler and its content provider | the GET handler, `wait_get_frame` | `Open`, `Provide`, `TakeFrame`, `Wait`, `WaitTimesOut`, `Ping`, `Write`; `HangUp` is its client |
| teardown | the DELETE handler or `stop()`, `HttpSessionTransport::close`, the end of `run` | `Unlist`, `Close`, `CloseNotify`, `RunReturns` |

A GET that sleeps (`asleep`) is woken by a notification or by the 15 s of its
wait. `pushed` and `taken` are history: the frames `send()` has accepted, and
those that have left the queue. `get_active_` is written and never read, so it
is not in the model.

### EventStream

| Threads | Code | Actions |
|---|---|---|
| GET thread | `run_get_stream`, `drain_sse`, `deliver_frame` | `Connect`, `Receive`, `Drain`, `Deliver`, `Retry`, `PauseEnds`, `Stop` |
| a sender thread whose POST is answered by a stream | `process_send` | `Reply` |
| owner | `close` | `Close`, `CutOff` |
| the server and the network (external) | | `Publish`, `Heartbeat`, `Break` |

The text of an event is a sequence of tokens, one per field, and the bytes of
its line ends, so a chunk (`Receive`) may end between any two of them, between
the CR and the LF of a terminator too. A chunk that ends inside a field is to
`drain_sse` like one that ends before it. `Drain` is the loop of `drain_sse` up
to the first complete event: `Terminators` finds its end, `Values` its fields,
`Taken` the `retry:` that counts (`LastOf` the valid ones). The server numbers its events, keeps them all,
and sends those after `Last-Event-ID` to a new GET; it uses one line end. `seen`
(history) is the last event the GET thread has read, and `strayed` that a GET
has named another one, because the answer to a POST had moved `last_event_id_`.
`OneChannel` maps the module to `FrameChannel`: what was published with data is
what was sent, what `on_message` was given is what arrived. No run checks it,
since the instance of `events` has such an answer; with `MaxReplies = 0` TLC finds
it to hold there, and `EventStreamProofs` proves it (section 6).

### Client

| Threads | Code | Actions |
|---|---|---|
| the `Connector` | `connect` | `Connect`, `MakeSession`, `AcquireMade`, `StartSession`, `Connected` |
| `Disconnectors` (and `connect` itself) | `disconnect` | `Disconnect`, `Swap`, `TakeSession`, `CloseSession`, `ResetServer` |
| `Initializers` | `initialize` and its `std::async` | `Initialize`, `Derive`, `JobSend`, `JobStore`, `JobNote`, `Forget` |
| any thread | requests, notifications | `Call`, `SendRequest`, `Answer`, `Notify`, `Tell` |
| the `Registrar` | `set_*_handler`, `set_client_capabilities` | `SetHandler`, `KeepHandler`, `RegisterHandler`, `SetNoteHandler`, `SetCapabilities` |
| the peer | its session, its server | `PeerGoes`, `PeerInitialize` |

A session is a number; `mine` and `job` are the copies of `session_` that
threads hold, and a session is closed with its last reference (`Refer`).
`connected_` and `session_` are read and written apart, as in the code. A
request whose session has ended is rejected in the same step, which is what
`RefinesContract` allows the model to assume. The specification is called
`ClientSpec`, with `ClientInit` and `ClientNext`, because `ClientSideProofs` has
the theorems of this module and of `HttpClientTransport` and extends both. Left
out: a `disconnect()` from within a handler, which waits for itself; a `Client`
that is destroyed before the future of its `initialize`; the handlers' own
execution.

The instance has one disconnector, which is the connector. Another thread that
disconnects may have taken the flag but not yet `session_` when `connect()` finds
the flag down and installs the next session; what that thread then takes and
closes is the new one, and the `Client` is connected without a session.
`client.hpp` does not say which calls may be concurrent, so this is noted here
and not counted as a finding. `FlagIsRight` and `NobodyForgotten` have it as
their hypothesis `OneThreadConnects`; the other theorems hold for any number of
disconnectors.

### Registry

`Register` is `tool`, `resource` and `prompt`, `Add` is `resource_template` and
`TaskStore::create`; `Begin` and `NextPage` are a client that follows
`nextCursor`, and `Reply` is the whole handler of a list request, errors
included. `PageEnd` and `ListEnd` are the two implementations of a page (of
`paginate` and of `TaskStore::list`), with sums modulo `Word`, and `Valid` the
two decoders, which differ: `TaskStore::list` accepts a cursor of more than 20
digits with zeros in front, `decode_cursor` does not. A hash map may be iterated
in another order once it has a new key (`Orders`); `mixed` records that this has
happened to the list that is read. Its specification is called `RegistrySpec`,
because `ServerProofs` has the theorems of this module and of `ServerRun` and
extends both.

## 4. Runs

| Run | Instance | Checks |
|---|---|---|
| `session_safety` | 2 calls, 1 worker, 1 reader, symmetric calls | `SettledOnce`, `NoRequestLost`, `SafeTeardown`, refinement of `RequestContract` |
| `session_live` | 1 call, 1 worker, 1 reader, fair | `CloseReturns`, `OnClosedFires`, `AnsweredWhileOpen` |
| `tasks` | 2 tasks, cap 1, 1 waiter, fair | `OneTerminalNote`, `StoreOutlivesWorkers`, `WaitersWake`, `ShutdownEnds` |
| `host` | 1 session, 2 POSTs, frames of five kinds, fair | `AwaiterReachable`, `AnsweredInKind`, `PromiseSetOnce`, `AnsweredWhileOpen`, `CloseReachesRun` |
| `client` | 2 frames, 2 session ids, any server, fair | `NothingRunsAfterClose`, `AskedOncePerBatch`, `QueuedIsPosted`, `StreamFollowsId`, `CloseReturns` |
| `server` | 3 requests, 2 capabilities, 2 runs, fair | `ServedAfterInitialize`, `HandlersHaveSession`, `RunReturns` |
| `facade` | 2 threads, one of which connects and disconnects, 1 capability, 1 notification, 2 sessions | `FlagTellsState`, `HandlersAgree`, `NobodyLeftBehind`, `InitializedAfterAnswer` |
| `paging` | a hash map, a list, the task store, 3 items, page sizes 0, 1, 2, 6, 7, sums modulo 8, fair | `AllSeenOnce`, `ReadingEnds` |
| `stdio` | 2 frames of one direction, of 0 or 2 bytes, with CR or LF in them; pipe, chunk and limit of 2 bytes; fair | `HangUpLosesNothing`, `ChannelToServer`, `Arrives`, `CloseReturns` |
| `stream` | 3 frames, 2 GETs, fair | refinement of `FrameChannel` (`OneChannel`), `StreamsLeave`, `QueueIsServed` |
| `events` | 2 events, 2 breaks, 1 POST answered by a stream, `retry:` below, within, above and beyond the limits, LF or CRLF, fair | `Resumed`, `PauseAsTold`, `AllArrive` |

The type invariants, and the safety properties not in this table, are theorems
(section 6), which say more than a run of one instance; they held in TLC too
before they were proved.

Bounds. Two calls are the smallest number for which ids can collide, the
timeout can expire one entry and keep another, and a drain has an entry left to
reject while another call parks. One worker is enough for a handler that waits
for a nested call during `close()`, and worker slots are reused, so a worker
can start at any time. One reader is the stdio case; over HTTP several threads
deliver responses at once, which the runs leave to the theorems: they hold for
any set of readers. Two tasks exceed the cap of one. Two POSTs are enough for
two requests with one id, a response of one while the other waits, and an
initialize next to a request that comes before the session is ready; their frames
are a request, one with a string of the same digits for its id, one with the
float of that number, a notification, and a request that does not parse, in any
combination. They share the one session, so the order in which `stop()` goes
through several sessions is in the model (`MyTurn`) but not exercised. Two frames
are enough for a sender thread to be in flight while another frame is in the
queue or between the two, and for a batch of two denied POSTs; two ids for one
that replaces another. Two runs are enough for a second client to meet what a
first one left behind, and three requests for two that compete for
`initialized_` next to one that needs it. Two sessions are enough for a thread
to hold on to the one while the other is current. Three items give pages of two
and one, and with sums modulo 8 the page sizes 6 and 7 wrap as sizes near 2^64
do. A pipe, a chunk and a limit of two bytes make every frame of the run span
several writes, reads and chunks, and reach the limit with its carriage return.
Three frames on two GETs leave one in the queue while both write. Two events and
two breaks lose each event on its way once, or one of them twice; `IntMax` is
80000 so that 90000 stands for what `std::stoi` does not take. `CHECK_DEADLOCK`
is off because a closed session, a destroyed store and a stopped host really
stop. Response ids range over every id handed out in the run and one that never
is, so late, duplicate and unknown responses are all included.

One run expects a violation, a finding of `PROJECT.json` with the line it
contradicts: in `session_stranded` the `on_close` lambda drains `pending_` before
it sets `closed_`; a call parked in between is answered by nobody until
`close()`, because the timeout thread exits on `closed_`. `AnsweredWhileOpen` of
`Session` is what remains true: every request is answered while the input lasts.

Behaviours that the models have, without a run of their own:

- `close()` looks at `workers_running_` before it stops the read thread
  (`session.cpp:146`): a request that arrives in between gets a worker that
  `~Session` does not wait for. `SafeTeardown` is what remains true: if `close()`
  has returned once before the destructor, as `Server::run` and
  `Client::disconnect` arrange, no worker outlives the session;
- the task cap is checked (`server.cpp:887`) and only later taken, by concurrent
  handlers, so more workers than the cap may run;
- `Session::start` stores `closed_ = false` (`session.cpp:119`), also after a
  DELETE or `stop()` has closed the transport: `run()` then waits forever, and
  `stop()` for it. `CloseReachesRun` speaks of sessions that were started before
  they were closed;
- a request whose id is a whole float is accepted by `from_json`
  (`protocol.cpp:75-78`), but `canonical_id` (`http_server_host.cpp:246`) has no
  key for it: the answer, which has an integer for its id, finds no slot, and the
  POST waits 30 s for a 504. `AnsweredWhileOpen` of `HttpHost` speaks of strings
  and integers. The same wait awaits a POST whose frame has an id and a method
  but does not parse;
- a 404 ends the GET thread for good (`http_client_transport.cpp:558`): the
  session id of a later initialize opens no stream;
- the answer to a POST can move `last_event_id_`
  (`http_client_transport.cpp:445`) past events the GET stream has not brought,
  or back; the next GET then misses them or gets them twice (`strayed`);
- the handlers a `Client` keeps are registered with the session of the moment:
  after a reconnect it still derives capabilities from handlers that the new
  session does not have. `HandlersAgree` speaks of the first connection.

Seen while reading:

- nothing calls `gc_expired`, although `src/server.cpp:123` speaks of a
  background thread that does; `shutdown()` fails no task, although
  `src/server.cpp:140` says it does;
- the `on_close` lambda sets `closed_` before it calls its hook, so an owner
  that polls `is_open()` may destroy the session under it;
- `std::thread` can throw after `worker_started()` (`server.cpp:913`): the count
  is never taken back; a `tasks/result` waiter holds a session worker for up to
  25 s, and `Session::close` waits for it;
- a task that is cancelled at once can have `cancelled` announced before
  `working`;
- a session that is created between `stop()`'s swap of the map and
  `http.stop()` is torn down by nobody; a POST that gives up with 504 leaves its
  response slot; a frame delivered while `HttpSessionTransport::start` drains
  the buffer overtakes the buffered ones; a POST that looked its session up
  before a DELETE can call `on_message_` of a `Session` that is gone;
- `HttpClientTransport::send` may report success for a frame that is queued
  after the worker has returned (hence `~closed` in `QueuedIsPosted`), and
  `HttpSessionTransport::send` for one that is queued when every GET has left;
  the late answer of a POST can bring back the session id a 404 has cleared, and
  a 404 of a POST clears none; `started_` is never cleared, so a transport is not
  started twice;
- `drain_sse` knows LF LF and CR LF CR LF (`http_client_transport.cpp:78`): an
  event of a server that mixes line ends may end with LF CR LF and is glued to
  the next; `last_event_id_` outlives a change of the session id;
- `client_capabilities()` keeps the earlier client's value until the next
  initialize, where `server.hpp:230` says it is empty before one
  (`CapabilitiesOfClient` speaks of the time after it); a `stop()` that comes
  before `run()` has reset its flag is lost;
- two threads in `StdioTransport::close` would both join the read thread.

## 5. Fairness

Weak fairness for every thread that is inside the library: an enabled step of
`register_pending`, of the timeout thread, of the lambda, of `close()`, of a
task worker is taken in the end, because these are OS threads that block only
on the conditions the guards state. Application handlers are assumed to return
and time to pass (`DeadlinePasses`). Nothing is assumed of the peer: it need
not send a response, a request, or close its end. No fairness is given to
spurious wake-ups or to the wait budget of `tasks/result`, so nothing relies on
them.

Strong fairness is assumed twice, in `Session`: for the read loop to look at
`running_` again once `close()` has cleared it (it reads a bounded chunk and then
checks), and for `CloseWaitWorkers`. The latter says that `close()` gets its turn
if `workers_running_` is zero again and again; a peer that keeps a request in
flight at every moment can still hold `close()` up, in the code as in the
model. The owner is never obliged to close or to destroy the session.

- `HttpHost`: every thread runs and request handlers return. The 30 s wait of a
  POST is fair only once its session is closed: in an open session the answer
  must come from the handler, not from the timeout. Clients need not send
  anything, and nobody need call `stop()`.
- `HttpClientTransport`: every thread runs and a POST ends, with its request
  timeout at the latest. The GET is fair only once the transport is closed:
  `close()` cuts it off with `client_get.stop()`, and one that began just after
  that ends at its next data, for instance a heartbeat. In an open transport it
  may last forever.
- `ServerRun`: threads run and handlers return; no client need arrive or leave,
  and nobody need call `stop()`.
- `Stdio`: threads go on, and a write to an end that is gone fails and does not
  block. No end need start, send or close; a send to a peer that has stopped
  reading may wait forever, and `close()` with it (`Stuck`).
- `HttpStream`: threads run. No progress is owed to the 15 s of a wait, so
  `QueueIsServed` and `StreamsLeave` rest on the notifications alone.
- `EventStream`: the GET thread runs and what is on its way arrives. The server
  need not send anything, and no heartbeat is relied upon; breaks are bounded,
  since a network that breaks every connection delivers nothing.
- `Registry`: only the reader goes on. `Client` states no liveness property.

## 6. Proofs

TLAPS proves, for any sets of calls, workers, readers, waiters, sessions, POSTs,
frames, GETs and requests, any finite set of tasks, any cap, page size, pipe size
and number of runs, and any log of events, cut into any chunks and connections:

- `SessionProofs`: `Spec => []TypeOK` (`TypeCorrect`), `Spec => []SettledOnce`
  (`AtMostOnce`), `Spec => []NoRequestLost` (`NothingLost`), `Spec =>
  []NoDuplicateId` (`DuplicateUnreachable`). The properties are not inductive:
  that a promise is settled once follows from who may settle it. `Inv` adds
  *Ownership*: an entry is in exactly one place (map or one hand) and whoever
  has it finds the promise open; *IdsDistinct*: calls past `next_id` have
  different ids below `nextId`; *Hands* and *Phases*: hands are empty except at
  the program points between taking and settling. Assumption: the response ids
  are naturals. `Spec => []SafeTeardown` (`NoWorkerOutlives`) and `Spec =>
  RefinesContract` (`KeepsContract`) need more, *Teardown*: the hook runs once,
  in the read thread or after it, so that a `close()` that has returned leaves
  no thread that could start a worker, and a second one has none left past its
  wait; once `closed_` is set and the map is drained nothing is parked again.
  Both theorems have the hypothesis `OneReader`, one thread that delivers
  frames, as `StdioTransport` has. Over HTTP, where several deliver, a request
  may get a worker after `close()` has counted them (section 4). The refinement
  is proved action by action: a step settles one call, or moves the phase of the
  session, or changes nothing that the contract speaks of. In the attempt the
  guards of `callStatus` and `sessionPhase` turned out to overlap, and a `CASE`
  then chooses; they are `IF`s now.
- `TaskStoreProofs`: `TypeOK`, `TerminalIsFinal`, `OneTerminalNote`,
  `CancelWins`, `StoreOutlivesWorkers`. The strengthening relates the program
  counters of the worker and of the canceller to the status, counts the
  terminal notifications that are still to come, and ties `inflight` to the
  cardinality of the set of live workers. Assumptions: finitely many tasks, and
  the cap is a natural.
- `HttpHostProofs`: `TypeOK`, `HookOnceBeforeClose`, `DispatchedWhenReady`,
  `AwaiterReachable`, `PromiseSetOnce`, `AnsweredInKind`, `ReadAlike`. The
  strengthening says that a session's teardown starts when it leaves the map
  (*Teardown*), that the gate is open only past the registration of the handlers
  (*Gates*), that a slot in the map is the unset promise of a POST to its session
  (*Slots*), that buffered frames are those of their session (*Queues*), and that
  exactly the POSTs whose frame the host takes for a request wait (*Unawaited*).
  Assumptions: every POST has a session, and what POSTs carry are frames.
- `ServerProofs`, about `ServerRun`: `TypeOK`, `InitializedOnce`, `ServedAfterInitialize`,
  `CapabilitiesOfClient`, `HandlersHaveSession`. The strengthening says that
  runs are numbered and no request is of a later one (*Numbers*), that handlers
  are of the present run while `run()` has not drained them (*Handlers*), that
  `initialized_` holds exactly when an initialize of the present connection was
  accepted (*Initialized*), and that its capabilities are then the recorded ones
  (*Recorded*). Without *Initialized* the gate says nothing of who opened it.
  Assumptions: `MaxRuns` is a natural, `NoCapabilities` is no capability.
- `ServerProofs`, about `Registry`: `RegistryTypeOK` (`RegistryTypeCorrect`),
  `AllSeenOnce`, `OwnCursorsServed`, `PagesWithinList`. *PlacesOK*: the places of a list are a numbering of its
  content; *ReadSoFar*: the reader has been given the items in front of its
  cursor once and no other, unless the order has changed; *ReaderOK*: a cursor
  that was given out is the end of a whole page, so that the next sum does not
  wrap. Assumption: a list fills at most half of what a word can count
  (`2 * MaxItems < Word`), as a list of objects in memory does.
- `StdioProofs`: `TypeOK`, `NothingAfterOnClose` (`CallbackIsLast`),
  `HangUpLosesNothing` (`NothingLost`), and `ChannelToServer` (`StdioIsAChannel`):
  the two transports implement `FrameChannel`. For the first, *Joined*: past the
  join of `close()` no read thread delivers; *FiredIsOver*: who has called the
  hook, the read thread at its end or `close()` after the join, is the last who
  can. The others rest on `Flow`: the unfinished line, the chunk and the pipe
  together are the lines that were sent and not yet received, and then the part
  of a line that is being written (*StreamAt*); the writer and its frame are the
  holder of `write_mutex_` (*Sender*); a chunk is read to its end before the
  thread looks again, and a hang-up is seen only when the pipe is empty
  (*ReaderAt*); nothing exceeds its limit (*Sizes*). That a string consists of
  these lines is not defined by recursion: `Splits` states it with functions that
  say where each line feed is and which line ends there, and every step has a
  lemma that gives the new functions from the old. Assumptions: no frame belongs
  to both ends or is the `nobody` that holds a free mutex; lengths and limits are
  naturals, and the pipe and a chunk hold at least a byte.
- `HttpStreamProofs`: `TypeOK`, `EachOnce`, and `OneChannel` (`StreamIsChannel`):
  the GET streams of a session implement `FrameChannel`. *Ordered*: what was
  accepted is what has left the queue followed by what is in it; *Holding*: a GET
  holds a frame exactly between taking and writing it; *Placed*: a frame is in
  one place, counted.
- `ClientSideProofs`, about `HttpClientTransport`: `TypeOK`,
  `NothingRunsAfterClose` (`NothingLeft`), `AskedOncePerBatch` (`AskedOnce`).
  *Queued* and *InHand*: the queue holds waiting frames, each once, and the
  worker at most one more; *Counted* ties `inflight_` to the number of sender
  threads; *Fresh*: a transport that was not started has no thread and an empty
  queue; *Joined*: past the joins of `close()` neither worker nor GET thread is
  left, so nothing can raise `inflight_` again; *Authorized* counts the calls of
  `on_unauthorized` against the POSTs that succeeded between them. Assumption:
  finitely many frames.
- `ClientSideProofs`, about `Client`: `ClientTypeOK` (`ClientTypeCorrect`),
  `HandlersAgree` (`HandlersStayTogether`), `InitializedAfterAnswer`
  (`NoteAfterAnswer`), for any number of threads, sessions and disconnectors;
  `FlagTellsState` (`FlagIsRight`) and `NobodyLeftBehind` (`NobodyForgotten`) if
  one thread connects and disconnects (`OneThreadConnects`, section 3). The types
  include that only the connector is on its way to a session (*ConnectorAlone*).
  *Agreement*: the handlers that are kept are those of the first session and the
  one that is on its way there; *Handshake*: a job that has its answer has it from
  the peer its notification goes to; *Waiters*: who waits, waits for an open
  session; *Linked*: all sessions but one are closed, and where the connector is
  says which one that is and whether the flag is up. The flag alone does not: it
  goes down before the session is taken and up after it is installed.

- `EventStreamProofs`: `TypeOK`, `Resumed` (`ReadOnceInOrder`), `PauseAsTold`
  (`PausesAsTold`), that no GET strays unless a POST was answered with a numbered
  event (`StraysOnlyByReply`), and that without such answers the stream implements
  `FrameChannel` (`StreamIsChannel`). The strengthening: *Flow*, what is in the
  buffer and on its way is a sequence of whole pieces, each a comment or the text
  of the next event, the last of them the last event of the log, the first the one
  after `seen` if no GET strayed; *InHand*, what is handed to the callback is the
  event just seen; *InOrder*, with it `got` is the frames of the events up to
  `seen`; *Told* and *Paused*, `retry` is the last valid suggestion of these events
  and the pause follows it; *Strays*, without an answer `last_event_id_` is `seen`.
  The step that matters is `Drain`: `Reads` says that, whatever comes after, the
  first terminator in the buffer is that of its first piece (`FirstEnd`, for both
  line ends), and that the fields found in front of it are those of the event
  (`TextLines`). `FlattenSeq`, `Values` and `FramesOf` are defined by recursion over
  the length of their argument, and what they compute for every argument needs
  induction over data. The library's induction theorems take an operator and
  cannot be used here; `SetInduction` is induction for sets (a set that has 0 and
  with each number the next one has them all) and is proved from the pigeonhole
  theorem of `FiniteSetTheorems`; `Recursion` gives from it the function that a
  recursive definition chooses. Assumptions: suggestions are integers, and bounds
  and the largest int naturals.

The inductive invariants were checked with TLC on instances of the runs' size
(for `Session` also with two readers) before they were proved.

Only model-checked: the liveness properties (liveness under fairness and
ENABLED are out of the prover's reach). Every other property of the passing runs
is a theorem.

## 7. Not modelled

- The JSON conversions of the protocol's plain records (tools, resources,
  content, capabilities): functions without state, a screen of code each.
- The handlers that look up one entry (`tools/call` without a task,
  `resources/read`, `prompts/get`, `completion/complete`): sequential.
- Origin, bearer and CORS checks of the host, functions of the headers of one
  request; the access token of the client transport, a string under a mutex;
  binding the port.
- Failures of the self-pipe in `StdioTransport::start`; exhaustion of threads.
- Logging, and the examples and benchmark: no concurrent state. cpp-httplib and
  nlohmann/json are third-party; httplib appears as external actions.
- Integer overflow of `next_id_` (63 bits); `gc_expired`, which nothing calls.
