------------------------------- MODULE Session -------------------------------
(***************************************************************************)
(* mcp::Session (src/src/session.cpp): the JSON-RPC layer between a         *)
(* Transport and the Server or Client that owns the session.                *)
(*                                                                         *)
(* Threads of the model, and the code they run:                            *)
(*   - one thread per call in Calls, inside register_pending;               *)
(*   - the transport's read threads in Readers, inside handle_frame and,    *)
(*     when the input ends, inside the on_close lambda of the constructor;  *)
(*   - the timeout thread, inside timeout_loop;                             *)
(*   - the detached request workers in Workers, inside handle_request;      *)
(*   - the owner, inside start(), close() and ~Session().                   *)
(* Every block of code that runs under pending_mu_, workers_mu_ or          *)
(* closed_cb_mu_ is one step; what runs outside a lock is another.          *)
(*                                                                         *)
(* A call's Pending entry (its resolve/reject pair) is either in pending_   *)
(* or moved out of it by a thread that will settle the promise outside      *)
(* the lock.  Those local variables are the "hands" below.                  *)
(*                                                                         *)
(* Time is abstracted to the set `due' of calls whose deadline has passed.  *)
(* The transport is StdioTransport as the Session sees it (start, close,    *)
(* send, the read loop and fire_close).                                     *)
(***************************************************************************)
EXTENDS Naturals, FiniteSets

CONSTANTS
  Calls,        \* invocations of register_pending
  Workers,      \* request workers that can be alive at the same time
  Readers,      \* threads on which the transport delivers frames
  RespIds       \* ids that response frames of the peer may carry

ASSUME RespIdsAssumption == RespIds \subseteq Nat

VARIABLES
  \* members of Session
  started,      \* started_
  closed,       \* closed_
  nextId,       \* next_id_
  pending,      \* pending_: the calls parked in the map, keyed by id[c]
  hookFired,    \* the on_closed_ callback has been invoked
  \* register_pending, one per call
  pc, id, fut, due,
  \* timeout_loop
  tpc,          \* program counter of the timeout thread
  watch,        \* the entries `soonest' was computed from
  tHand,        \* the local vector `expired'
  \* read threads
  rpc,          \* program counter of each read thread
  rHand,        \* handle_response: the local `pending', empty or one call
  rOutcome,     \* whether the response carries a result or an error
  \* on_close lambda
  opc, oHand,
  \* request workers
  wpc,          \* is the worker alive (counted in workers_running_)?
  awaits,       \* the call whose future the worker's handler waits for
  \* close(), run by the owner
  lpc, lHand,
  first,        \* the local `first' of close()
  dtor,         \* close() was called by ~Session
  closeDone,    \* an explicit close() has returned
  \* the transport
  running,      \* running_: sends are accepted
  fired         \* close_fired_

callVars   == <<pc, id, fut, due>>
timerVars  == <<tpc, watch, tHand>>
readerVars == <<rpc, rHand, rOutcome>>
onCloseVars == <<opc, oHand, hookFired>>
workerVars == <<wpc, awaits>>
ownerVars  == <<lpc, lHand, first, dtor, closeDone>>
wireVars   == <<running, fired>>
vars == <<started, closed, nextId, pending, callVars, timerVars, readerVars,
          onCloseVars, workerVars, ownerVars, wireVars>>

\* What a promise can be settled with: the peer's result or error, or the
\* error of the path that rejected it.  A second set_value or set_exception on
\* the same promise throws future_error: the pseudo-outcome "twice".
Outcomes == {"result", "error", "session closed", "transport closed",
             "request timed out", "duplicate id", "send failed"}

SessionTypes ==
  /\ started \in BOOLEAN /\ closed \in BOOLEAN
  /\ nextId \in Nat \ {0}
  /\ pending \in SUBSET Calls

CallTypes ==
  /\ pc \in [Calls -> {"idle", "park", "refuse", "duplicate", "send",
                       "retract", "withdrawn", "done"}]
  /\ id \in [Calls -> Nat]
  /\ fut \in [Calls -> Outcomes \cup {"none", "twice"}]
  /\ due \in SUBSET Calls

TimerTypes ==
  /\ tpc \in {"off", "top", "wait", "wait_until", "woken", "reject", "exited"}
  /\ watch \in SUBSET Calls /\ tHand \in SUBSET Calls

ReaderTypes ==
  /\ rpc \in [Readers -> {"off", "reading", "resolve", "notification",
                          "on_close", "exited"}]
  /\ rHand \in [Readers -> SUBSET Calls]
  /\ rOutcome \in [Readers -> {"none", "result", "error"}]

OnCloseTypes ==
  /\ opc \in {"none", "drain", "reject", "callback", "done"}
  /\ oHand \in SUBSET Calls /\ hookFired \in BOOLEAN

WorkerTypes ==
  /\ wpc \in [Workers -> {"off", "handle"}]
  /\ awaits \in [Workers -> SUBSET Calls]

OwnerTypes ==
  /\ lpc \in {"new", "starting", "idle", "drain", "reject", "wait workers",
              "transport close", "transport join", "fire close", "notify",
              "join", "destroyed"}
  /\ lHand \in SUBSET Calls
  /\ first \in BOOLEAN /\ dtor \in BOOLEAN /\ closeDone \in BOOLEAN
  /\ running \in BOOLEAN /\ fired \in BOOLEAN

TypeOK ==
  /\ SessionTypes /\ CallTypes /\ TimerTypes /\ ReaderTypes
  /\ OnCloseTypes /\ WorkerTypes /\ OwnerTypes

Init ==
  /\ started = FALSE /\ closed = FALSE /\ nextId = 1 /\ pending = {}
  /\ pc = [c \in Calls |-> "idle"]
  /\ id = [c \in Calls |-> 0]
  /\ fut = [c \in Calls |-> "none"]
  /\ due = {}
  /\ tpc = "off" /\ watch = {} /\ tHand = {}
  /\ rpc = [r \in Readers |-> "off"]
  /\ rHand = [r \in Readers |-> {}]
  /\ rOutcome = [r \in Readers |-> "none"]
  /\ opc = "none" /\ oHand = {} /\ hookFired = FALSE
  /\ wpc = [w \in Workers |-> "off"]
  /\ awaits = [w \in Workers |-> {}]
  /\ lpc = "new" /\ lHand = {}
  /\ first = FALSE /\ dtor = FALSE /\ closeDone = FALSE
  /\ running = FALSE /\ fired = FALSE

------------------------------------------------------------------------------
(* Helpers *)

\* A promise is settled with outcome o: resolve or reject is invoked.
Settled(c, o) == [fut EXCEPT ![c] = IF @ = "none" THEN o ELSE "twice"]

\* timeout_cv_.notify_all(): a waiting timeout thread leaves its wait.
NotifyTimer ==
  tpc' = CASE tpc = "wait"       -> "top"
           [] tpc = "wait_until" -> "woken"
           [] OTHER              -> tpc

\* pending_.find(i)
Find(i) == {c \in pending : id[c] = i}

\* The threads counted in workers_running_.
WorkersRunning == {w \in Workers : wpc[w] # "off"}

------------------------------------------------------------------------------
(* register_pending *)

\* next_id(); the deadline is computed right after it.
NextId(c) ==
  /\ pc[c] = "idle"
  /\ pc' = [pc EXCEPT ![c] = "park"]
  /\ id' = [id EXCEPT ![c] = nextId]
  /\ nextId' = nextId + 1

\* An application thread calls send_request, send_request_for or
\* send_request_void; it may do so before start() (Client::connect publishes
\* the session first), but not once the session is being destroyed.
SendRequest(c) ==
  /\ ~dtor
  /\ NextId(c)
  /\ UNCHANGED <<started, closed, pending, fut, due, timerVars, readerVars,
                 onCloseVars, workerVars, ownerVars, wireVars>>

\* Mutant: the timeout thread is not notified of a new entry.
ParkSilently(c) ==
  /\ pc[c] = "park"
  /\ \/ /\ closed
        /\ pc' = [pc EXCEPT ![c] = "refuse"]
        /\ UNCHANGED <<pending, tpc>>
     \/ /\ ~closed
        /\ IF Find(id[c]) = {}
             THEN /\ pending' = pending \cup {c}
                  /\ pc' = [pc EXCEPT ![c] = "send"]
                  /\ UNCHANGED tpc
             ELSE /\ pc' = [pc EXCEPT ![c] = "duplicate"]
                  /\ UNCHANGED <<pending, tpc>>
  /\ UNCHANGED <<started, closed, nextId, id, fut, due, watch, tHand,
                 readerVars, onCloseVars, workerVars, ownerVars, wireVars>>

\* The locked block of register_pending.
Park(c) ==
  /\ pc[c] = "park"
  /\ \/ /\ closed
        /\ pc' = [pc EXCEPT ![c] = "refuse"]
        /\ UNCHANGED <<pending, tpc>>
     \/ /\ ~closed
        /\ IF Find(id[c]) = {}
             THEN /\ pending' = pending \cup {c}
                  /\ pc' = [pc EXCEPT ![c] = "send"]
                  /\ NotifyTimer
             ELSE /\ pc' = [pc EXCEPT ![c] = "duplicate"]
                  /\ UNCHANGED <<pending, tpc>>
  /\ UNCHANGED <<started, closed, nextId, id, fut, due, watch, tHand,
                 readerVars, onCloseVars, workerVars, ownerVars, wireVars>>

\* The caller itself rejects, after releasing pending_mu_: kClosed,
\* kDuplicate, or an entry it has pulled back after a failed send.
RejectOutcome(c) == CASE pc[c] = "refuse"    -> "session closed"
                      [] pc[c] = "duplicate" -> "duplicate id"
                      [] OTHER               -> "send failed"

CallerReject(c) ==
  /\ pc[c] \in {"refuse", "duplicate", "withdrawn"}
  /\ fut' = Settled(c, RejectOutcome(c))
  /\ pc' = [pc EXCEPT ![c] = "done"]
  /\ UNCHANGED <<started, closed, nextId, pending, id, due, timerVars,
                 readerVars, onCloseVars, workerVars, ownerVars, wireVars>>

\* send_message(req): a transport that is not running refuses, a running one
\* may still fail to write.
Send(c) ==
  /\ pc[c] = "send"
  /\ \/ running /\ pc' = [pc EXCEPT ![c] = "done"]
     \/ pc' = [pc EXCEPT ![c] = "retract"]
  /\ UNCHANGED <<started, closed, nextId, pending, id, fut, due, timerVars,
                 readerVars, onCloseVars, workerVars, ownerVars, wireVars>>

\* The catch block of register_pending: pull the entry back out, unless
\* somebody else has taken it meanwhile.
Retract(c) ==
  /\ pc[c] = "retract"
  /\ IF c \in pending
       THEN /\ pending' = pending \ {c}
            /\ pc' = [pc EXCEPT ![c] = "withdrawn"]
       ELSE /\ pc' = [pc EXCEPT ![c] = "done"]
            /\ UNCHANGED pending
  /\ UNCHANGED <<started, closed, nextId, id, fut, due, timerVars,
                 readerVars, onCloseVars, workerVars, ownerVars, wireVars>>

\* steady_clock reaches the deadline of a call.
DeadlinePasses(c) ==
  /\ pc[c] # "idle" /\ c \notin due /\ fut[c] = "none"
  /\ due' = due \cup {c}
  /\ UNCHANGED <<started, closed, nextId, pending, pc, id, fut, timerVars,
                 readerVars, onCloseVars, workerVars, ownerVars, wireVars>>

------------------------------------------------------------------------------
(* timeout_loop *)

\* The loop condition and the choice of the wait, under pending_mu_.
TimeoutTop ==
  /\ tpc = "top"
  /\ \/ /\ closed
        /\ tpc' = "exited" /\ UNCHANGED watch
     \/ /\ ~closed /\ pending = {}
        /\ tpc' = "wait" /\ UNCHANGED watch
     \/ /\ ~closed /\ pending # {}
        /\ tpc' = "wait_until" /\ watch' = pending
  /\ UNCHANGED <<started, closed, nextId, pending, callVars, tHand, readerVars,
                 onCloseVars, workerVars, ownerVars, wireVars>>

\* wait_until(soonest) is over: its status is timeout exactly when soonest has
\* passed, notified or not.  The expired entries leave the map.
SoonestPassed == watch \cap due # {}

\* Mutant: the expired entries are erased before their reject is saved.
ExpireAndDrop ==
  /\ tpc \in {"wait_until", "woken"} /\ SoonestPassed
  /\ UNCHANGED tHand
  /\ pending' = pending \ due
  /\ watch' = {}
  /\ tpc' = "reject"
  /\ UNCHANGED <<started, closed, nextId, callVars, readerVars, onCloseVars,
                 workerVars, ownerVars, wireVars>>

TimeoutExpire ==
  /\ tpc \in {"wait_until", "woken"} /\ SoonestPassed
  /\ tHand' = pending \cap due
  /\ pending' = pending \ due
  /\ watch' = {}
  /\ tpc' = "reject"
  /\ UNCHANGED <<started, closed, nextId, callVars, readerVars, onCloseVars,
                 workerVars, ownerVars, wireVars>>

\* wait_until returns no_timeout after a notify: back to the loop condition.
TimeoutNotified ==
  /\ tpc = "woken" /\ ~SoonestPassed
  /\ tpc' = "top" /\ watch' = {}
  /\ UNCHANGED <<started, closed, nextId, pending, callVars, tHand, readerVars,
                 onCloseVars, workerVars, ownerVars, wireVars>>

\* Either wait may also return for no reason.
SpuriousWakeup ==
  /\ tpc = "wait" \/ (tpc = "wait_until" /\ ~SoonestPassed)
  /\ tpc' = "top" /\ watch' = {}
  /\ UNCHANGED <<started, closed, nextId, pending, callVars, tHand, readerVars,
                 onCloseVars, workerVars, ownerVars, wireVars>>

\* The loop over `expired', outside the lock.
TimeoutReject(c) ==
  /\ tpc = "reject" /\ c \in tHand
  /\ fut' = Settled(c, "request timed out")
  /\ tHand' = tHand \ {c}
  /\ UNCHANGED <<started, closed, nextId, pending, pc, id, due, tpc, watch,
                 readerVars, onCloseVars, workerVars, ownerVars, wireVars>>

TimeoutRelock ==
  /\ tpc = "reject" /\ tHand = {}
  /\ tpc' = "top"
  /\ UNCHANGED <<started, closed, nextId, pending, callVars, watch, tHand,
                 readerVars, onCloseVars, workerVars, ownerVars, wireVars>>

------------------------------------------------------------------------------
(* handle_frame, on a read thread.  The peer may send any frame at any time:  *)
(* late, repeated and unsolicited responses included.                        *)

\* Mutant: the entry is used without being erased from the map.
RespondInPlace(r, i, o) ==
  /\ rpc[r] = "reading"
  /\ IF Find(i) = {}
       THEN UNCHANGED <<pending, rpc, rHand, rOutcome, tpc>>
       ELSE /\ UNCHANGED pending
            /\ rHand' = [rHand EXCEPT ![r] = Find(i)]
            /\ rOutcome' = [rOutcome EXCEPT ![r] = o]
            /\ rpc' = [rpc EXCEPT ![r] = "resolve"]
            /\ NotifyTimer
  /\ UNCHANGED <<started, closed, nextId, callVars, watch, tHand, onCloseVars,
                 workerVars, ownerVars, wireVars>>

\* handle_response up to the unlock.  A response whose id is unknown is
\* dropped.
HandleResponse(r, i, o) ==
  /\ rpc[r] = "reading"
  /\ IF Find(i) = {}
       THEN UNCHANGED <<pending, rpc, rHand, rOutcome, tpc>>
       ELSE /\ pending' = pending \ Find(i)
            /\ rHand' = [rHand EXCEPT ![r] = Find(i)]
            /\ rOutcome' = [rOutcome EXCEPT ![r] = o]
            /\ rpc' = [rpc EXCEPT ![r] = "resolve"]
            /\ NotifyTimer
  /\ UNCHANGED <<started, closed, nextId, callVars, watch, tHand, onCloseVars,
                 workerVars, ownerVars, wireVars>>

\* ... and after it: resolve or reject.
ResolveResponse(r) ==
  /\ rpc[r] = "resolve"
  /\ \E c \in rHand[r] : fut' = Settled(c, rOutcome[r])
  /\ rHand' = [rHand EXCEPT ![r] = {}]
  /\ rOutcome' = [rOutcome EXCEPT ![r] = "none"]
  /\ rpc' = [rpc EXCEPT ![r] = "reading"]
  /\ UNCHANGED <<started, closed, nextId, pending, pc, id, due, timerVars,
                 onCloseVars, workerVars, ownerVars, wireVars>>

\* handle_notification runs the application's handler on the read thread.
HandleNotification(r) ==
  /\ \/ rpc[r] = "reading" /\ rpc' = [rpc EXCEPT ![r] = "notification"]
     \/ rpc[r] = "notification" /\ rpc' = [rpc EXCEPT ![r] = "reading"]
  /\ UNCHANGED <<started, closed, nextId, pending, callVars, timerVars, rHand,
                 rOutcome, onCloseVars, workerVars, ownerVars, wireVars>>

\* A request frame: ++workers_running_ and a detached worker thread.
DispatchRequest(r, w) ==
  /\ rpc[r] = "reading" /\ wpc[w] = "off"
  /\ wpc' = [wpc EXCEPT ![w] = "handle"]
  /\ UNCHANGED <<started, closed, nextId, pending, callVars, timerVars,
                 readerVars, onCloseVars, awaits, ownerVars, wireVars>>

------------------------------------------------------------------------------
(* handle_request, on a worker *)

\* The handler's nested requests have been answered.
HandlerReady(w) ==
  /\ wpc[w] = "handle"
  /\ \A c \in awaits[w] : pc[c] = "done" /\ fut[c] # "none"

\* The handler issues a request of its own and waits for its future (a tool
\* that samples or elicits).
HandlerCalls(w, c) ==
  /\ HandlerReady(w)
  /\ NextId(c)
  /\ awaits' = [awaits EXCEPT ![w] = {c}]
  /\ UNCHANGED <<started, closed, pending, fut, due, timerVars, readerVars,
                 onCloseVars, wpc, ownerVars, wireVars>>

\* The handler returns or throws, or there is none; the response is sent, a
\* failure to send it is only logged; --workers_running_ and notify.
WorkerDone(w) ==
  /\ HandlerReady(w)
  /\ wpc' = [wpc EXCEPT ![w] = "off"]
  /\ awaits' = [awaits EXCEPT ![w] = {}]
  /\ UNCHANGED <<started, closed, nextId, pending, callVars, timerVars,
                 readerVars, onCloseVars, ownerVars, wireVars>>

------------------------------------------------------------------------------
(* The transport's read loop ends and fires the on_close lambda, once. *)

\* The read loop leaves on EOF, on a read error, or because close() has
\* cleared running_; fire_close() then runs the lambda on this thread.
ReadLoopExit(r) ==
  /\ rpc[r] = "reading"
  /\ rpc' = [rpc EXCEPT ![r] = IF fired THEN "exited" ELSE "on_close"]
  /\ opc' = IF fired THEN opc ELSE "drain"
  /\ fired' = TRUE
  /\ UNCHANGED <<started, closed, nextId, pending, callVars, timerVars, rHand,
                 rOutcome, oHand, hookFired, workerVars, ownerVars, running>>

\* The lambda: cancel_all_pending ...
OnCloseDrain ==
  /\ opc = "drain"
  /\ oHand' = pending /\ pending' = {}
  /\ opc' = "reject"
  /\ NotifyTimer
  /\ UNCHANGED <<started, closed, nextId, callVars, watch, tHand, readerVars,
                 hookFired, workerVars, ownerVars, wireVars>>

OnCloseReject(c) ==
  /\ opc = "reject" /\ c \in oHand
  /\ fut' = Settled(c, "transport closed")
  /\ oHand' = oHand \ {c}
  /\ UNCHANGED <<started, closed, nextId, pending, pc, id, due, timerVars,
                 readerVars, opc, hookFired, workerVars, ownerVars, wireVars>>

\* ... then closed_.store(true) ...
OnCloseMark ==
  /\ opc = "reject" /\ oHand = {}
  /\ closed' = TRUE
  /\ opc' = "callback"
  /\ UNCHANGED <<started, nextId, pending, callVars, timerVars, readerVars,
                 oHand, hookFired, workerVars, ownerVars, wireVars>>

\* ... then the on_closed_ callback, and back to the read loop, which ends.
OnCloseCallback ==
  /\ opc = "callback"
  /\ hookFired' = TRUE
  /\ opc' = "done"
  /\ rpc' = [r \in Readers |-> IF rpc[r] = "on_close" THEN "exited" ELSE rpc[r]]
  /\ UNCHANGED <<started, closed, nextId, pending, callVars, timerVars, rHand,
                 rOutcome, oHand, workerVars, ownerVars, wireVars>>

------------------------------------------------------------------------------
(* start(), close() and ~Session(), on the owner's thread *)

Start ==
  /\ lpc = "new"
  /\ started' = TRUE /\ closed' = FALSE
  /\ tpc' = "top"
  /\ lpc' = "starting"
  /\ UNCHANGED <<nextId, pending, callVars, watch, tHand, readerVars,
                 onCloseVars, workerVars, lHand, first, dtor, closeDone,
                 wireVars>>

\* transport_->start(): it may fail to set up its pipe, and then only reports
\* an error.
TransportStart ==
  /\ lpc = "starting"
  /\ \/ running' = TRUE /\ rpc' = [r \in Readers |-> "reading"]
     \/ UNCHANGED <<running, rpc>>
  /\ lpc' = "idle"
  /\ UNCHANGED <<started, closed, nextId, pending, callVars, timerVars, rHand,
                 rOutcome, onCloseVars, workerVars, lHand, first, dtor,
                 closeDone, fired>>

\* close(), called by the application (FALSE) or by ~Session (TRUE).  The
\* destructor runs when no application thread is inside a call; handlers on
\* worker threads may be, close() is what waits for them.
CloseBegin(d) ==
  /\ lpc = "idle"
  /\ d => \A c \in Calls : pc[c] \in {"idle", "done"}
                             \/ \E w \in Workers : c \in awaits[w]
  /\ first' = ~closed /\ closed' = TRUE
  /\ dtor' = d
  /\ lpc' = "drain"
  /\ UNCHANGED <<started, nextId, pending, callVars, timerVars, readerVars,
                 onCloseVars, workerVars, lHand, closeDone, wireVars>>

\* Mutant: close() does not cancel the pending requests.
CloseKeepsPending ==
  /\ lpc = "drain"
  /\ UNCHANGED <<lHand, pending>>
  /\ lpc' = "reject"
  /\ NotifyTimer
  /\ UNCHANGED <<started, closed, nextId, callVars, watch, tHand, readerVars,
                 onCloseVars, workerVars, first, dtor, closeDone, wireVars>>

\* cancel_all_pending("session closed")
CloseDrain ==
  /\ lpc = "drain"
  /\ lHand' = pending /\ pending' = {}
  /\ lpc' = "reject"
  /\ NotifyTimer
  /\ UNCHANGED <<started, closed, nextId, callVars, watch, tHand, readerVars,
                 onCloseVars, workerVars, first, dtor, closeDone, wireVars>>

CloseReject(c) ==
  /\ lpc = "reject" /\ c \in lHand
  /\ fut' = Settled(c, "session closed")
  /\ lHand' = lHand \ {c}
  /\ UNCHANGED <<started, closed, nextId, pending, pc, id, due, timerVars,
                 readerVars, onCloseVars, workerVars, lpc, first, dtor,
                 closeDone, wireVars>>

CloseCancelled ==
  /\ lpc = "reject" /\ lHand = {}
  /\ lpc' = "wait workers"
  /\ UNCHANGED <<started, closed, nextId, pending, callVars, timerVars,
                 readerVars, onCloseVars, workerVars, lHand, first, dtor,
                 closeDone, wireVars>>

\* Mutant: close() does not wait for the workers.
CloseIgnoresWorkers ==
  /\ lpc = "wait workers"
  /\ lpc' = IF first THEN "transport close" ELSE "notify"
  /\ UNCHANGED <<started, closed, nextId, pending, callVars, timerVars,
                 readerVars, onCloseVars, workerVars, lHand, first, dtor,
                 closeDone, wireVars>>

\* workers_cv_.wait(workers_running_ == 0), then only the first close() tears
\* the transport down.
CloseWaitWorkers ==
  /\ lpc = "wait workers"
  /\ WorkersRunning = {}
  /\ lpc' = IF first THEN "transport close" ELSE "notify"
  /\ UNCHANGED <<started, closed, nextId, pending, callVars, timerVars,
                 readerVars, onCloseVars, workerVars, lHand, first, dtor,
                 closeDone, wireVars>>

\* transport_->close(): clear running_, wake and join the read thread ...
TransportClose ==
  /\ lpc = "transport close"
  /\ running' = FALSE
  /\ lpc' = "transport join"
  /\ UNCHANGED <<started, closed, nextId, pending, callVars, timerVars,
                 readerVars, onCloseVars, workerVars, lHand, first, dtor,
                 closeDone, fired>>

\* Mutant: a local close() does not fire the close callback.
TransportJoinOnly ==
  /\ lpc = "transport join"
  /\ \A r \in Readers : rpc[r] \in {"off", "exited"}
  /\ lpc' = "notify"
  /\ UNCHANGED <<opc, fired>>
  /\ UNCHANGED <<started, closed, nextId, pending, callVars, timerVars,
                 readerVars, oHand, hookFired, workerVars, lHand, first, dtor,
                 closeDone, running>>

\* ... and fire_close() if the read loop has not.
TransportJoin ==
  /\ lpc = "transport join"
  /\ \A r \in Readers : rpc[r] \in {"off", "exited"}
  /\ lpc' = IF fired THEN "notify" ELSE "fire close"
  /\ opc' = IF fired THEN opc ELSE "drain"
  /\ fired' = TRUE
  /\ UNCHANGED <<started, closed, nextId, pending, callVars, timerVars,
                 readerVars, oHand, hookFired, workerVars, lHand, first, dtor,
                 closeDone, running>>

TransportFired ==
  /\ lpc = "fire close" /\ opc = "done"
  /\ lpc' = "notify"
  /\ UNCHANGED <<started, closed, nextId, pending, callVars, timerVars,
                 readerVars, onCloseVars, workerVars, lHand, first, dtor,
                 closeDone, wireVars>>

CloseNotify ==
  /\ lpc = "notify"
  /\ NotifyTimer
  /\ lpc' = "join"
  /\ UNCHANGED <<started, closed, nextId, pending, callVars, watch, tHand,
                 readerVars, onCloseVars, workerVars, lHand, first, dtor,
                 closeDone, wireVars>>

\* Mutant: close() does not join the timeout thread.
CloseDetaches ==
  /\ lpc = "join"
  /\ lpc' = IF dtor THEN "destroyed" ELSE "idle"
  /\ closeDone' = (closeDone \/ ~dtor)
  /\ UNCHANGED <<started, closed, nextId, pending, callVars, timerVars,
                 readerVars, onCloseVars, workerVars, lHand, first, dtor,
                 wireVars>>

\* timeout_thread_.join() and return; after ~Session's close() the members
\* are destroyed.
CloseJoin ==
  /\ lpc = "join"
  /\ tpc = "exited"
  /\ lpc' = IF dtor THEN "destroyed" ELSE "idle"
  /\ closeDone' = (closeDone \/ ~dtor)
  /\ UNCHANGED <<started, closed, nextId, pending, callVars, timerVars,
                 readerVars, onCloseVars, workerVars, lHand, first, dtor,
                 wireVars>>

------------------------------------------------------------------------------
(* The specification *)

CallStep(c)    == Park(c) \/ CallerReject(c) \/ Send(c) \/ Retract(c)
TimeoutStep    == \/ TimeoutTop \/ TimeoutExpire \/ TimeoutNotified
                  \/ TimeoutRelock \/ \E c \in Calls : TimeoutReject(c)
OnCloseStep    == \/ OnCloseDrain \/ OnCloseMark \/ OnCloseCallback
                  \/ \E c \in Calls : OnCloseReject(c)
CloseStep      == \/ CloseDrain \/ CloseCancelled \/ CloseWaitWorkers
                  \/ TransportClose \/ TransportJoin \/ TransportFired
                  \/ CloseNotify \/ CloseJoin
                  \/ \E c \in Calls : CloseReject(c)

Next ==
  \/ \E c \in Calls : SendRequest(c) \/ CallStep(c) \/ DeadlinePasses(c)
  \/ TimeoutStep \/ SpuriousWakeup
  \/ \E r \in Readers :
       \/ \E i \in RespIds, o \in {"result", "error"} : HandleResponse(r, i, o)
       \/ ResolveResponse(r) \/ HandleNotification(r) \/ ReadLoopExit(r)
       \/ \E w \in Workers : DispatchRequest(r, w)
  \/ \E w \in Workers : WorkerDone(w) \/ \E c \in Calls : HandlerCalls(w, c)
  \/ OnCloseStep
  \/ Start \/ TransportStart \/ CloseStep
  \/ \E d \in BOOLEAN : CloseBegin(d)

Spec == Init /\ [][Next]_vars

\* What the scheduler and the clock guarantee: a thread that can take a step
\* takes one, time passes, and the application's handlers return.  Nobody has
\* to call anything, the peer never has to send anything, and no wait has to
\* return spuriously.  Two steps need strong fairness: the read loop looks at
\* running_ again after the frames of one chunk, and close(), notified by
\* every worker that ends, gets its turn if there is no worker over and over.
ReaderReturns(r) ==
  \/ ResolveResponse(r)
  \/ rpc[r] = "notification" /\ HandleNotification(r)

Fairness ==
  /\ \A c \in Calls : WF_vars(CallStep(c)) /\ WF_vars(DeadlinePasses(c))
  /\ WF_vars(TimeoutStep)
  /\ \A r \in Readers : /\ WF_vars(ReaderReturns(r))
                          /\ SF_vars(~running /\ ReadLoopExit(r))
  /\ \A w \in Workers : WF_vars(WorkerDone(w))
  /\ WF_vars(OnCloseStep)
  /\ WF_vars(Start) /\ WF_vars(TransportStart)
  /\ WF_vars(CloseStep) /\ SF_vars(CloseWaitWorkers)

FairSpec == Spec /\ Fairness

------------------------------------------------------------------------------
(* Properties *)

\* The calls whose caller has the Pending entry, to reject it.
InCaller(c) == pc[c] \in {"refuse", "duplicate", "withdrawn"}

\* Some thread has the Pending entry of c, or the map has it.
Held(c) == \/ c \in pending \/ c \in tHand \/ c \in oHand \/ c \in lHand
           \/ \E r \in Readers : c \in rHand[r]
           \/ InCaller(c)

\* Exactly one of resolve and reject is invoked (session.hpp, struct Pending):
\* a response, the timeout thread, a failed send, the on_close lambda and
\* close() may all go for the same entry, and no promise is set twice.
SettledOnce == \A c \in Calls : fut[c] # "twice"

\* No entry is dropped on the floor: a request that was let in and is not
\* settled yet is in the map or with a thread that is about to settle it.
NoRequestLost ==
  \A c \in Calls :
    (pc[c] \notin {"idle", "park"} /\ fut[c] = "none") => Held(c)

\* The branch register_pending calls a sign of corruption is never taken:
\* ids of concurrent callers never collide in the map.
NoDuplicateId == \A c \in Calls : pc[c] # "duplicate"

\* Server::run and Client::disconnect call close() before the destructor runs
\* it again: then no worker outlives the session it runs in.
SafeTeardown ==
  (lpc = "destroyed" /\ closeDone) => WorkersRunning = {}

\* close() always returns: workers that wait for an answer are released by the
\* cancellation, the read thread and the timeout thread can be joined.
CloseReturns == (lpc = "drain") ~> (lpc \in {"idle", "destroyed"})

\* Server::run waits for the on_closed hook: it runs once the input has ended
\* or close() was called on an open session.
OnClosedFires == (fired \/ (lpc = "drain" /\ first)) ~> hookFired

\* While the input is open every request is answered in the end, by the peer, a
\* failed send or, when nobody else does, the timeout thread: it misses no
\* notification and no deadline.
AnsweredWhileOpen ==
  \A c \in Calls : (pc[c] = "park") ~> (fut[c] # "none" \/ fired)

\* session.hpp:12-13: "Apply per-request timeouts; an expired request raises
\* Error".  Every request is answered, whatever happens to the connection.
RequestsSettle == \A c \in Calls : (pc[c] = "park") ~> (fut[c] # "none")

\* The session implements the contract its callers rely on.
callStatus ==
  [c \in Calls |->
     IF fut[c] # "none" THEN fut[c]
     ELSE CASE pc[c] \in {"idle", "park", "refuse", "duplicate"} -> "idle"
            [] pc[c] = "withdrawn" -> "withdrawn"
            [] OTHER -> "open"]
sessionPhase == IF closeDone \/ lpc = "destroyed" THEN "down"
                ELSE IF closed THEN "closing" ELSE "up"
Contract == INSTANCE RequestContract WITH
              Calls <- Calls, Outcomes <- Outcomes,
              status <- callStatus, phase <- sessionPhase

\* Requests opened, settled, refused and withdrawn as RequestContract allows,
\* in particular none open when close() returns.
RefinesContract == Contract!Spec
=============================================================================
