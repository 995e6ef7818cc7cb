------------------------------- MODULE HttpHost -------------------------------
(***************************************************************************)
(* mcp::HttpServerHost (src/src/http_server_host.cpp): the session map, the  *)
(* POST and DELETE handlers, stop(), and for every session its               *)
(* HttpSessionTransport and the thread that runs Server::run on it.           *)
(*                                                                         *)
(* A session here is a SessionContext.  A session id that has been deleted    *)
(* and is initialized again is a new context and so another element of        *)
(* Sessions.  The Session object is seen through what the host does to it:    *)
(* it is constructed, started, closed by the on_close hook of the transport,  *)
(* and destroyed when run() returns; module Session has its inside.           *)
(*                                                                         *)
(* Each block under sessions_mu, pending_mu_ or buffered_mu_ is one step.     *)
(***************************************************************************)
EXTENDS Wire, Sequences

CONSTANTS
  Sessions,   \* session contexts
  Posts,      \* POST requests
  Frames,     \* what they may carry
  SessionOf   \* the session a POST is addressed to

ASSUME SessionOfAssumption == SessionOf \in [Posts -> Sessions]
ASSUME FramesAssumption == Frames \subseteq Frame

VARIABLES
  \* the host
  listening,  \* httplib accepts requests
  sessions,   \* the session map
  hooks,      \* calls of on_session_closed, per session
  td,         \* teardown of a session, by a DELETE or by stop()
  spc,        \* stop()
  drained,    \* its local `drained'
  \* HttpSessionTransport
  tClosed,    \* closed_
  gate,       \* started_
  wired,      \* on_message_ and on_close_ are set
  buffered,   \* buffered_
  slots,      \* pending_: the POSTs that have a promise in the map
  \* Server::run and its Session
  run,        \* the run thread
  backlog,    \* the local `drain' of HttpSessionTransport::start
  sClosed,    \* Session::closed_
  working,    \* POSTs whose request a session worker handles
  \* POST handlers
  frame,      \* the body of a POST
  ppc, fut, ans, reply

hostVars == <<listening, sessions, hooks, td, spc, drained>>
wireVars == <<tClosed, gate, wired, buffered, slots>>
runVars  == <<run, backlog, sClosed, working>>
postVars == <<frame, ppc, fut, ans, reply>>
vars == <<hostVars, wireVars, runVars, postVars>>

TypeOK ==
  /\ listening \in BOOLEAN /\ sessions \in SUBSET Sessions
  /\ hooks \in [Sessions -> Nat]
  /\ td \in [Sessions -> {"none", "notify", "close", "drain", "on_close",
                          "join", "done"}]
  /\ spc \in {"up", "sessions", "listener", "threads", "down"}
  /\ drained \in SUBSET Sessions
  /\ tClosed \in [Sessions -> BOOLEAN] /\ gate \in [Sessions -> BOOLEAN]
  /\ wired \in [Sessions -> BOOLEAN]
  /\ buffered \in [Sessions -> Seq(Posts)]
  /\ slots \in [Sessions -> SUBSET Posts]
  /\ run \in [Sessions -> {"none", "new", "built", "opened", "drain", "wait",
                           "closing", "done"}]
  /\ backlog \in [Sessions -> Seq(Posts)] /\ sClosed \in [Sessions -> BOOLEAN]
  /\ working \in SUBSET Posts
  /\ frame \in [Posts -> Frames]
  /\ ppc \in [Posts -> {"idle", "slot", "deliver", "await", "done"}]
  /\ fut \in [Posts -> {"absent", "none", "value", "closed", "broken"}]
  /\ ans \in [Posts -> SUBSET Posts]
  /\ reply \in [Posts -> {"none", "200", "202", "404", "500", "504"}]

Init ==
  /\ listening = TRUE /\ sessions = {} /\ spc = "up" /\ drained = {}
  /\ hooks = [s \in Sessions |-> 0] /\ td = [s \in Sessions |-> "none"]
  /\ tClosed = [s \in Sessions |-> FALSE] /\ gate = [s \in Sessions |-> FALSE]
  /\ wired = [s \in Sessions |-> FALSE]
  /\ buffered = [s \in Sessions |-> <<>>] /\ slots = [s \in Sessions |-> {}]
  /\ run = [s \in Sessions |-> "none"] /\ backlog = [s \in Sessions |-> <<>>]
  /\ sClosed = [s \in Sessions |-> FALSE] /\ working = {}
  /\ frame \in [Posts -> Frames]
  /\ ppc = [p \in Posts |-> "idle"] /\ fut = [p \in Posts |-> "absent"]
  /\ ans = [p \in Posts |-> {}] /\ reply = [p \in Posts |-> "none"]

------------------------------------------------------------------------------
(* POST *)

\* The look-up under sessions_mu; a body that says "initialize" somewhere creates
\* a session that is not there, with its transport, its Server and its run
\* thread.
Post(p, initialize) ==
  LET s == SessionOf[p]
      start == IF IsRequest(frame[p]) THEN "slot" ELSE "deliver" IN
  /\ listening /\ ppc[p] = "idle"
  /\ \/ /\ s \in sessions
        /\ ppc' = [ppc EXCEPT ![p] = start]
        /\ UNCHANGED <<sessions, run, reply>>
     \/ /\ s \notin sessions /\ initialize /\ run[s] = "none"
        /\ sessions' = sessions \cup {s}
        /\ run' = [run EXCEPT ![s] = "new"]
        /\ ppc' = [ppc EXCEPT ![p] = start]
        /\ UNCHANGED reply
     \/ /\ s \notin sessions /\ ~initialize
        /\ reply' = [reply EXCEPT ![p] = "404"]
        /\ ppc' = [ppc EXCEPT ![p] = "done"]
        /\ UNCHANGED <<sessions, run>>
  /\ UNCHANGED <<listening, hooks, td, spc, drained, wireVars, backlog,
                 sClosed, working, fut, ans, frame>>

\* The slot that pending_ has in session s under the id of frame f, if any.
SlotFor(s, f) == {q \in slots[s] : CanonicalId(frame[q]) = CanonicalId(f)}

\* deliver_request_or_notification: a request gets a promise in pending_.  When
\* the id is taken, emplace drops the promise and the future is broken.
RegisterSlot(p) ==
  LET s == SessionOf[p] IN
  /\ ppc[p] = "slot"
  /\ \/ /\ SlotFor(s, frame[p]) = {}
        /\ slots' = [slots EXCEPT ![s] = @ \cup {p}]
        /\ fut' = [fut EXCEPT ![p] = "none"]
     \/ /\ SlotFor(s, frame[p]) # {}
        /\ fut' = [fut EXCEPT ![p] = "broken"]
        /\ UNCHANGED slots
  /\ ppc' = [ppc EXCEPT ![p] = "deliver"]
  /\ UNCHANGED <<hostVars, tClosed, gate, wired, buffered, runVars, ans,
                 reply, frame>>

\* handle_frame of the Session: a request is given to a worker, notifications
\* and responses are handled at once, and what does not parse is dropped.  Once
\* the Session is destroyed the callback dangles; whatever happens then, nobody
\* answers the frame.
Dispatch(p) ==
  working' = IF IsJsonRpcRequest(frame[p]) /\ run[SessionOf[p]] # "done"
               THEN working \cup {p} ELSE working

\* What the POST handler does after the delivery.
Delivered(p) ==
  IF fut[p] = "absent"
    THEN /\ reply' = [reply EXCEPT ![p] = "202"]
         /\ ppc' = [ppc EXCEPT ![p] = "done"]
    ELSE /\ ppc' = [ppc EXCEPT ![p] = "await"]
         /\ UNCHANGED reply

\* The frame goes to the Session, or waits for start(), under buffered_mu_.
Deliver(p) ==
  LET s == SessionOf[p] IN
  /\ ppc[p] = "deliver"
  /\ \/ /\ gate[s]
        /\ Dispatch(p) /\ UNCHANGED buffered
     \/ /\ ~gate[s]
        /\ buffered' = [buffered EXCEPT ![s] = Append(@, p)]
        /\ UNCHANGED working
  /\ Delivered(p)
  /\ UNCHANGED <<hostVars, tClosed, gate, wired, slots, run, backlog, sClosed,
                 fut, ans, frame>>

\* The future is ready: the answer, or the exception it holds.
PostAnswered(p) ==
  /\ ppc[p] = "await" /\ fut[p] # "none"
  /\ reply' = [reply EXCEPT ![p] = IF fut[p] = "value" THEN "200" ELSE "500"]
  /\ ppc' = [ppc EXCEPT ![p] = "done"]
  /\ UNCHANGED <<hostVars, wireVars, runVars, fut, ans, frame>>

\* The 30 s budget is over; the slot stays in pending_.
PostTimeout(p) ==
  /\ ppc[p] = "await" /\ fut[p] = "none"
  /\ reply' = [reply EXCEPT ![p] = "504"]
  /\ ppc' = [ppc EXCEPT ![p] = "done"]
  /\ UNCHANGED <<hostVars, wireVars, runVars, fut, ans, frame>>

------------------------------------------------------------------------------
(* The run thread: Server::run on a session, and its request workers *)

\* Session::Session wires the callbacks of the transport.
Construct(s) ==
  /\ run[s] = "new"
  /\ wired' = [wired EXCEPT ![s] = TRUE]
  /\ run' = [run EXCEPT ![s] = "built"]
  /\ UNCHANGED <<hostVars, tClosed, gate, buffered, slots, backlog, sClosed,
                 working, postVars>>

\* The request handlers are registered; Session::start clears closed_.
SessionStart(s) ==
  /\ run[s] = "built"
  /\ sClosed' = [sClosed EXCEPT ![s] = FALSE]
  /\ run' = [run EXCEPT ![s] = "opened"]
  /\ UNCHANGED <<hostVars, wireVars, backlog, working, postVars>>

\* Mutant: the frames that came early are forgotten.
StartDropsBuffer(s) ==
  /\ run[s] = "opened"
  /\ gate' = [gate EXCEPT ![s] = TRUE]
  /\ buffered' = [buffered EXCEPT ![s] = <<>>]
  /\ run' = [run EXCEPT ![s] = "drain"]
  /\ UNCHANGED <<hostVars, tClosed, wired, slots, backlog, sClosed, working,
                 postVars>>

\* HttpSessionTransport::start under buffered_mu_ ...
TransportStart(s) ==
  /\ run[s] = "opened"
  /\ gate' = [gate EXCEPT ![s] = TRUE]
  /\ backlog' = [backlog EXCEPT ![s] = buffered[s]]
  /\ buffered' = [buffered EXCEPT ![s] = <<>>]
  /\ run' = [run EXCEPT ![s] = "drain"]
  /\ UNCHANGED <<hostVars, tClosed, wired, slots, sClosed, working, postVars>>

\* ... and the frames it took, outside the lock.
DrainFrame(s) ==
  /\ run[s] = "drain" /\ backlog[s] # <<>>
  /\ Dispatch(Head(backlog[s]))
  /\ backlog' = [backlog EXCEPT ![s] = Tail(@)]
  /\ UNCHANGED <<hostVars, wireVars, run, sClosed, postVars>>

Started(s) ==
  /\ run[s] = "drain" /\ backlog[s] = <<>>
  /\ run' = [run EXCEPT ![s] = "wait"]
  /\ UNCHANGED <<hostVars, wireVars, backlog, sClosed, working, postVars>>

\* The POSTs of s a worker is busy with.
WorkingAt(s) == {p \in working : SessionOf[p] = s}

\* Mutant: send() leaves the slot in the map.
RespondKeepsSlot(p) ==
  LET s == SessionOf[p]
      found == IF tClosed[s] THEN {} ELSE SlotFor(s, Response(frame[p])) IN
  /\ p \in working
  /\ working' = working \ {p}
  /\ UNCHANGED slots
  /\ fut' = [q \in Posts |-> IF q \in found THEN "value" ELSE fut[q]]
  /\ ans' = [q \in Posts |-> IF q \in found THEN {p} ELSE ans[q]]
  /\ UNCHANGED <<hostVars, tClosed, gate, wired, buffered, run, backlog,
                 sClosed, frame, ppc, reply>>

\* Session::send of a worker: the response goes to the POST that has the slot
\* of its id; a closed transport and an unknown id are errors that are logged.
Respond(p) ==
  LET s == SessionOf[p]
      found == IF tClosed[s] THEN {} ELSE SlotFor(s, Response(frame[p])) IN
  /\ p \in working
  /\ working' = working \ {p}
  /\ slots' = [slots EXCEPT ![s] = @ \ found]
  /\ fut' = [q \in Posts |-> IF q \in found THEN "value" ELSE fut[q]]
  /\ ans' = [q \in Posts |-> IF q \in found THEN {p} ELSE ans[q]]
  /\ UNCHANGED <<hostVars, tClosed, gate, wired, buffered, run, backlog,
                 sClosed, ppc, reply, frame>>

\* stop_cv_.wait: the session is no longer open.
RunWakes(s) ==
  /\ run[s] = "wait" /\ sClosed[s]
  /\ run' = [run EXCEPT ![s] = "closing"]
  /\ UNCHANGED <<hostVars, wireVars, backlog, sClosed, working, postVars>>

\* Session::close waits for the workers; run() returns and the Session is gone.
RunEnds(s) ==
  /\ run[s] = "closing" /\ WorkingAt(s) = {}
  /\ run' = [run EXCEPT ![s] = "done"]
  /\ UNCHANGED <<hostVars, wireVars, backlog, sClosed, working, postVars>>

------------------------------------------------------------------------------
(* Teardown: DELETE and stop() *)

\* DELETE takes the session out of the map.  (For one that is not there it does
\* nothing.)
Delete(s) ==
  /\ listening /\ s \in sessions
  /\ sessions' = sessions \ {s}
  /\ td' = [td EXCEPT ![s] = "notify"]
  /\ UNCHANGED <<listening, hooks, spc, drained, wireVars, runVars, postVars>>

\* stop() takes all of them.
Stop ==
  /\ spc = "up"
  /\ spc' = "sessions"
  /\ drained' = sessions
  /\ sessions' = {}
  /\ td' = [s \in Sessions |-> IF s \in sessions THEN "notify" ELSE td[s]]
  /\ UNCHANGED <<listening, hooks, wireVars, runVars, postVars>>

\* stop() handles its sessions one after the other.
MyTurn(s) == s \in drained =>
  \A x \in drained \ {s} : td[x] \notin {"drain", "on_close"}

InvokeSessionClosed(s) ==
  /\ td[s] = "notify"
  /\ hooks' = [hooks EXCEPT ![s] = @ + 1]
  /\ td' = [td EXCEPT ![s] = "close"]
  /\ UNCHANGED <<listening, sessions, spc, drained, wireVars, runVars,
                 postVars>>

\* HttpSessionTransport::close: the flag ...
TransportClose(s) ==
  /\ td[s] = "close" /\ MyTurn(s)
  /\ s \in drained => \A x \in drained : td[x] # "notify"
  /\ tClosed' = [tClosed EXCEPT ![s] = TRUE]
  /\ td' = [td EXCEPT ![s] = "drain"]
  /\ UNCHANGED <<listening, sessions, hooks, spc, drained, gate, wired,
                 buffered, slots, runVars, postVars>>

\* Mutant: the slots are dropped, their POSTs not told.
CloseDropsSlots(s) ==
  /\ td[s] = "drain"
  /\ slots' = [slots EXCEPT ![s] = {}]
  /\ UNCHANGED fut
  /\ td' = [td EXCEPT ![s] = "on_close"]
  /\ UNCHANGED <<listening, sessions, hooks, spc, drained, tClosed, gate,
                 wired, buffered, runVars, ppc, ans, reply, frame>>

\* ... the POSTs that wait for an answer ...
TransportDrain(s) ==
  /\ td[s] = "drain"
  /\ fut' = [p \in Posts |-> IF p \in slots[s] THEN "closed" ELSE fut[p]]
  /\ slots' = [slots EXCEPT ![s] = {}]
  /\ td' = [td EXCEPT ![s] = "on_close"]
  /\ UNCHANGED <<listening, sessions, hooks, spc, drained, tClosed, gate,
                 wired, buffered, runVars, ppc, ans, reply, frame>>

\* Mutant: close() leaves the Session alone.
CloseWithoutHook(s) ==
  /\ td[s] = "on_close"
  /\ td' = [td EXCEPT ![s] = "join"]
  /\ UNCHANGED <<listening, sessions, hooks, spc, drained, wireVars, runVars,
                 postVars>>

\* ... and the on_close_ callback, if the Session has set it by now: it marks
\* the Session closed and wakes Server::run.
TransportOnClose(s) ==
  /\ td[s] = "on_close"
  /\ sClosed' = [sClosed EXCEPT ![s] = @ \/ wired[s]]
  /\ td' = [td EXCEPT ![s] = "join"]
  /\ UNCHANGED <<listening, sessions, hooks, spc, drained, wireVars, run,
                 backlog, working, postVars>>

\* Join the run thread; stop() does so after the listener is gone.
JoinRun(s) ==
  /\ td[s] = "join" /\ run[s] = "done"
  /\ s \in drained => spc = "threads"
  /\ td' = [td EXCEPT ![s] = "done"]
  /\ UNCHANGED <<listening, sessions, hooks, spc, drained, wireVars, runVars,
                 postVars>>

\* http.stop() once every transport is closed.
HttpStop ==
  /\ spc = "sessions" /\ \A s \in drained : td[s] = "join"
  /\ listening' = FALSE
  /\ spc' = "listener"
  /\ UNCHANGED <<sessions, hooks, td, drained, wireVars, runVars, postVars>>

\* listener.join(): httplib waits for the handlers it is running.
ListenerJoined ==
  /\ spc = "listener"
  /\ \A p \in Posts : ppc[p] \in {"idle", "done"}
  /\ \A s \in Sessions \ drained : td[s] \in {"none", "done"}
  /\ spc' = "threads"
  /\ UNCHANGED <<listening, sessions, hooks, td, drained, wireVars, runVars,
                 postVars>>

StopReturned ==
  /\ spc = "threads" /\ \A s \in drained : td[s] = "done"
  /\ spc' = "down"
  /\ UNCHANGED <<listening, sessions, hooks, td, drained, wireVars, runVars,
                 postVars>>

------------------------------------------------------------------------------
PostStep(p) == RegisterSlot(p) \/ Deliver(p) \/ PostAnswered(p)
RunStep(s) == \/ Construct(s) \/ SessionStart(s) \/ TransportStart(s)
              \/ DrainFrame(s) \/ Started(s) \/ RunWakes(s) \/ RunEnds(s)
TeardownStep(s) == \/ InvokeSessionClosed(s) \/ TransportClose(s)
                   \/ TransportDrain(s) \/ TransportOnClose(s) \/ JoinRun(s)
StopStep == HttpStop \/ ListenerJoined \/ StopReturned

Next ==
  \/ \E p \in Posts : \/ \E i \in BOOLEAN : Post(p, i)
                      \/ PostStep(p) \/ PostTimeout(p) \/ Respond(p)
  \/ \E s \in Sessions : RunStep(s) \/ TeardownStep(s) \/ Delete(s)
  \/ Stop \/ StopStep

Spec == Init /\ [][Next]_vars

\* Threads run and request handlers return.  Time is only called upon for a
\* POST whose session is closed: in an open one the answer must come without
\* the 30 s budget.
Fairness ==
  /\ \A p \in Posts : /\ WF_vars(PostStep(p)) /\ WF_vars(Respond(p))
                      /\ WF_vars(tClosed[SessionOf[p]] /\ PostTimeout(p))
  /\ \A s \in Sessions : WF_vars(RunStep(s)) /\ WF_vars(TeardownStep(s))
  /\ WF_vars(StopStep)

FairSpec == Spec /\ Fairness

------------------------------------------------------------------------------
(* Properties *)

\* http_server_host.hpp:168-172: on_session_closed is called at most once per
\* session, however many DELETEs race with stop(), and before the transport of
\* the session is closed.
HookOnceBeforeClose ==
  \A s \in Sessions : hooks[s] <= 1 /\ (tClosed[s] => hooks[s] = 1)

\* No frame is dispatched before Server::run has registered its handlers, and
\* no worker is left when the Session is destroyed.
DispatchedWhenReady ==
  \A p \in working : run[SessionOf[p]] \in {"drain", "wait", "closing"}

\* A POST that waits for its answer can be found by the answer: its slot is
\* not lost to a timeout, to another POST of the same id, or to a teardown.
AwaiterReachable ==
  \A p \in Posts :
    (ppc[p] = "await" /\ fut[p] = "none") => p \in slots[SessionOf[p]]

\* A promise is set once: by the response, by the teardown, or by its own
\* destruction when the id was taken.
PromiseSetOnce ==
  [][\A p \in Posts : fut[p] \notin {"absent", "none"} =>
       fut'[p] = fut[p] /\ ans'[p] = ans[p]]_vars

\* The host and the Session read a frame independently: no frame that the
\* Session gives to a handler as a request is answered 202 by the host, and the
\* host holds no POST open for one that the Session reads as anything else.
ReadAlike ==
  \A p \in Posts :
    /\ reply[p] = "202" => ~IsJsonRpcRequest(frame[p])
    /\ ppc[p] = "await" /\ Parses(frame[p]) => IsJsonRpcRequest(frame[p])

\* protocol.hpp:57-59: "the integer 5 and the string "5" do not collide".  A POST
\* never gets the answer to a request with another id.
AnsweredInKind ==
  \A p \in Posts : \A q \in ans[p] :
    RequestIdOf(frame[q]) = RequestIdOf(frame[p])

\* In a session that stays open every request with a string or an integer for
\* its id is answered by its handler, also one that came before run() was ready.
\* One whose id is a whole float is handled, and its answer finds no slot.
AnsweredWhileOpen ==
  \A p \in Posts :
    ppc[p] = "await" /\ frame[p].form \in {"string", "integer"}
                     /\ IsJsonRpcRequest(frame[p])
      ~> (fut[p] # "none" \/ tClosed[SessionOf[p]])

\* When the transport of a started session is closed, run() returns.
CloseReachesRun ==
  \A s \in Sessions :
    (td[s] = "on_close" /\ run[s] \in {"opened", "drain", "wait"})
      ~> (run[s] = "done")
=============================================================================
