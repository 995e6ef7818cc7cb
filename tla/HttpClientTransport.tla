-------------------------- MODULE HttpClientTransport --------------------------
(***************************************************************************)
(* mcp::HttpClientTransport (src/src/http_client_transport.cpp): send() from  *)
(* any thread, the worker that starts a thread for every frame, those sender  *)
(* threads, the GET stream thread, and the owner, who starts and closes the   *)
(* transport.                                                               *)
(*                                                                         *)
(* The server answers a POST or a GET with any status; it may name a session  *)
(* in its answer to a POST.  Each block under out_mu_, session_id_mu_ or       *)
(* inflight_mu_ is one step; what a stream brings is in module EventStream.     *)
(***************************************************************************)
EXTENDS Naturals, Sequences, FiniteSets

CONSTANTS
  Frames,  \* frames given to send()
  Ids,     \* values of the Mcp-Session-Id header
  NoId     \* no session id

ASSUME NoIdAssumption == NoId \notin Ids
ASSUME FramesAssumption == IsFiniteSet(Frames)

\* What an HTTP request comes to: no response, or a class of status codes.
PostResults == {"failed", "accepted", "ok", "denied", "error"}
GetResults == {"ended", "no stream", "denied", "not found"}

VARIABLES
  started, closed,   \* started_, closed_
  notified,          \* close_fired_: on_close has been called
  opc,               \* the owner, in close()
  out,               \* out_
  fpc,               \* a frame: its send() and its sender thread
  result,            \* what the POST of a frame came to
  wpc,               \* the worker
  inflight,          \* inflight_
  sid,               \* session_id_
  gpc,               \* the GET thread
  armed,             \* auth_callback_armed_
  asked,             \* calls of on_unauthorized because of a POST
  rearmed            \* POSTs that were answered 2xx

ownerVars == <<started, closed, notified, opc>>
sendVars == <<out, fpc, result, wpc, inflight>>
authVars == <<armed, asked, rearmed>>
vars == <<ownerVars, sendVars, sid, gpc, authVars>>

\* A frame has a sender thread.
Sending == {"post", "first id", "status", "deliver", "finish"}

TypeOK ==
  /\ started \in BOOLEAN /\ closed \in BOOLEAN /\ notified \in BOOLEAN
  /\ opc \in {"idle", "delete", "wake", "stop", "join worker", "join get",
              "drain", "fire"}
  /\ out \in Seq(Frames)
  /\ fpc \in [Frames -> Sending \cup {"new", "push", "queued", "popped", "done",
                                      "refused"}]
  /\ result \in [Frames -> PostResults \cup {"none"}]
  /\ wpc \in {"off", "check", "sleep", "count", "exit"}
  /\ inflight \in Nat
  /\ sid \in Ids \cup {NoId}
  /\ gpc \in {"off", "top", "check", "sleep", "get", "returned", "backoff",
              "exit", "gone"}
  /\ armed \in BOOLEAN /\ asked \in Nat /\ rearmed \in Nat

\* The session to resume, if any, comes with the options.
Init ==
  /\ started = FALSE /\ closed = FALSE /\ notified = FALSE /\ opc = "idle"
  /\ out = <<>> /\ fpc = [f \in Frames |-> "new"]
  /\ result = [f \in Frames |-> "none"]
  /\ wpc = "off" /\ inflight = 0
  /\ sid \in Ids \cup {NoId} /\ gpc = "off"
  /\ armed = TRUE /\ asked = 0 /\ rearmed = 0

------------------------------------------------------------------------------
(* The owner *)

\* start(); a transport that was started stays so.
Start(openGetStream) ==
  /\ opc = "idle" /\ ~started
  /\ started' = TRUE /\ closed' = FALSE /\ notified' = FALSE
  /\ wpc' = "check"
  /\ gpc' = IF openGetStream THEN "top" ELSE "off"
  /\ UNCHANGED <<opc, out, fpc, result, inflight, sid, authVars>>

\* close().  A second call finds the threads joined and changes nothing.
CloseBegin ==
  /\ opc = "idle" /\ ~closed
  /\ closed' = TRUE
  /\ opc' = "delete"
  /\ UNCHANGED <<started, notified, sendVars, sid, gpc, authVars>>

\* The DELETE of the session, if there is one, is best effort.
CloseDelete ==
  /\ opc = "delete"
  /\ opc' = "wake"
  /\ UNCHANGED <<started, closed, notified, sendVars, sid, gpc, authVars>>

CloseWakeWorker ==
  /\ opc = "wake"
  /\ wpc' = IF wpc = "sleep" THEN "check" ELSE wpc
  /\ opc' = "stop"
  /\ UNCHANGED <<started, closed, notified, out, fpc, result, inflight, sid, gpc,
                 authVars>>

\* Mutant: the GET thread is not woken.
CloseWakesNobody ==
  /\ opc = "stop"
  /\ opc' = "join worker"
  /\ UNCHANGED <<started, closed, notified, sendVars, sid, gpc, authVars>>

\* The GET thread is woken, and its request, if it has one, is cut off.
CloseWakeGet ==
  /\ opc = "stop"
  /\ gpc' = IF gpc = "sleep" THEN "check" ELSE gpc
  /\ opc' = "join worker"
  /\ UNCHANGED <<started, closed, notified, sendVars, sid, authVars>>

JoinWorker ==
  /\ opc = "join worker" /\ wpc \in {"off", "exit"}
  /\ opc' = "join get"
  /\ UNCHANGED <<started, closed, notified, sendVars, sid, gpc, authVars>>

JoinGet ==
  /\ opc = "join get" /\ gpc \in {"off", "exit", "gone"}
  /\ opc' = "drain"
  /\ UNCHANGED <<started, closed, notified, sendVars, sid, gpc, authVars>>

\* Mutant: close() does not wait for the sender threads.
CloseForgetsSenders ==
  /\ opc = "drain"
  /\ opc' = "fire"
  /\ UNCHANGED <<started, closed, notified, sendVars, sid, gpc, authVars>>

\* inflight_cv_.wait, then fire_close().
CloseDrain ==
  /\ opc = "drain" /\ inflight = 0
  /\ opc' = "fire"
  /\ UNCHANGED <<started, closed, notified, sendVars, sid, gpc, authVars>>

FireClose ==
  /\ opc = "fire"
  /\ notified' = TRUE
  /\ opc' = "idle"
  /\ UNCHANGED <<started, closed, sendVars, sid, gpc, authVars>>

------------------------------------------------------------------------------
(* send() and the worker *)

\* send() looks at the flags ...
Send(f) ==
  /\ fpc[f] = "new"
  /\ fpc' = [fpc EXCEPT ![f] = IF started /\ ~closed THEN "push" ELSE "refused"]
  /\ UNCHANGED <<ownerVars, out, result, wpc, inflight, sid, gpc, authVars>>

\* ... and, under out_mu_, queues the frame and notifies the worker.
Push(f) ==
  /\ fpc[f] = "push"
  /\ out' = Append(out, f)
  /\ fpc' = [fpc EXCEPT ![f] = "queued"]
  /\ wpc' = IF wpc = "sleep" THEN "check" ELSE wpc
  /\ UNCHANGED <<ownerVars, result, inflight, sid, gpc, authVars>>

\* Mutant: the worker leaves the queue behind when the transport is closed.
WorkerLeavesQueue ==
  /\ wpc = "check"
  /\ \/ /\ closed
        /\ wpc' = "exit"
        /\ UNCHANGED <<out, fpc>>
     \/ /\ ~closed /\ out # <<>>
        /\ out' = Tail(out)
        /\ fpc' = [fpc EXCEPT ![Head(out)] = "popped"]
        /\ wpc' = "count"
     \/ /\ ~closed /\ out = <<>>
        /\ wpc' = "sleep"
        /\ UNCHANGED <<out, fpc>>
  /\ UNCHANGED <<ownerVars, result, inflight, sid, gpc, authVars>>

\* The worker under out_mu_: it takes a frame, returns, or goes to sleep.
WorkerWait ==
  /\ wpc = "check"
  /\ \/ /\ out # <<>>
        /\ out' = Tail(out)
        /\ fpc' = [fpc EXCEPT ![Head(out)] = "popped"]
        /\ wpc' = "count"
     \/ /\ out = <<>>
        /\ wpc' = IF closed THEN "exit" ELSE "sleep"
        /\ UNCHANGED <<out, fpc>>
  /\ UNCHANGED <<ownerVars, result, inflight, sid, gpc, authVars>>

\* The frame it took is counted and gets a thread.
WorkerDispatch ==
  /\ wpc = "count"
  /\ inflight' = inflight + 1
  /\ fpc' = [f \in Frames |-> IF fpc[f] = "popped" THEN "post" ELSE fpc[f]]
  /\ wpc' = "check"
  /\ UNCHANGED <<ownerVars, out, result, sid, gpc, authVars>>

------------------------------------------------------------------------------
(* process_send, in a thread of its own *)

PostFails(f) ==
  /\ fpc[f] = "post"
  /\ result' = [result EXCEPT ![f] = "failed"]
  /\ fpc' = [fpc EXCEPT ![f] = "finish"]
  /\ UNCHANGED <<ownerVars, out, wpc, inflight, sid, gpc, authVars>>

\* Mutant: the id is stored before the code looks whether there was none.
CaptureThenLook(f, r, i) ==
  /\ fpc[f] = "post" /\ r # "failed"
  /\ result' = [result EXCEPT ![f] = r]
  /\ sid' = IF i # NoId THEN i ELSE sid
  /\ fpc' = [fpc EXCEPT ![f] = IF sid' = NoId THEN "first id" ELSE "status"]
  /\ UNCHANGED <<ownerVars, out, wpc, inflight, gpc, authVars>>

\* The response, whose session id is captured under session_id_mu_.
PostReturns(f, r, i) ==
  /\ fpc[f] = "post" /\ r # "failed"
  /\ result' = [result EXCEPT ![f] = r]
  /\ sid' = IF i # NoId THEN i ELSE sid
  /\ fpc' = [fpc EXCEPT ![f] = IF i # NoId /\ sid = NoId THEN "first id"
                                                         ELSE "status"]
  /\ UNCHANGED <<ownerVars, out, wpc, inflight, gpc, authVars>>

\* The first id wakes the GET thread.
NotifyFirstId(f) ==
  /\ fpc[f] = "first id"
  /\ gpc' = IF gpc = "sleep" THEN "check" ELSE gpc
  /\ fpc' = [fpc EXCEPT ![f] = "status"]
  /\ UNCHANGED <<ownerVars, out, result, wpc, inflight, sid, authVars>>

\* Mutant: every 401 calls on_unauthorized.
DeniedAlwaysAsks(f) ==
  /\ fpc[f] = "status"
  /\ \/ /\ result[f] \in {"accepted", "ok"}
        /\ armed' = TRUE /\ rearmed' = rearmed + 1
        /\ UNCHANGED asked
     \/ /\ result[f] = "denied"
        /\ armed' = FALSE /\ asked' = asked + 1
        /\ UNCHANGED rearmed
     \/ /\ result[f] = "error"
        /\ UNCHANGED authVars
  /\ fpc' = [fpc EXCEPT ![f] = IF result[f] = "ok" THEN "deliver" ELSE "finish"]
  /\ UNCHANGED <<ownerVars, out, result, wpc, inflight, sid, gpc>>

\* The status: 2xx re-arms on_unauthorized, 401 and 403 call it if it is armed.
HandleStatus(f) ==
  /\ fpc[f] = "status"
  /\ \/ /\ result[f] \in {"accepted", "ok"}
        /\ armed' = TRUE /\ rearmed' = rearmed + 1
        /\ UNCHANGED asked
     \/ /\ result[f] = "denied"
        /\ armed' = FALSE
        /\ asked' = IF armed THEN asked + 1 ELSE asked
        /\ UNCHANGED rearmed
     \/ /\ result[f] = "error"
        /\ UNCHANGED authVars
  /\ fpc' = [fpc EXCEPT ![f] = IF result[f] = "ok" THEN "deliver" ELSE "finish"]
  /\ UNCHANGED <<ownerVars, out, result, wpc, inflight, sid, gpc>>

\* The body of a 200 goes to on_message.
DeliverBody(f) ==
  /\ fpc[f] = "deliver"
  /\ fpc' = [fpc EXCEPT ![f] = "finish"]
  /\ UNCHANGED <<ownerVars, out, result, wpc, inflight, sid, gpc, authVars>>

\* The end of the sender thread, under inflight_mu_.
SenderEnds(f) ==
  /\ fpc[f] = "finish"
  /\ inflight' = inflight - 1
  /\ fpc' = [fpc EXCEPT ![f] = "done"]
  /\ UNCHANGED <<ownerVars, out, result, wpc, sid, gpc, authVars>>

------------------------------------------------------------------------------
(* run_get_stream *)

GetTop ==
  /\ gpc = "top"
  /\ gpc' = IF closed THEN "exit" ELSE "check"
  /\ UNCHANGED <<ownerVars, sendVars, sid, authVars>>

\* It waits for a session id under session_id_mu_.
GetWait ==
  /\ gpc = "check"
  /\ gpc' = CASE closed -> "exit"
              [] ~closed /\ sid = NoId -> "sleep"
              [] ~closed /\ sid # NoId -> "get"
  /\ UNCHANGED <<ownerVars, sendVars, sid, authVars>>

\* 405 and 401 end the thread, and so does 404, which takes the id back.
GetReturns(r) ==
  /\ gpc = "get"
  /\ gpc' = CASE r = "ended" -> "returned"
              [] r = "not found" -> "gone"
              [] r \in {"no stream", "denied"} -> "exit"
  /\ sid' = IF r = "not found" THEN NoId ELSE sid
  /\ UNCHANGED <<ownerVars, sendVars, authVars>>

\* Anything else is tried again after a pause.
GetRetry ==
  /\ gpc = "returned"
  /\ gpc' = IF closed THEN "exit" ELSE "backoff"
  /\ UNCHANGED <<ownerVars, sendVars, sid, authVars>>

GetPauseEnds ==
  /\ gpc = "backoff"
  /\ gpc' = "top"
  /\ UNCHANGED <<ownerVars, sendVars, sid, authVars>>

------------------------------------------------------------------------------
CloseStep == \/ CloseDelete \/ CloseWakeWorker \/ CloseWakeGet \/ JoinWorker
             \/ JoinGet \/ CloseDrain \/ FireClose
WorkerStep == WorkerWait \/ WorkerDispatch
PostEnds(f) ==
  \/ PostFails(f)
  \/ \E r \in PostResults, i \in Ids \cup {NoId} : PostReturns(f, r, i)
SenderStep(f) ==
  \/ PostEnds(f) \/ NotifyFirstId(f) \/ HandleStatus(f) \/ DeliverBody(f)
  \/ SenderEnds(f)
GetEnds == \E r \in GetResults : GetReturns(r)
GetStep == GetTop \/ GetWait \/ GetRetry \/ GetPauseEnds

Next ==
  \/ \E g \in BOOLEAN : Start(g)
  \/ CloseBegin \/ CloseStep \/ WorkerStep \/ GetStep \/ GetEnds
  \/ \E f \in Frames : Send(f) \/ Push(f) \/ SenderStep(f)

Spec == Init /\ [][Next]_vars

\* Threads run, a POST ends with its request timeout, and the GET ends once the
\* transport is closed: client_get.stop() cuts it off, and a GET that has only
\* just begun ends at the first data, a heartbeat at the latest.  In an open
\* transport it need not end.
Fairness ==
  /\ WF_vars(CloseStep) /\ WF_vars(WorkerStep) /\ WF_vars(GetStep)
  /\ WF_vars(closed /\ GetEnds)
  /\ \A f \in Frames : WF_vars(Push(f)) /\ WF_vars(SenderStep(f))

FairSpec == Spec /\ Fairness

------------------------------------------------------------------------------
(* Properties *)

\* No thread of the transport is left when on_close has been called: the sender
\* threads are detached and use the transport, which may now be destroyed.
NothingRunsAfterClose ==
  notified =>
    /\ \A f \in Frames : fpc[f] \notin Sending \cup {"popped"}
    /\ wpc \in {"off", "exit"} /\ gpc \in {"off", "exit", "gone"}

\* Many POSTs that are denied together ask the application for a token once:
\* between two calls of on_unauthorized some POST has succeeded.
AskedOncePerBatch == asked <= rearmed + 1

\* A frame that is queued before close() begins is POSTed all the same, also
\* when close() comes next.
QueuedIsPosted ==
  \A f \in Frames : (fpc[f] = "queued" /\ ~closed) ~> (fpc[f] = "done")

\* The GET thread does not sleep through the first session id.
StreamFollowsId ==
  (gpc \in {"top", "check", "sleep"} /\ sid # NoId)
    ~> (gpc \notin {"top", "check", "sleep"} \/ sid = NoId)

\* close() returns, whatever the threads were doing.
CloseReturns == (opc # "idle") ~> (opc = "idle")
=============================================================================
