------------------------------ MODULE HttpStream ------------------------------
(***************************************************************************)
(* The GET stream of a HttpSessionTransport (src/src/http_server_host.cpp):  *)
(* what the server sends on its own, notifications and requests, is queued    *)
(* under get_mu_ and written by whatever GET handlers the client keeps open.  *)
(* Responses and POSTs are in module HttpHost, and so is all of the teardown   *)
(* that is not about a GET.                                                 *)
(*                                                                         *)
(* enter_get_stream and leave_get_stream set get_active_, which is never      *)
(* read, so they do not show here.                                          *)
(***************************************************************************)
EXTENDS Naturals, Sequences, FiniteSets

CONSTANTS
  Frames,     \* frames the server sends on its own
  Streams     \* GET requests

VARIABLES
  life,       \* the session: in the map, taken out, closed_, notified, and gone
  spc,        \* the thread that sends a frame
  queue,      \* get_queue_
  gpc,        \* a GET handler and its content provider
  alive,      \* the connection of a GET can be written
  hold,       \* what wait_get_frame has returned
  written,    \* what a GET has written
  lost,       \* frames whose write has failed
  pushed,     \* (history) the frames send() has accepted
  taken       \* (history) the frames that have left the queue

frameVars == <<life, spc>>
queueVars == <<queue, pushed, taken>>
getVars   == <<gpc, alive, hold, written, lost>>
vars == <<frameVars, queueVars, getVars>>

closed == life \in {"closed", "notified", "over"}

TypeOK ==
  /\ life \in {"listed", "unlisted", "closed", "notified", "over"}
  /\ spc \in [Frames -> {"idle", "session", "open", "sent", "refused"}]
  /\ queue \in Seq(Frames) /\ pushed \in Seq(Frames) /\ taken \in Seq(Frames)
  /\ gpc \in [Streams -> {"idle", "provide", "wait", "asleep", "write", "ping",
                          "done"}]
  /\ alive \in [Streams -> BOOLEAN]
  /\ hold \in [Streams -> UNION {[1 .. n -> Frames] : n \in 0 .. 1}]
  /\ written \in [Streams -> Seq(Frames)] /\ lost \in SUBSET Frames

Init ==
  /\ life = "listed" /\ spc = [f \in Frames |-> "idle"]
  /\ queue = <<>> /\ pushed = <<>> /\ taken = <<>>
  /\ gpc = [g \in Streams |-> "idle"] /\ alive = [g \in Streams |-> TRUE]
  /\ hold = [g \in Streams |-> <<>>] /\ written = [g \in Streams |-> <<>>]
  /\ lost = {}

------------------------------------------------------------------------------
(* Server::log, report_progress, sample, list_roots, elicit, ... *)

\* acquire_session: there is one until run() returns.
Offer(f) ==
  /\ spc[f] = "idle"
  /\ spc' = [spc EXCEPT ![f] = IF life = "over" THEN "refused" ELSE "session"]
  /\ UNCHANGED <<life, queueVars, getVars>>

\* HttpSessionTransport::send looks at closed_ ...
SendCheck(f) ==
  /\ spc[f] = "session"
  /\ spc' = [spc EXCEPT ![f] = IF closed THEN "refused" ELSE "open"]
  /\ UNCHANGED <<life, queueVars, getVars>>

\* notify_all on get_cv_.
Notified == [g \in Streams |-> IF gpc[g] = "asleep" THEN "wait" ELSE gpc[g]]

\* Mutant: the frame is queued, the readers are not told.
PushSilently(f) ==
  /\ spc[f] = "open"
  /\ queue' = Append(queue, f) /\ pushed' = Append(pushed, f)
  /\ spc' = [spc EXCEPT ![f] = "sent"]
  /\ UNCHANGED <<life, taken, getVars>>

\* ... and queues under get_mu_ what is not a response.  The transport may be
\* closed by now.
Push(f) ==
  /\ spc[f] = "open"
  /\ queue' = Append(queue, f) /\ pushed' = Append(pushed, f)
  /\ gpc' = Notified
  /\ spc' = [spc EXCEPT ![f] = "sent"]
  /\ UNCHANGED <<life, taken, alive, hold, written, lost>>

------------------------------------------------------------------------------
(* The GET handler *)

\* The look-up under sessions_mu: 404, or the content provider.
Open(g) ==
  /\ gpc[g] = "idle"
  /\ gpc' = [gpc EXCEPT ![g] = IF life = "listed" THEN "provide" ELSE "done"]
  /\ UNCHANGED <<frameVars, queueVars, alive, hold, written, lost>>

\* The content provider, which httplib calls as long as it returns true.
Provide(g) ==
  /\ gpc[g] = "provide"
  /\ gpc' = [gpc EXCEPT ![g] = IF closed \/ ~alive[g] THEN "done" ELSE "wait"]
  /\ UNCHANGED <<frameVars, queueVars, alive, hold, written, lost>>

\* wait_get_frame under get_mu_: a frame, ...
TakeFrame(g) ==
  /\ gpc[g] = "wait" /\ queue # <<>>
  /\ hold' = [hold EXCEPT ![g] = <<Head(queue)>>]
  /\ taken' = Append(taken, Head(queue))
  /\ queue' = Tail(queue)
  /\ gpc' = [gpc EXCEPT ![g] = "write"]
  /\ UNCHANGED <<frameVars, pushed, alive, written, lost>>

\* ... the end of the session, or nothing yet.
Wait(g) ==
  /\ gpc[g] = "wait" /\ queue = <<>>
  /\ gpc' = [gpc EXCEPT ![g] = IF closed THEN "ping" ELSE "asleep"]
  /\ UNCHANGED <<frameVars, queueVars, alive, hold, written, lost>>

\* 15 s without a notification.
WaitTimesOut(g) ==
  /\ gpc[g] = "asleep"
  /\ gpc' = [gpc EXCEPT ![g] = "ping"]
  /\ UNCHANGED <<frameVars, queueVars, alive, hold, written, lost>>

\* An empty comment keeps the connection up.
Ping(g) ==
  /\ gpc[g] = "ping"
  /\ gpc' = [gpc EXCEPT ![g] = IF alive[g] THEN "provide" ELSE "done"]
  /\ UNCHANGED <<frameVars, queueVars, alive, hold, written, lost>>

\* Mutant: what could not be written goes back to the queue, at its end.
WriteRequeues(g) ==
  /\ gpc[g] = "write"
  /\ hold' = [hold EXCEPT ![g] = <<>>]
  /\ \/ /\ alive[g]
        /\ written' = [written EXCEPT ![g] = @ \o hold[g]]
        /\ gpc' = [gpc EXCEPT ![g] = "provide"]
        /\ UNCHANGED queue
     \/ /\ ~alive[g]
        /\ queue' = queue \o hold[g]
        /\ gpc' = [gpc EXCEPT ![g] = "done"]
        /\ UNCHANGED written
  /\ UNCHANGED <<frameVars, pushed, taken, alive, lost>>

\* The frame is out, or it is lost: it is in no queue any more.
Write(g) ==
  /\ gpc[g] = "write"
  /\ hold' = [hold EXCEPT ![g] = <<>>]
  /\ \/ /\ alive[g]
        /\ written' = [written EXCEPT ![g] = @ \o hold[g]]
        /\ gpc' = [gpc EXCEPT ![g] = "provide"]
        /\ UNCHANGED lost
     \/ /\ ~alive[g]
        /\ lost' = lost \cup {hold[g][1]}
        /\ gpc' = [gpc EXCEPT ![g] = "done"]
        /\ UNCHANGED written
  /\ UNCHANGED <<frameVars, queueVars, alive>>

\* The client, or the network, drops a connection.
HangUp(g) ==
  /\ gpc[g] \notin {"idle", "done"} /\ alive[g]
  /\ alive' = [alive EXCEPT ![g] = FALSE]
  /\ UNCHANGED <<frameVars, queueVars, gpc, hold, written, lost>>

------------------------------------------------------------------------------
(* The end of the session *)

\* DELETE or stop() takes the session out of the map.
Unlist ==
  /\ life = "listed"
  /\ life' = "unlisted"
  /\ UNCHANGED <<spc, queueVars, getVars>>

\* HttpSessionTransport::close: the flag, which is not set under get_mu_ ...
Close ==
  /\ life = "unlisted"
  /\ life' = "closed"
  /\ UNCHANGED <<spc, queueVars, getVars>>

\* Mutant: the GET handlers are left to their timeouts.
CloseNotifiesNobody ==
  /\ life = "closed"
  /\ life' = "notified"
  /\ UNCHANGED <<spc, queueVars, getVars>>

\* ... and, after the POSTs, the GET handlers, under get_mu_.
CloseNotify ==
  /\ life = "closed"
  /\ life' = "notified"
  /\ gpc' = Notified
  /\ UNCHANGED <<spc, queueVars, alive, hold, written, lost>>

\* The on_close hook ends Server::run, which resets session_.
RunReturns ==
  /\ life = "notified"
  /\ life' = "over"
  /\ UNCHANGED <<spc, queueVars, getVars>>

------------------------------------------------------------------------------
Send(f) == SendCheck(f) \/ Push(f)
Handle(g) == Provide(g) \/ TakeFrame(g) \/ Wait(g) \/ Ping(g) \/ Write(g)
End == Close \/ CloseNotify \/ RunReturns

Next ==
  \/ \E f \in Frames : Offer(f) \/ Send(f)
  \/ \E g \in Streams : Open(g) \/ Handle(g) \/ WaitTimesOut(g) \/ HangUp(g)
  \/ Unlist \/ End

\* Threads run.  No progress is owed to the 15 s of a wait.
Fairness ==
  /\ \A f \in Frames : WF_vars(Send(f))
  /\ \A g \in Streams : WF_vars(Handle(g))
  /\ WF_vars(End)

Spec == Init /\ [][Next]_vars
FairSpec == Spec /\ Fairness

------------------------------------------------------------------------------
(* Properties *)

Elements(q) == {q[i] : i \in DOMAIN q}
At(q, f) == {i \in DOMAIN q : q[i] = f}

\* http_server_host.cpp:161-166: a frame that send() has accepted waits in the
\* queue until a GET takes it, and is then in the hands of that GET, written by
\* it, or lost with its connection: it is in one of these places, and once.
HeldBy(f) == {g \in Streams : hold[g] = <<f>>}
WrittenAt(f) == UNION {{<<g, i>> : i \in At(written[g], f)} : g \in Streams}
EachOnce ==
  \A f \in Elements(pushed) :
    Cardinality(At(queue, f)) + Cardinality(HeldBy(f))
      + Cardinality(WrittenAt(f)) + Cardinality(lost \cap {f}) = 1

\* However many GETs share the queue, together they are one channel of
\* transport.hpp: complete frames, in the order send() accepted them, each once.
Lines(q) == [i \in DOMAIN q |-> <<q[i]>>]
Whole(line) == line
ToClient == INSTANCE FrameChannel WITH
              Texts <- {<<f>> : f \in Frames}, Clean <- Whole,
              sent <- Lines(pushed), part <- <<>>, got <- Lines(taken)
OneChannel == ToClient!Spec

\* http_server_host.cpp:107: "Wake any GET stream waiter so the http handler can
\* return."  When the session is closed every GET ends, and none waits for its
\* timeout: stop() joins the listener, which waits for them.
StreamsLeave ==
  \A g \in Streams : (closed /\ gpc[g] # "idle") ~> (gpc[g] = "done")

\* A frame in the queue does not stay there while a GET of a client that is
\* there is open.
QueueIsServed ==
  \A f \in Frames : \A g \in Streams :
    (f \in Elements(queue) /\ gpc[g] \notin {"idle", "done"})
      ~> (f \notin Elements(queue) \/ ~alive[g] \/ closed)
=============================================================================
