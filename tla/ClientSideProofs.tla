-------------------------- MODULE ClientSideProofs ---------------------------
(***************************************************************************)
(* Theorems about the client's side: HttpClientTransport, for any finite set   *)
(* of frames and any session ids, and the facade, Client, for any threads,     *)
(* handlers and number of calls of connect().                               *)
(*                                                                         *)
(* The transport's close() may only wait for inflight_ because nothing can     *)
(* raise it any more: it has joined the worker, which alone starts sender      *)
(* threads, and the counter is the number of sender threads there are.        *)
(*                                                                         *)
(* The facade writes connected_ and session_ apart.  All sessions but one are  *)
(* closed at any time, or not yet constructed, and the place of the connector, *)
(* not the flag, says which one that is.                                     *)
(***************************************************************************)
EXTENDS HttpClientTransport, Client, FiniteSetTheorems, TLAPS

FrameStates == Sending \cup {"new", "push", "queued", "popped", "done",
                             "refused"}
WorkerStates == {"off", "check", "sleep", "count", "exit"}
GetStates == {"off", "top", "check", "sleep", "get", "returned", "backoff",
              "exit", "gone"}

\* The types of everything but the counter and the queue, which come with the
\* parts below.
Types ==
  /\ started \in BOOLEAN /\ closed \in BOOLEAN /\ notified \in BOOLEAN
  /\ opc \in {"idle", "delete", "wake", "stop", "join worker", "join get",
              "drain", "fire"}
  /\ fpc \in [Frames -> FrameStates]
  /\ result \in [Frames -> PostResults \cup {"none"}]
  /\ wpc \in WorkerStates
  /\ sid \in Ids \cup {NoId}
  /\ gpc \in GetStates

\* A response was seen by the thread that looks at its status.
Judged == \A f \in Frames :
            fpc[f] \in {"first id", "status"} => result[f] \in PostResults

\* The queue holds frames that wait in it, each once.
Queued ==
  /\ out \in Seq(Frames)
  /\ \A i \in 1 .. Len(out) : fpc[out[i]] = "queued"
  /\ \A i, j \in 1 .. Len(out) : out[i] = out[j] => i = j

\* The worker has the one frame it is about to dispatch.
Popped == {f \in Frames : fpc[f] = "popped"}
InHand ==
  /\ wpc # "count" => Popped = {}
  /\ wpc = "count" => \E f \in Frames : Popped = {f}

\* inflight_ is the number of sender threads.
Senders == {f \in Frames : fpc[f] \in Sending}
Counted == inflight = Cardinality(Senders)

\* Before start() there are no threads.
Fresh ==
  ~started => /\ wpc = "off" /\ gpc = "off" /\ Senders = {}
              /\ \A f \in Frames : fpc[f] \in {"new", "refused"}

\* What close() has joined and waited for stays so.
WorkerGone == wpc \in {"off", "exit"}
GetGone == gpc \in {"off", "exit", "gone"}
Joined ==
  /\ opc \in {"join get", "drain", "fire"} \/ notified => WorkerGone
  /\ opc \in {"drain", "fire"} \/ notified => GetGone
  /\ opc = "fire" \/ notified => Senders = {}

\* on_unauthorized was called since the last 2xx only if it is not armed.
Authorized ==
  /\ armed \in BOOLEAN /\ asked \in Nat /\ rearmed \in Nat
  /\ armed => asked <= rearmed
  /\ asked <= rearmed + 1

Inv == Types /\ Judged /\ Queued /\ InHand /\ Counted /\ Fresh /\ Joined
         /\ Authorized

OwnerSteps == \/ \E g \in BOOLEAN : Start(g)
              \/ CloseBegin \/ CloseDelete \/ CloseWakeWorker \/ CloseWakeGet
              \/ JoinWorker \/ JoinGet \/ CloseDrain \/ FireClose
GetSteps == \/ GetTop \/ GetWait \/ GetRetry \/ GetPauseEnds
            \/ \E r \in GetResults : GetReturns(r)

\* What the owner and the GET thread leave alone.
sendOnlyVars == <<out, fpc, result, inflight>>

------------------------------------------------------------------------------
\* The owner and the GET thread do not touch what belongs to the frames.
LEMMA FramesUntouched ==
  ASSUME OwnerSteps \/ GetSteps
  PROVE  UNCHANGED <<sendOnlyVars, authVars>>
BY DEF OwnerSteps, GetSteps, sendOnlyVars, sendVars, authVars, Start,
  CloseBegin,
  CloseDelete, CloseWakeWorker, CloseWakeGet, JoinWorker, JoinGet, CloseDrain,
  FireClose, GetTop, GetWait, GetRetry, GetPauseEnds, GetReturns

\* The set of sender threads is finite, so it can be counted.
LEMMA SendersFinite == IsFiniteSet(Senders) /\ IsFiniteSet(Senders')
<1>1. Senders \subseteq Frames /\ Senders' \subseteq Frames
  BY DEF Senders
<1> QED
  BY <1>1, FramesAssumption, FS_Subset

\* A frame that goes on to another state keeps the types ...
LEMMA FrameTypes ==
  ASSUME Types, NEW f \in Frames, NEW to \in FrameStates,
         fpc' = [fpc EXCEPT ![f] = to]
  PROVE  fpc' \in [Frames -> FrameStates]
BY DEF Types

\* ... and so does a step of the threads that leaves the owner alone.
LEMMA TypesKept ==
  ASSUME Types, UNCHANGED ownerVars,
         fpc' \in [Frames -> FrameStates],
         result' \in [Frames -> PostResults \cup {"none"}],
         wpc' \in WorkerStates, sid' \in Ids \cup {NoId}, gpc' \in GetStates
  PROVE  Types'
BY DEF Types, ownerVars

\* An initial state satisfies the invariant.
LEMMA InitInv == Init => Inv
<1> SUFFICES ASSUME Init PROVE Inv
  OBVIOUS
<1>1. Types
  BY DEF Init, Types, FrameStates, WorkerStates, GetStates
<1>2. Popped = {} /\ Senders = {}
  BY DEF Init, Popped, Senders, Sending
<1>3. InHand /\ Counted /\ Fresh
  BY <1>2, FS_EmptySet DEF Init, InHand, Counted, Fresh
<1>4. Judged /\ Queued /\ Authorized
  BY DEF Init, Judged, Queued, Authorized
<1>5. Joined
  BY DEF Init, Joined
<1> QED
  BY <1>1, <1>3, <1>4, <1>5 DEF Inv

\* A step of the owner keeps the invariant.
LEMMA OwnerInv ==
  ASSUME Inv, OwnerSteps
  PROVE  Inv'
<1> USE DEF ownerVars, sendVars
<1>1. UNCHANGED <<sendOnlyVars, authVars>>
  BY FramesUntouched
<1>2. Types'
  <2>1. Types
    BY DEF Inv
  <2>2. ASSUME NEW g \in BOOLEAN, Start(g) PROVE Types'
    BY <2>1, <2>2 DEF Types, Start, WorkerStates, GetStates
  <2>3. CASE CloseBegin
    BY <2>1, <2>3 DEF Types, CloseBegin
  <2>4. CASE CloseDelete
    BY <2>1, <2>4 DEF Types, CloseDelete
  <2>5. CASE CloseWakeWorker
    BY <2>1, <2>5 DEF Types, CloseWakeWorker, WorkerStates
  <2>6. CASE CloseWakeGet
    BY <2>1, <2>6 DEF Types, CloseWakeGet, GetStates
  <2>7. CASE JoinWorker
    BY <2>1, <2>7 DEF Types, JoinWorker
  <2>8. CASE JoinGet
    BY <2>1, <2>8 DEF Types, JoinGet
  <2>9. CASE CloseDrain
    BY <2>1, <2>9 DEF Types, CloseDrain
  <2>10. CASE FireClose
    BY <2>1, <2>10 DEF Types, FireClose
  <2> QED
    BY <2>2, <2>3, <2>4, <2>5, <2>6, <2>7, <2>8, <2>9, <2>10 DEF OwnerSteps
<1>3. Senders' = Senders /\ Popped' = Popped
  BY <1>1 DEF Senders, Popped, sendOnlyVars
<1>4. Judged' /\ Queued' /\ Counted' /\ Authorized'
  BY <1>1, <1>3 DEF Inv, Judged, Queued, Counted, Authorized, sendOnlyVars,
    authVars
<1>5. wpc' = "count" <=> wpc = "count"
  BY DEF Inv, Fresh, OwnerSteps, Start, CloseBegin, CloseDelete,
    CloseWakeWorker,
    CloseWakeGet, JoinWorker, JoinGet, CloseDrain, FireClose
<1>6. InHand'
  BY <1>3, <1>5 DEF Inv, InHand
<1>7. Fresh'
  BY <1>1, <1>3 DEF Inv, Fresh, sendOnlyVars, OwnerSteps, Start, CloseBegin,
    CloseDelete, CloseWakeWorker, CloseWakeGet, JoinWorker, JoinGet, CloseDrain,
    FireClose
<1>8. Joined'
  <2> Joined
    BY DEF Inv
  <2>1. ASSUME NEW g \in BOOLEAN, Start(g) PROVE Joined'
    <3>1. opc' = "idle" /\ notified' = FALSE
      BY <2>1 DEF Start
    <3> QED
      BY <3>1 DEF Joined
  <2>2. CASE CloseBegin
    BY <2>2, <1>3 DEF Joined, WorkerGone, GetGone, CloseBegin
  <2>3. CASE CloseDelete
    BY <2>3, <1>3 DEF Joined, WorkerGone, GetGone, CloseDelete
  <2>4. CASE CloseWakeWorker
    BY <2>4, <1>3 DEF Joined, WorkerGone, GetGone, CloseWakeWorker
  <2>5. CASE CloseWakeGet
    BY <2>5, <1>3 DEF Joined, WorkerGone, GetGone, CloseWakeGet
  <2>6. CASE JoinWorker
    BY <2>6, <1>3 DEF Joined, WorkerGone, GetGone, JoinWorker
  <2>7. CASE JoinGet
    BY <2>7, <1>3 DEF Joined, WorkerGone, GetGone, JoinGet
  <2>8. CASE CloseDrain
    <3>1. Senders = {}
      BY <2>8, SendersFinite, FS_EmptySet DEF CloseDrain, Inv, Counted
    <3> QED
      BY <2>8, <3>1, <1>3 DEF Inv, Joined, WorkerGone, GetGone, CloseDrain
  <2>9. CASE FireClose
    BY <2>9, <1>3 DEF Inv, Joined, WorkerGone, GetGone, FireClose
  <2> QED
    BY <2>1, <2>2, <2>3, <2>4, <2>5, <2>6, <2>7, <2>8, <2>9
      DEF OwnerSteps
<1> QED
  BY <1>2, <1>4, <1>6, <1>7, <1>8 DEF Inv

\* A step of the GET thread keeps the invariant.
LEMMA GetInv ==
  ASSUME Inv, GetSteps
  PROVE  Inv'
<1> USE DEF ownerVars, sendVars
<1>1. UNCHANGED <<sendOnlyVars, authVars, ownerVars, wpc>>
  BY DEF GetSteps, sendOnlyVars, authVars, GetTop, GetWait, GetRetry,
    GetPauseEnds, GetReturns
<1>2. gpc' \in {"check", "sleep", "get", "returned", "backoff", "top", "exit",
                "gone"} /\ ~GetGone
  <2>1. CASE GetTop
    BY <2>1 DEF GetTop, GetGone
  <2>2. CASE GetWait
    <3>1. CASE closed
      BY <2>2, <3>1 DEF GetWait, GetGone
    <3>2. CASE ~closed
      BY <2>2, <3>2 DEF GetWait, GetGone
    <3> QED
      BY <3>1, <3>2
  <2>3. CASE GetRetry \/ GetPauseEnds
    BY <2>3 DEF GetRetry, GetPauseEnds, GetGone
  <2>4. ASSUME NEW r \in GetResults, GetReturns(r)
        PROVE  gpc' \in {"returned", "exit", "gone"} /\ ~GetGone
    BY <2>4 DEF GetReturns, GetResults, GetGone
  <2> QED
    BY <2>1, <2>2, <2>3, <2>4 DEF GetSteps
<1>3. sid' \in Ids \cup {NoId}
  BY DEF Inv, Types, GetSteps, GetTop, GetWait, GetRetry, GetPauseEnds,
    GetReturns
<1>4. Types'
  <2>1. Types /\ gpc' \in GetStates /\ UNCHANGED <<ownerVars, fpc, result, wpc>>
    BY <1>1, <1>2 DEF Inv, GetStates, sendOnlyVars
  <2> QED
    BY <2>1, <1>3 DEF Types
<1>5. Senders' = Senders /\ Popped' = Popped
  BY <1>1 DEF Senders, Popped, sendOnlyVars
<1>6. Judged' /\ Queued' /\ Counted' /\ Authorized' /\ InHand'
  BY <1>1, <1>5 DEF Inv, Judged, Queued, Counted, Authorized, InHand,
    sendOnlyVars, authVars
<1>7. Fresh' /\ Joined'
  BY <1>1, <1>2, <1>5 DEF Inv, Fresh, Joined, WorkerGone, GetGone, sendOnlyVars
<1> QED
  BY <1>4, <1>6, <1>7 DEF Inv

\* A frame that moves between states in which it neither waits in the queue nor
\* is in the worker's hand, nor starts or ends its thread, disturbs none of them.
LEMMA FrameMoves ==
  ASSUME Inv, NEW f \in Frames, NEW to,
         fpc' = [fpc EXCEPT ![f] = to],
         fpc[f] \notin {"queued", "popped"}, to \notin {"queued", "popped"},
         fpc[f] \in Sending <=> to \in Sending,
         UNCHANGED <<out, wpc, inflight>>
  PROVE  Queued' /\ InHand' /\ Counted' /\ Senders' = Senders
<1> fpc \in [Frames -> FrameStates]
  BY DEF Inv, Types
<1>1. Senders' = Senders /\ Popped' = Popped
  BY DEF Senders, Popped
<1>2. InHand' /\ Counted'
  BY <1>1 DEF Inv, InHand, Counted
<1>3. Queued'
  BY DEF Inv, Queued
<1> QED
  BY <1>1, <1>2, <1>3

\* send() keeps the invariant.
LEMMA SendInv ==
  ASSUME Inv, NEW f \in Frames, Send(f)
  PROVE  Inv'
<1> USE DEF ownerVars, sendVars
<1> DEFINE to == IF started /\ ~closed THEN "push" ELSE "refused"
<1> HIDE DEF to
<1>1. to \in {"push", "refused"} /\ (~started => to = "refused")
  BY DEF to
<1>2. /\ fpc[f] = "new" /\ fpc' = [fpc EXCEPT ![f] = to]
      /\ UNCHANGED <<ownerVars, out, result, wpc, inflight, sid, gpc, authVars>>
  BY DEF Send, to
<1>3. Queued' /\ InHand' /\ Counted' /\ Senders' = Senders
  BY <1>1, <1>2, FrameMoves DEF Sending
<1>4. Types'
  <2>1. Types /\ to \in FrameStates
    BY <1>1 DEF Inv, FrameStates
  <2>2. fpc' \in [Frames -> FrameStates]
    BY <2>1, <1>2, FrameTypes
  <2> QED
    BY <2>1, <2>2, <1>2 DEF Types
<1>5. Judged' /\ Fresh'
  BY <1>1, <1>2, <1>3 DEF Inv, Types, Judged, Fresh
<1>6. Joined' /\ Authorized'
  BY <1>2, <1>3 DEF Inv, Joined, WorkerGone, GetGone, Authorized, authVars
<1> QED
  BY <1>3, <1>4, <1>5, <1>6 DEF Inv

\* A frame joins the queue: the invariant is kept.
LEMMA PushInv ==
  ASSUME Inv, NEW f \in Frames, Push(f)
  PROVE  Inv'
<1> USE DEF ownerVars, sendVars
<1>1. /\ fpc[f] = "push" /\ fpc' = [fpc EXCEPT ![f] = "queued"]
      /\ out' = Append(out, f) /\ wpc' = IF wpc = "sleep" THEN "check" ELSE wpc
      /\ UNCHANGED <<ownerVars, result, inflight, sid, gpc, authVars>>
  BY DEF Push
<1>2. Types'
  <2>1. Types /\ "queued" \in FrameStates
    BY DEF Inv, FrameStates
  <2>2. fpc' \in [Frames -> FrameStates]
    BY <2>1, <1>1, FrameTypes
  <2>3. wpc' \in WorkerStates
    BY <2>1, <1>1 DEF Types, WorkerStates
  <2> QED
    BY <2>1, <2>2, <2>3, <1>1 DEF Types
<1>3. Senders' = Senders /\ Popped' = Popped
  BY <1>1 DEF Inv, Types, Senders, Popped, Sending
<1>4. Queued'
  <2>1. out' \in Seq(Frames) /\ Len(out') = Len(out) + 1 /\ Len(out) \in Nat
    BY <1>1 DEF Inv, Queued
  <2>2. \A i \in 1 .. Len(out') :
          out'[i] = IF i = Len(out) + 1 THEN f ELSE out[i]
    BY <1>1 DEF Inv, Queued
  <2>3. \A i \in 1 .. Len(out) : out[i] \in Frames /\ out[i] # f
    BY <1>1 DEF Inv, Queued
  <2>4. \A i \in 1 .. Len(out') : fpc'[out'[i]] = "queued"
    <3>1. \A g \in Frames : fpc'[g] = IF g = f THEN "queued" ELSE fpc[g]
      BY <1>1 DEF Inv, Types
    <3>2. \A i \in 1 .. Len(out) : fpc'[out[i]] = "queued"
      BY <2>3, <3>1 DEF Inv, Queued
    <3> QED
      BY <2>1, <2>2, <3>1, <3>2
  <2>5. \A i, j \in 1 .. Len(out') : out'[i] = out'[j] => i = j
    BY <2>1, <2>2, <2>3 DEF Inv, Queued
  <2> QED
    BY <2>1, <2>4, <2>5 DEF Queued
<1>5. InHand' /\ Counted'
  BY <1>1, <1>3 DEF Inv, InHand, Counted
<1>6. started
  BY <1>1 DEF Inv, Fresh
<1>7. Judged' /\ Fresh'
  BY <1>1, <1>6 DEF Inv, Types, Judged, Fresh
<1>8. Joined' /\ Authorized'
  BY <1>1, <1>3 DEF Inv, Joined, WorkerGone, GetGone, Authorized, authVars
<1> QED
  BY <1>2, <1>4, <1>5, <1>7, <1>8 DEF Inv

\* The worker takes a frame, sleeps or returns: the invariant is kept.
LEMMA WorkerWaitInv ==
  ASSUME Inv, WorkerWait
  PROVE  Inv'
<1> USE DEF ownerVars, sendVars
<1>1. CASE out = <<>>
  <2>1. /\ wpc = "check" /\ wpc' \in {"exit", "sleep"}
        /\ UNCHANGED <<ownerVars, out, fpc, result, inflight, sid, gpc, authVars>>
    BY <1>1 DEF WorkerWait
  <2>2. Senders' = Senders /\ Popped' = Popped
    BY <2>1 DEF Senders, Popped
  <2>3. Types' /\ Judged' /\ Queued'
    <3>1. Types /\ Judged /\ Queued /\ wpc' \in WorkerStates
      BY <2>1 DEF Inv, WorkerStates
    <3>2. Types'
      BY <3>1, <2>1 DEF Types
    <3>3. Judged' /\ Queued'
      BY <3>1, <2>1 DEF Judged, Queued
    <3> QED
      BY <3>2, <3>3
  <2>4. InHand' /\ Counted' /\ Authorized'
    BY <2>1, <2>2 DEF Inv, InHand, Counted, Authorized, authVars
  <2>5. Fresh' /\ Joined'
    BY <2>1, <2>2 DEF Inv, Fresh, Joined, WorkerGone, GetGone
  <2> QED
    BY <2>3, <2>4, <2>5 DEF Inv
<1>2. CASE out # <<>>
  <2> DEFINE h == Head(out)
  <2>1. /\ wpc = "check" /\ wpc' = "count" /\ out' = Tail(out)
        /\ fpc' = [fpc EXCEPT ![h] = "popped"]
        /\ UNCHANGED <<ownerVars, result, inflight, sid, gpc, authVars>>
    BY <1>2 DEF WorkerWait
  <2>2. /\ h \in Frames /\ fpc[h] = "queued"
        /\ Len(out') = Len(out) - 1 /\ out' \in Seq(Frames) /\ Len(out) \in Nat
        /\ \A i \in 1 .. Len(out') : out'[i] = out[i + 1] /\ out[i + 1] # h
    BY <1>2, <2>1 DEF Inv, Queued
  <2> HIDE DEF h
  <2>3. \A g \in Frames : fpc'[g] = IF g = h THEN "popped" ELSE fpc[g]
    BY <2>1, <2>2 DEF Inv, Types
  <2>4. Senders' = Senders
    BY <2>2, <2>3 DEF Senders, Sending
  <2>5. Popped' = {h}
    BY <2>1, <2>2, <2>3 DEF Inv, InHand, Popped
  <2>6. Types' /\ Judged'
    <3>1. Types /\ Judged /\ "popped" \in FrameStates /\ wpc' \in WorkerStates
      BY <2>1 DEF Inv, FrameStates, WorkerStates
    <3>2. fpc' \in [Frames -> FrameStates]
      BY <3>1, <2>1, <2>2, FrameTypes
    <3>3. Types'
      BY <3>1, <3>2, <2>1 DEF Types
    <3>4. ASSUME NEW f \in Frames, fpc'[f] \in {"first id", "status"}
          PROVE  result'[f] \in PostResults
      <4>1. fpc[f] \in {"first id", "status"}
        BY <2>3, <3>4
      <4> QED
        BY <3>1, <4>1, <2>1 DEF Judged
    <3> QED
      BY <3>3, <3>4 DEF Judged
  <2>7. Queued'
    <3>1. \A i \in 1 .. Len(out') : fpc'[out'[i]] = "queued"
      BY <2>2, <2>3 DEF Inv, Queued
    <3>2. \A i, j \in 1 .. Len(out) : out[i] = out[j] => i = j
      BY DEF Inv, Queued
    <3>3. ASSUME NEW i \in 1 .. Len(out'), NEW j \in 1 .. Len(out'), out'[i] = out'[j]
          PROVE  i = j
      <4>1. i + 1 \in 1 .. Len(out) /\ j + 1 \in 1 .. Len(out)
        BY <2>2
      <4>2. out[i + 1] = out[j + 1]
        BY <2>2, <3>3
      <4>3. i + 1 = j + 1
        BY <3>2, <4>1, <4>2
      <4> QED
        BY <2>2, <4>3
    <3> QED
      BY <2>2, <3>1, <3>3 DEF Queued
  <2>8. InHand' /\ Counted' /\ Authorized'
    BY <2>1, <2>2, <2>4, <2>5 DEF Inv, InHand, Counted, Authorized, authVars
  <2>9. Fresh' /\ Joined'
    BY <2>1, <2>4 DEF Inv, Fresh, Joined, WorkerGone, GetGone
  <2> QED
    BY <2>6, <2>7, <2>8, <2>9 DEF Inv
<1> QED
  BY <1>1, <1>2

\* The worker starts a sender thread and counts it.
LEMMA WorkerDispatchInv ==
  ASSUME Inv, WorkerDispatch
  PROVE  Inv'
<1> USE DEF ownerVars, sendVars
<1>1. /\ wpc = "count" /\ wpc' = "check" /\ inflight' = inflight + 1
      /\ fpc' = [f \in Frames |-> IF fpc[f] = "popped" THEN "post" ELSE fpc[f]]
      /\ UNCHANGED <<ownerVars, out, result, sid, gpc, authVars>>
  BY DEF WorkerDispatch
<1>2. PICK h \in Frames : Popped = {h}
  BY <1>1 DEF Inv, InHand
<1>3. fpc[h] = "popped" /\ \A g \in Frames : fpc[g] = "popped" => g = h
  BY <1>2 DEF Popped
<1>4. h \notin Senders /\ Senders' = Senders \cup {h}
  BY <1>1, <1>3 DEF Senders, Sending
<1>5. Counted'
  BY <1>1, <1>4, SendersFinite, FS_AddElement DEF Inv, Counted
<1>6. Popped' = {}
  BY <1>1 DEF Popped
<1>7. Types' /\ Judged'
  <2>1. Types /\ Judged /\ "post" \in FrameStates /\ wpc' \in WorkerStates
    BY <1>1 DEF Inv, FrameStates, Sending, WorkerStates
  <2>2. fpc' \in [Frames -> FrameStates]
    BY <2>1, <1>1 DEF Types
  <2>3. Types'
    BY <2>1, <2>2, <1>1 DEF Types
  <2>4. Judged'
    BY <2>1, <1>1 DEF Judged
  <2> QED
    BY <2>3, <2>4
<1>8. Queued'
  BY <1>1 DEF Inv, Queued
<1>9. InHand' /\ Authorized'
  BY <1>1, <1>6 DEF Inv, InHand, Authorized, authVars
<1>10. Fresh' /\ Joined'
  BY <1>1 DEF Inv, Fresh, Joined, WorkerGone, GetGone
<1> QED
  BY <1>5, <1>7, <1>8, <1>9, <1>10 DEF Inv

\* A sender thread before its end: it stays a sender thread, and of the rest it
\* changes only what its response says.
Goes(f, to) ==
  /\ fpc[f] \in Sending /\ fpc' = [fpc EXCEPT ![f] = to]
  /\ UNCHANGED <<ownerVars, out, wpc, inflight>>
  /\ result' \in [Frames -> PostResults \cup {"none"}]
  /\ \A g \in Frames \ {f} : result'[g] = result[g]
  /\ to \in {"first id", "status"} => result'[f] \in PostResults
  /\ sid' \in Ids \cup {NoId}
  /\ gpc' = gpc \/ (gpc = "sleep" /\ gpc' = "check")

LEMMA SenderInv ==
  ASSUME Inv, NEW f \in Frames, NEW to \in Sending, Goes(f, to), Authorized'
  PROVE  Inv'
<1> USE DEF ownerVars, Goes
<1>1. Queued' /\ InHand' /\ Counted' /\ Senders' = Senders
  BY FrameMoves DEF Sending
<1>2. Types'
  <2>1. Types /\ to \in FrameStates
    BY DEF Inv, FrameStates
  <2>2. fpc' \in [Frames -> FrameStates]
    BY <2>1, FrameTypes
  <2>3. wpc' \in WorkerStates /\ gpc' \in GetStates
    BY <2>1 DEF Types, WorkerStates, GetStates
  <2> QED
    BY <2>1, <2>2, <2>3, TypesKept
<1>3. Judged'
  BY DEF Inv, Types, Judged
<1>4. f \in Senders
  BY DEF Senders
<1>5. Fresh' /\ Joined'
  BY <1>1, <1>4 DEF Inv, Fresh, Joined, WorkerGone, GetGone
<1> QED
  BY <1>1, <1>2, <1>3, <1>5 DEF Inv

\* Every step of process_send but the last keeps the invariant.
LEMMA ProcessSendInv ==
  ASSUME Inv, NEW f \in Frames,
         PostEnds(f) \/ NotifyFirstId(f) \/ HandleStatus(f) \/ DeliverBody(f)
  PROVE  Inv'
<1> USE DEF ownerVars, sendVars
<1> /\ Types /\ Judged /\ Authorized
  BY DEF Inv
<1>1. CASE PostFails(f)
  <2>1. Goes(f, "finish") /\ Authorized'
    BY <1>1 DEF PostFails, Goes, Types, Sending, PostResults, Authorized,
      authVars
  <2> QED
    BY <2>1, SenderInv DEF Sending
<1>2. ASSUME NEW r \in PostResults, NEW i \in Ids \cup {NoId},
             PostReturns(f, r, i)
      PROVE  Inv'
  <2> DEFINE to == IF i # NoId /\ sid = NoId THEN "first id" ELSE "status"
  <2>1. to \in {"first id", "status"}
    OBVIOUS
  <2>2. Goes(f, to) /\ Authorized'
    BY <1>2 DEF PostReturns, Goes, Types, Sending, Authorized, authVars
  <2> QED
    BY <2>1, <2>2, SenderInv DEF Sending
<1>3. CASE NotifyFirstId(f)
  <2>1. Goes(f, "status") /\ Authorized'
    BY <1>3 DEF NotifyFirstId, Goes, Types, Judged, Sending, Authorized,
      authVars
  <2> QED
    BY <2>1, SenderInv DEF Sending
<1>4. CASE HandleStatus(f)
  <2> DEFINE to == IF result[f] = "ok" THEN "deliver" ELSE "finish"
  <2>1. to \in {"deliver", "finish"}
    OBVIOUS
  <2>2. Goes(f, to)
    BY <1>4 DEF HandleStatus, Goes, Types, Sending
  <2>3. Authorized'
    <3>1. CASE result[f] \in {"accepted", "ok"}
      <4>1. armed' = TRUE /\ rearmed' = rearmed + 1 /\ asked' = asked
        BY <1>4, <3>1 DEF HandleStatus
      <4> QED
        BY <4>1 DEF Authorized
    <3>2. CASE result[f] = "denied"
      <4>1. /\ armed' = FALSE /\ rearmed' = rearmed
            /\ asked' = IF armed THEN asked + 1 ELSE asked
        BY <1>4, <3>2 DEF HandleStatus
      <4>2. CASE armed
        <5>1. asked' = asked + 1
          BY <4>1, <4>2
        <5>2. asked <= rearmed /\ asked \in Nat /\ rearmed \in Nat
          BY <4>2 DEF Authorized
        <5>3. asked' \in Nat /\ rearmed' \in Nat /\ asked' <= rearmed' + 1
          BY <4>1, <5>1, <5>2
        <5> QED
          BY <4>1, <5>3 DEF Authorized
      <4>3. CASE ~armed
        BY <4>1, <4>3 DEF Authorized
      <4> QED
        BY <4>2, <4>3
    <3>3. CASE result[f] = "error"
      BY <1>4, <3>3 DEF HandleStatus, Authorized, authVars
    <3> QED
      BY <1>4, <3>1, <3>2, <3>3 DEF HandleStatus
  <2> QED
    BY <2>1, <2>2, <2>3, SenderInv DEF Sending
<1>5. CASE DeliverBody(f)
  <2>1. Goes(f, "finish") /\ Authorized'
    BY <1>5 DEF DeliverBody, Goes, Types, Sending, Authorized, authVars
  <2> QED
    BY <2>1, SenderInv DEF Sending
<1> QED
  BY <1>1, <1>2, <1>3, <1>4, <1>5 DEF PostEnds

\* The end of a sender thread, which is counted down.
LEMMA SenderEndsInv ==
  ASSUME Inv, NEW f \in Frames, SenderEnds(f)
  PROVE  Inv'
<1> USE DEF ownerVars, sendVars
<1>1. /\ fpc[f] = "finish" /\ inflight' = inflight - 1
      /\ fpc' = [fpc EXCEPT ![f] = "done"]
      /\ UNCHANGED <<ownerVars, out, result, wpc, sid, gpc, authVars>>
  BY DEF SenderEnds
<1>2. f \in Senders /\ Senders' = Senders \ {f} /\ Popped' = Popped
  BY <1>1 DEF Inv, Types, Senders, Popped, Sending
<1>3. Counted'
  BY <1>1, <1>2, SendersFinite, FS_RemoveElement DEF Inv, Counted
<1>4. Types' /\ Judged'
  <2>1. Types /\ Judged /\ "done" \in FrameStates
    BY DEF Inv, FrameStates
  <2>2. fpc' \in [Frames -> FrameStates]
    BY <2>1, <1>1, FrameTypes
  <2>3. Types'
    BY <2>1, <2>2, <1>1 DEF Types
  <2>4. Judged'
    BY <2>1, <1>1 DEF Types, Judged
  <2> QED
    BY <2>3, <2>4
<1>5. Queued'
  <2>1. \A g \in Frames : g # f => fpc'[g] = fpc[g]
    BY <1>1 DEF Inv, Types
  <2>2. \A i \in 1 .. Len(out) : out[i] \in Frames /\ out[i] # f
    BY <1>1 DEF Inv, Queued
  <2> QED
    BY <1>1, <2>1, <2>2 DEF Inv, Queued
<1>6. InHand' /\ Authorized'
  BY <1>1, <1>2 DEF Inv, InHand, Authorized, authVars
<1>7. Fresh' /\ Joined'
  BY <1>1, <1>2 DEF Inv, Fresh, Joined, WorkerGone, GetGone
<1> QED
  BY <1>3, <1>4, <1>5, <1>6, <1>7 DEF Inv

\* Every step keeps the invariant.
LEMMA NextInv == Inv /\ [Next]_vars => Inv'
<1> SUFFICES ASSUME Inv, [Next]_vars PROVE Inv'
  OBVIOUS
<1>1. CASE OwnerSteps
  BY <1>1, OwnerInv
<1>2. CASE GetSteps
  BY <1>2, GetInv
<1>3. CASE WorkerStep
  BY <1>3, WorkerWaitInv, WorkerDispatchInv DEF WorkerStep
<1>4. ASSUME NEW f \in Frames, Send(f) \/ Push(f) \/ SenderStep(f) PROVE Inv'
  BY <1>4, SendInv, PushInv, ProcessSendInv, SenderEndsInv DEF SenderStep
<1>5. CASE UNCHANGED vars
  <2> USE <1>5 DEF vars, ownerVars, sendVars, authVars, Inv
  <2>1. Senders' = Senders /\ Popped' = Popped
    BY DEF Senders, Popped
  <2>2. Types' /\ Judged' /\ Queued'
    <3>1. Types'
      BY DEF Types
    <3>2. Judged'
      BY DEF Judged
    <3>3. Queued'
      BY DEF Queued
    <3> QED
      BY <3>1, <3>2, <3>3
  <2>3. InHand' /\ Counted' /\ Authorized'
    BY <2>1 DEF InHand, Counted, Authorized
  <2>4. Fresh' /\ Joined'
    BY <2>1 DEF Fresh, Joined, WorkerGone, GetGone
  <2> QED
    BY <2>2, <2>3, <2>4
<1> QED
  BY <1>1, <1>2, <1>3, <1>4, <1>5 DEF Next, OwnerSteps, GetSteps, CloseStep,
    GetStep, GetEnds

\* The invariant holds in every reachable state.
LEMMA Invariance == Spec => []Inv
BY InitInv, NextInv, PTL DEF Spec

------------------------------------------------------------------------------
\* Type correctness: in particular inflight_ never becomes negative.
THEOREM TypeCorrect == Spec => []TypeOK
<1>1. Inv => TypeOK
  <2> SUFFICES ASSUME Inv PROVE TypeOK
    OBVIOUS
  <2>1. inflight \in Nat
    BY SendersFinite, FS_CardinalityType DEF Inv, Counted
  <2> QED
    BY <2>1 DEF Inv, Types, FrameStates, WorkerStates, GetStates, Queued,
      Authorized, TypeOK
<1> QED
  BY <1>1, Invariance, PTL

\* close(): when on_close is called no thread of the transport is left, however
\* many frames were queued, posted or still on their way through send().
THEOREM NothingLeft == Spec => []NothingRunsAfterClose
<1>1. Inv => NothingRunsAfterClose
  <2> SUFFICES ASSUME Inv, notified PROVE NothingRunsAfterClose
    BY DEF NothingRunsAfterClose
  <2>1. WorkerGone /\ GetGone /\ Senders = {}
    BY DEF Inv, Joined
  <2>2. Popped = {}
    BY <2>1 DEF Inv, InHand, WorkerGone
  <2> QED
    BY <2>1, <2>2 DEF NothingRunsAfterClose, WorkerGone, GetGone, Senders,
      Popped
<1> QED
  BY <1>1, Invariance, PTL

\* process_send: on_unauthorized is called once per batch of denied POSTs, for
\* any number of them side by side.
THEOREM AskedOnce == Spec => []AskedOncePerBatch
<1>1. Inv => AskedOncePerBatch
  BY DEF Inv, Authorized, AskedOncePerBatch
<1> QED
  BY <1>1, Invariance, PTL

------------------------------------------------------------------------------
(* The facade *)

Places == Disconnecting \cup Connecting
            \cup {"idle", "derive", "send", "tell", "waiting", "keep", "register"}
Lives == {"none", "new", "open", "gone", "closed"}
JobSteps == {"none", "send", "sent", "answered", "note", "ok", "failed"}
Jobs(n) == [step : JobSteps, at : 0 .. n, caps : SUBSET Methods]

ThreadTypes ==
  /\ connected \in BOOLEAN /\ current \in 0 .. made
  /\ life \in [Sessions -> Lives]
  /\ pc \in [Threads -> Places] /\ then \in [Threads -> {"idle", "make"}]
  /\ mine \in [Threads -> 0 .. made] /\ job \in [Threads -> Jobs(made)]

DataTypes ==
  /\ made \in 0 .. MaxSessions /\ server \in 0 .. made
  /\ table \in [Sessions -> SUBSET (Methods \cup Notes)]
  /\ kept \subseteq Methods /\ override \subseteq Methods
  /\ setting \in ((Methods \cup Notes) \X BOOLEAN) \cup {NoSetting}
  /\ peer \in [Sessions -> {"fresh", "asked", "ready"}]
  /\ offered \in [Sessions -> SUBSET Methods]

\* Only the connector is ever on its way to a new session, and it has the room
\* for it when it sets out.
ConnectorAlone ==
  /\ \A t \in Threads :
       /\ pc[t] \in Connecting => t = Connector
       /\ then[t] = "make" => t = Connector /\ pc[t] \in Disconnecting
  /\ then[Connector] = "make" \/ pc[Connector] = "make" => made < MaxSessions

\* What is put into the tables is a handler of the server's.
SettingTyped ==
  /\ pc[Registrar] \in {"keep", "register"} =>
       setting \in (Methods \cup Notes) \X BOOLEAN
  /\ pc[Registrar] = "keep" => setting[1] \in Methods

ClientTypes == ThreadTypes /\ DataTypes /\ ConnectorAlone /\ SettingTyped

LEMMA ClientTypesAre == ClientTypes => ClientTypeOK
BY DEF ClientTypes, ClientTypeOK, ThreadTypes, DataTypes, Places, Lives, Jobs,
       JobSteps

\* What a step does that may drop a reference: a session that is held stays as it
\* was ...
LEMMA ReferSessions ==
  ASSUME NEW c, NEW p, NEW m, NEW j, NEW l \in [Sessions -> Lives],
         Refer(c, p, m, j, l)
  PROVE  /\ current' = c /\ life' \in [Sessions -> Lives]
         /\ \A k \in Sessions :
              /\ life'[k] = l[k] \/ (life'[k] = "closed" /\ l[k] # "none")
              /\ k = c => life'[k] = l[k]
              /\ \A t \in Threads : m[t] = k /\ p[t] # "waiting" => life'[k] = l[k]
<1> DEFINE held(k) == \/ c = k
                      \/ \E t \in Threads : \/ m[t] = k /\ p[t] # "waiting"
                                            \/ j[t].at = k
<1>1. /\ current' = c
      /\ life' = [k \in Sessions |->
                   IF l[k] \in {"new", "open", "gone"} /\ ~held(k)
                   THEN "closed" ELSE l[k]]
  BY DEF Refer
<1>2. ASSUME NEW k \in Sessions
      PROVE  /\ life'[k] = l[k] \/ (life'[k] = "closed" /\ l[k] # "none")
             /\ held(k) => life'[k] = l[k]
             /\ life'[k] \in Lives
  BY <1>1, <1>2 DEF Lives
<1>3. ASSUME NEW k \in Sessions
      PROVE  /\ k = c => life'[k] = l[k]
             /\ \A t \in Threads : m[t] = k /\ p[t] # "waiting" => life'[k] = l[k]
  BY <1>2, <1>3
<1> HIDE DEF held
<1>4. life' \in [Sessions -> Lives]
  BY <1>1, <1>2
<1> QED
  BY <1>1, <1>2, <1>3, <1>4

\* ... and a caller goes on waiting only for a session that is up ...
LEMMA ReferThreads ==
  ASSUME NEW c, NEW p, NEW m, NEW j, NEW l, Refer(c, p, m, j, l)
  PROVE  \A t \in Threads :
           /\ \/ pc'[t] = p[t] /\ mine'[t] = m[t]
              \/ p[t] = "waiting" /\ pc'[t] = "idle" /\ mine'[t] = 0
           /\ pc'[t] = "waiting" => life'[m[t]] \notin {"gone", "closed"}
BY DEF Refer

LEMMA ReferTypes ==
  ASSUME NEW n \in Nat, NEW c, NEW p \in [Threads -> Places],
         NEW m \in [Threads -> 0 .. n], NEW j, NEW l, Refer(c, p, m, j, l)
  PROVE  pc' \in [Threads -> Places] /\ mine' \in [Threads -> 0 .. n]
<1> DEFINE over(k) == life'[k] \in {"gone", "closed"}
<1>1. /\ pc' = [t \in Threads |->
                 IF p[t] = "waiting" /\ over(m[t]) THEN "idle" ELSE p[t]]
      /\ mine' = [t \in Threads |->
                 IF p[t] = "waiting" /\ over(m[t]) THEN 0 ELSE m[t]]
  BY DEF Refer
<1> HIDE DEF over
<1>2. "idle" \in Places /\ 0 \in 0 .. n
  BY DEF Places
<1> QED
  BY <1>1, <1>2

\* ... and so does a job.
LEMMA ReferJobs ==
  ASSUME NEW n, NEW j \in [Threads -> Jobs(n)], NEW c, NEW p, NEW m, NEW l,
         Refer(c, p, m, j, l)
  PROVE  /\ job' \in [Threads -> Jobs(n)]
         /\ \A t \in Threads :
              /\ job'[t].at = j[t].at
              /\ \/ job'[t] = j[t]
                 \/ j[t].step = "sent" /\ job'[t].step = "failed"
              /\ job'[t].step = "sent" => life'[j[t].at] \notin {"gone", "closed"}
<1> DEFINE over(k) == life'[k] \in {"gone", "closed"}
           failed(t) == [j[t] EXCEPT !.step = "failed"]
<1>1. job' = [t \in Threads |-> IF j[t].step = "sent" /\ over(j[t].at)
                                THEN failed(t) ELSE j[t]]
  BY DEF Refer
<1>2. \A t \in Threads : /\ failed(t) \in Jobs(n) /\ failed(t).at = j[t].at
                         /\ failed(t).step = "failed"
  BY DEF Jobs, JobSteps
<1> HIDE DEF over, failed
<1>3. job' \in [Threads -> Jobs(n)]
  BY <1>1, <1>2
<1>4. ASSUME NEW t \in Threads
      PROVE  /\ job'[t].at = j[t].at
             /\ \/ job'[t] = j[t]
                \/ j[t].step = "sent" /\ job'[t].step = "failed"
             /\ job'[t].step = "sent" => ~over(j[t].at)
  BY <1>1, <1>2, <1>4
<1> QED
  BY <1>3, <1>4 DEF over

\* A step that may drop a reference, with its threads at p.
LEMMA ReferKeepsTypes ==
  ASSUME made' \in Nat, NEW c \in 0 .. made', NEW p \in [Threads -> Places],
         NEW m \in [Threads -> 0 .. made'], NEW j \in [Threads -> Jobs(made')],
         NEW l \in [Sessions -> Lives], Refer(c, p, m, j, l),
         connected' \in BOOLEAN, then' \in [Threads -> {"idle", "make"}],
         \A t \in Threads :
           /\ p[t] \in Connecting => t = Connector
           /\ then'[t] = "make" => t = Connector /\ p[t] \in Disconnecting,
         p[Connector] = "make" \/ then'[Connector] = "make" => made' < MaxSessions
  PROVE  ThreadTypes' /\ ConnectorAlone'
<1>1. current' = c /\ life' \in [Sessions -> Lives]
  BY ReferSessions
<1>2. pc' \in [Threads -> Places] /\ mine' \in [Threads -> 0 .. made']
  BY ReferTypes
<1>3. \A t \in Threads :
        pc'[t] = p[t] \/ (p[t] \notin Disconnecting /\ pc'[t] = "idle")
  BY ReferThreads DEF Disconnecting
<1>4. job' \in [Threads -> Jobs(made')]
  BY ReferJobs
<1>5. ConnectorAlone'
  BY <1>3, ThreadsAssumption DEF ConnectorAlone, Connecting
<1> QED
  BY <1>1, <1>2, <1>4, <1>5 DEF ThreadTypes

\* A thread goes on at a place that is not on the way to a session.
LEMMA DropKeepsTypes ==
  ASSUME ClientTypes, UNCHANGED <<made, then>>, connected' \in BOOLEAN,
         NEW t \in Threads, NEW to \in Places \ Connecting,
         NEW m \in [Threads -> 0 .. made], NEW j \in [Threads -> Jobs(made)],
         NEW l \in [Sessions -> Lives], then[t] = "make" => to \in Disconnecting,
         Refer(current, [pc EXCEPT ![t] = to], m, j, l)
  PROVE  ThreadTypes' /\ ConnectorAlone'
<1> DEFINE p == [pc EXCEPT ![t] = to]
<1>1. /\ made' \in Nat /\ current \in 0 .. made'
      /\ then' \in [Threads -> {"idle", "make"}] /\ p \in [Threads -> Places]
  BY MaxSessionsAssumption DEF ClientTypes, ThreadTypes, DataTypes
<1>2. /\ \A s \in Threads :
           /\ p[s] \in Connecting => s = Connector
           /\ then'[s] = "make" => s = Connector /\ p[s] \in Disconnecting
      /\ p[Connector] = "make" \/ then'[Connector] = "make" => made' < MaxSessions
  BY ThreadsAssumption DEF ClientTypes, ThreadTypes, ConnectorAlone, Connecting
<1> HIDE DEF p
<1>3. Refer(current, p, m, j, l) /\ m \in [Threads -> 0 .. made']
      /\ j \in [Threads -> Jobs(made')]
  BY DEF p
<1> QED
  BY <1>1, <1>2, <1>3, ReferKeepsTypes

LEMMA ThreadTypesStep ==
  ASSUME ClientTypes, [ClientNext]_facadeVars
  PROVE  ThreadTypes' /\ ConnectorAlone'
<1> USE DEF clientVars, handlerVars, peerVars, refVars
<1>1. /\ made \in Nat /\ current \in 0 .. made
      /\ life \in [Sessions -> Lives] /\ pc \in [Threads -> Places]
      /\ mine \in [Threads -> 0 .. made] /\ job \in [Threads -> Jobs(made)]
      /\ then \in [Threads -> {"idle", "make"}] /\ connected \in BOOLEAN
      /\ Connector \in Threads /\ Registrar \in Threads
      /\ \A t \in Threads :
           /\ pc[t] \in Connecting => t = Connector
           /\ then[t] = "make" => t = Connector /\ pc[t] \in Disconnecting
      /\ then[Connector] = "make" \/ pc[Connector] = "make" => made < MaxSessions
  BY ThreadsAssumption, MaxSessionsAssumption
     DEF ClientTypes, ThreadTypes, DataTypes, ConnectorAlone
<1>2. CASE Connect
  BY <1>1, <1>2 DEF Connect, ThreadTypes, ConnectorAlone, Connecting,
    Disconnecting, Places
<1>3. ASSUME NEW t \in Disconnectors, Disconnect(t)
      PROVE  ThreadTypes' /\ ConnectorAlone'
  <2>1. t \in Threads
    BY ThreadsAssumption
  <2> QED
    BY <1>1, <1>3, <2>1 DEF Disconnect, ThreadTypes, ConnectorAlone, Connecting,
      Disconnecting, Places
<1>4. ASSUME NEW t \in Threads, Swap(t) PROVE ThreadTypes' /\ ConnectorAlone'
  BY <1>1, <1>4 DEF Swap, ThreadTypes, ConnectorAlone, Connecting,
    Disconnecting, Places
<1>5. ASSUME NEW t \in Threads, TakeSession(t)
      PROVE  ThreadTypes' /\ ConnectorAlone'
  BY <1>1, <1>5 DEF TakeSession, ThreadTypes, ConnectorAlone, Connecting,
    Disconnecting, Places
<1>6. ASSUME NEW t \in Threads, CloseSession(t)
      PROVE  ThreadTypes' /\ ConnectorAlone'
  <2> DEFINE l == [k \in Sessions |-> IF k = mine[t] THEN "closed" ELSE life[k]]
  <2>1. l \in [Sessions -> Lives] /\ "reset" \in Places \ Connecting
        /\ "reset" \in Disconnecting
    BY <1>1 DEF Places, Disconnecting, Connecting, Lives
  <2>2. Refer(current, [pc EXCEPT ![t] = "reset"], mine, job, l)
        /\ UNCHANGED <<made, connected, then>>
    BY <1>6 DEF CloseSession
  <2> HIDE DEF l
  <2> QED
    BY <1>1, <2>1, <2>2, DropKeepsTypes
<1>7. ASSUME NEW t \in Threads, ResetServer(t)
      PROVE  ThreadTypes' /\ ConnectorAlone'
  <2> DEFINE p == [pc EXCEPT ![t] = then[t]]
             m == [mine EXCEPT ![t] = 0]
  <2>1. p \in [Threads -> Places] /\ m \in [Threads -> 0 .. made]
    BY <1>1 DEF Places, Connecting
  <2>2. /\ then' = [then EXCEPT ![t] = "idle"] /\ UNCHANGED <<made, connected>>
        /\ Refer(current, p, m, job, life)
    BY <1>7 DEF ResetServer, DropSession
  <2>3. /\ \A s \in Threads :
             /\ p[s] \in Connecting => s = Connector
             /\ then'[s] = "make" => s = Connector /\ p[s] \in Disconnecting
        /\ p[Connector] = "make" \/ then'[Connector] = "make" => made' < MaxSessions
    BY <1>1, <2>2 DEF Connecting
  <2>4. then' \in [Threads -> {"idle", "make"}]
    BY <1>1, <2>2
  <2> HIDE DEF p, m
  <2> QED
    BY <1>1, <2>1, <2>2, <2>3, <2>4, ReferKeepsTypes
<1>8. CASE MakeSession
  <2> DEFINE p == [pc EXCEPT ![Connector] = "acquire"]
             l == [life EXCEPT ![made'] = "new"]
  <2>1. made' = made + 1 /\ made' \in Nat /\ UNCHANGED <<connected, then>>
        /\ Refer(made', p, mine, job, l)
    BY <1>1, <1>8 DEF MakeSession
  <2>2. p \in [Threads -> Places] /\ l \in [Sessions -> Lives]
    BY <1>1 DEF Places, Connecting, Lives
  <2>3. mine \in [Threads -> 0 .. made']
    BY <1>1, <2>1
  <2>4. Jobs(made) \subseteq Jobs(made')
    BY <1>1, <2>1 DEF Jobs
  <2>5. job \in [Threads -> Jobs(made')]
    BY <1>1, <2>4
  <2>6. pc[Connector] = "make"
    BY <1>8 DEF MakeSession
  <2>7. /\ \A s \in Threads :
             /\ p[s] \in Connecting => s = Connector
             /\ then[s] # "make"
        /\ p[Connector] = "acquire"
    BY <1>1, <2>6 DEF Disconnecting
  <2> HIDE DEF p, l
  <2> QED
    BY <1>1, <2>1, <2>2, <2>3, <2>5, <2>7, ReferKeepsTypes
<1>9. CASE AcquireMade
  BY <1>1, <1>9 DEF AcquireMade, AcquireSession, ThreadTypes, ConnectorAlone,
     Connecting, Disconnecting, Places
<1>10. CASE StartSession
  BY <1>1, <1>10 DEF StartSession, ThreadTypes, ConnectorAlone, Connecting,
     Disconnecting, Places, Lives
<1>11. CASE Connected
  <2>1. "idle" \in Places \ Connecting /\ then[Connector] # "make"
    BY <1>1, <1>11 DEF Connected, Places, Connecting, Disconnecting
  <2>2. /\ connected' = TRUE /\ UNCHANGED <<made, then>>
        /\ Refer(current, [pc EXCEPT ![Connector] = "idle"],
                 [mine EXCEPT ![Connector] = 0], job, life)
    BY <1>11 DEF Connected, DropSession
  <2>3. [mine EXCEPT ![Connector] = 0] \in [Threads -> 0 .. made]
    BY <1>1
  <2> QED
    BY <1>1, <2>1, <2>2, <2>3, DropKeepsTypes
<1>12. ASSUME NEW k \in Sessions, PeerGoes(k)
       PROVE  ThreadTypes' /\ ConnectorAlone'
  <2> DEFINE l == [life EXCEPT ![k] = "gone"]
  <2>1. l \in [Sessions -> Lives]
    BY <1>1 DEF Lives
  <2>2. Refer(current, pc, mine, job, l) /\ UNCHANGED <<made, connected, then>>
    BY <1>12 DEF PeerGoes
  <2> HIDE DEF l
  <2> QED
    BY <1>1, <2>1, <2>2, ReferKeepsTypes
<1>13. ASSUME NEW t \in Threads, Call(t) \/ Notify(t)
       PROVE  ThreadTypes' /\ ConnectorAlone'
  BY <1>1, <1>13 DEF Call, Notify, AcquireSession, ThreadTypes, ConnectorAlone,
     Connecting, Disconnecting, Places
<1>14. ASSUME NEW t \in Threads, SendRequest(t)
       PROVE  ThreadTypes' /\ ConnectorAlone'
  <2>1. /\ {"idle", "waiting"} \subseteq Places \ Connecting /\ then[t] # "make"
        /\ UNCHANGED <<made, connected, then>>
    BY <1>1, <1>14 DEF SendRequest, Places, Connecting, Disconnecting
  <2>2. CASE Refer(current, [pc EXCEPT ![t] = "waiting"], mine, job, life)
    BY <1>1, <2>1, <2>2, DropKeepsTypes
  <2>3. CASE DropSession(t, "idle")
    <3>1. [mine EXCEPT ![t] = 0] \in [Threads -> 0 .. made]
      BY <1>1
    <3> QED
      BY <1>1, <2>1, <2>3, <3>1, DropKeepsTypes DEF DropSession
  <2> QED
    BY <1>14, <2>2, <2>3 DEF SendRequest
<1>15. ASSUME NEW t \in Threads, Tell(t) PROVE ThreadTypes' /\ ConnectorAlone'
  <2>1. /\ "idle" \in Places \ Connecting /\ then[t] # "make"
        /\ UNCHANGED <<made, connected, then>>
        /\ Refer(current, [pc EXCEPT ![t] = "idle"], [mine EXCEPT ![t] = 0], job, life)
    BY <1>1, <1>15 DEF Tell, DropSession, Places, Connecting, Disconnecting
  <2>2. [mine EXCEPT ![t] = 0] \in [Threads -> 0 .. made]
    BY <1>1
  <2> QED
    BY <1>1, <2>1, <2>2, DropKeepsTypes
<1>16. ASSUME NEW t \in Threads, Answer(t) PROVE ThreadTypes' /\ ConnectorAlone'
  BY <1>1, <1>16 DEF Answer, ThreadTypes, ConnectorAlone, Connecting,
    Disconnecting,
     Places
<1>17. ASSUME NEW t \in Threads, Initialize(t)
       PROVE  ThreadTypes' /\ ConnectorAlone'
  BY <1>1, <1>17 DEF Initialize, AcquireSession, ThreadTypes, ConnectorAlone,
     Connecting, Disconnecting, Places
<1>18. ASSUME NEW t \in Threads, Derive(t) PROVE ThreadTypes' /\ ConnectorAlone'
  <2> DEFINE r == [step |-> "send", at |-> mine[t], caps |-> kept \cup override]
  <2>1. r \in Jobs(made)
    BY <1>1 DEF Jobs, JobSteps, ClientTypes, DataTypes
  <2> HIDE DEF r
  <2>2. /\ [mine EXCEPT ![t] = 0] \in [Threads -> 0 .. made]
        /\ [job EXCEPT ![t] = r] \in [Threads -> Jobs(made)]
    BY <1>1, <2>1
  <2>3. /\ "idle" \in Places \ Connecting /\ then[t] # "make"
        /\ UNCHANGED <<made, connected, then>>
    BY <1>1, <1>18 DEF Derive, Places, Connecting, Disconnecting
  <2>4. Refer(current, [pc EXCEPT ![t] = "idle"], [mine EXCEPT ![t] = 0],
              [job EXCEPT ![t] = r], life)
    BY <1>18 DEF Derive, r
  <2> QED
    BY <1>1, <2>2, <2>3, <2>4, DropKeepsTypes
<1>19. ASSUME NEW t \in Threads, JobStep(t) \/ PeerInitialize(t)
       PROVE  ThreadTypes' /\ ConnectorAlone'
  <2>1. \A s \in JobSteps : [job[t] EXCEPT !.step = s] \in Jobs(made)
    BY <1>1 DEF Jobs
  <2>2. \E s \in JobSteps : job' = [job EXCEPT ![t].step = s]
    BY <1>19 DEF JobStep, JobSend, JobStore, JobNote, PeerInitialize, JobTo,
      JobSteps
  <2>3. job' \in [Threads -> Jobs(made)]
    BY <1>1, <2>1, <2>2
  <2>4. UNCHANGED <<connected, made, then, current, pc, mine, life>>
    BY <1>19 DEF JobStep, JobSend, JobStore, JobNote, PeerInitialize
  <2> QED
    BY <1>1, <2>3, <2>4 DEF ThreadTypes, ConnectorAlone
<1>20. ASSUME NEW t \in Threads, Forget(t) PROVE ThreadTypes' /\ ConnectorAlone'
  <2>1. NoJob \in Jobs(made)
    BY <1>1 DEF NoJob, Jobs, JobSteps
  <2>2. [job EXCEPT ![t] = NoJob] \in [Threads -> Jobs(made)]
    BY <1>1, <2>1
  <2>3. /\ Refer(current, pc, mine, [job EXCEPT ![t] = NoJob], life)
        /\ UNCHANGED <<made, connected, then>>
    BY <1>20 DEF Forget
  <2> QED
    BY <1>1, <2>2, <2>3, ReferKeepsTypes
<1>21. ASSUME NEW m, NEW on, SetHandler(m, on) \/ SetNoteHandler(m, on)
       PROVE  ThreadTypes' /\ ConnectorAlone'
  BY <1>1, <1>21 DEF SetHandler, SetNoteHandler, AcquireSession, ThreadTypes,
     ConnectorAlone, Connecting, Disconnecting, Places
<1>22. CASE KeepHandler
  BY <1>1, <1>22 DEF KeepHandler, ThreadTypes, ConnectorAlone, Connecting,
     Disconnecting, Places
<1>23. CASE RegisterHandler
  <2>1. /\ "idle" \in Places \ Connecting /\ then[Registrar] # "make"
        /\ UNCHANGED <<made, connected, then>>
        /\ Refer(current, [pc EXCEPT ![Registrar] = "idle"],
                 [mine EXCEPT ![Registrar] = 0], job, life)
    BY <1>1, <1>23 DEF RegisterHandler, DropSession, Places, Connecting,
      Disconnecting
  <2>2. [mine EXCEPT ![Registrar] = 0] \in [Threads -> 0 .. made]
    BY <1>1
  <2> QED
    BY <1>1, <2>1, <2>2, DropKeepsTypes
<1>24. ASSUME NEW S, SetCapabilities(S) \/ UNCHANGED facadeVars
       PROVE  ThreadTypes' /\ ConnectorAlone'
  BY <1>1, <1>24 DEF SetCapabilities, facadeVars, ThreadTypes, ConnectorAlone
<1>25. CASE ClientNext
  <2>1. ASSUME NEW t \in Threads, DisconnectStep(t)
        PROVE  ThreadTypes' /\ ConnectorAlone'
    BY <2>1, <1>4, <1>5, <1>6, <1>7 DEF DisconnectStep
  <2>2. CASE ConnectorStep \/ RegistrarStep
    BY <2>2, <1>8, <1>9, <1>10, <1>11, <1>22, <1>23 DEF ConnectorStep,
      RegistrarStep
  <2>3. ASSUME NEW t \in Threads,
               \/ Call(t) \/ SendRequest(t) \/ Answer(t) \/ Notify(t) \/ Tell(t)
               \/ Derive(t) \/ JobStep(t) \/ PeerInitialize(t) \/ Forget(t)
        PROVE  ThreadTypes' /\ ConnectorAlone'
    BY <2>3, <1>13, <1>14, <1>15, <1>16, <1>18, <1>19, <1>20
  <2>4. ASSUME NEW t \in Initializers, Initialize(t)
        PROVE  ThreadTypes' /\ ConnectorAlone'
    BY <2>4, <1>17, ThreadsAssumption
  <2> QED
    BY <1>25, <2>1, <2>2, <2>3, <2>4, <1>2, <1>3, <1>12, <1>21, <1>24 DEF
      ClientNext
<1> QED
  BY <1>24, <1>25

\* The steps that set or clear a handler ...
HandlerSteps ==
  \/ RegistrarStep
  \/ \E m \in Methods, on \in BOOLEAN : SetHandler(m, on)
  \/ \E n \in Notes, on \in BOOLEAN : SetNoteHandler(n, on)

\* ... are the only ones that move the registrar while it does so.
OnItsWay == pc[Registrar] \in {"keep", "register"}

RegistrarStays ==
  /\ UNCHANGED <<table, kept, setting>>
  /\ OnItsWay \/ OnItsWay' => /\ pc'[Registrar] = pc[Registrar]
                              /\ mine'[Registrar] = mine[Registrar]

\* A step that moves another thread, or leaves the registrar where it was.
LEMMA RegistrarStaysAtRefer ==
  ASSUME UNCHANGED <<table, kept, setting>>, NEW c, NEW p, NEW m, NEW j, NEW l,
         Refer(c, p, m, j, l),
         \/ p[Registrar] = pc[Registrar] /\ m[Registrar] = mine[Registrar]
         \/ p[Registrar] \notin {"keep", "register"} /\ ~OnItsWay
  PROVE  RegistrarStays
<1>1. \/ pc'[Registrar] = p[Registrar] /\ mine'[Registrar] = m[Registrar]
      \/ p[Registrar] = "waiting" /\ pc'[Registrar] = "idle"
  BY ReferThreads, ThreadsAssumption
<1> QED
  BY <1>1 DEF RegistrarStays, OnItsWay

LEMMA HandlersUndisturbed ==
  ASSUME ClientTypes, [ClientNext]_facadeVars, ~HandlerSteps
  PROVE  RegistrarStays
<1> USE DEF clientVars, handlerVars, peerVars, refVars
<1>1. /\ pc \in [Threads -> Places] /\ mine \in [Threads -> 0 .. made]
      /\ Connector \in Threads /\ Registrar \in Threads
      /\ \A t \in Threads :
           /\ pc[t] \in Connecting => t = Connector
           /\ then[t] = "make" => t = Connector /\ pc[t] \in Disconnecting
  BY ThreadsAssumption DEF ClientTypes, ThreadTypes, ConnectorAlone
<1>2. CASE Connect \/ AcquireMade \/ StartSession
  BY <1>1, <1>2 DEF Connect, AcquireMade, StartSession, AcquireSession,
     RegistrarStays, OnItsWay
<1>3. ASSUME NEW t \in Threads,
             \/ Disconnect(t) \/ Swap(t) \/ TakeSession(t) \/ Call(t) \/ Answer(t)
             \/ Notify(t) \/ Initialize(t)
      PROVE  RegistrarStays
  <2>1. /\ UNCHANGED <<table, kept, setting>>
        /\ \A s \in Threads \ {t} : pc'[s] = pc[s] /\ mine'[s] = mine[s]
    BY <1>1, <1>3 DEF Disconnect, Swap, TakeSession, Call, Answer, Notify,
      Initialize,
       AcquireSession
  <2>2. {pc[t], pc'[t]} \cap {"keep", "register"} = {}
    BY <1>1, <1>3 DEF Disconnect, Swap, TakeSession, Call, Answer, Notify,
      Initialize,
       AcquireSession
  <2> QED
    BY <1>1, <2>1, <2>2 DEF RegistrarStays, OnItsWay
<1>4. ASSUME NEW t \in Threads, NEW q, NEW m, NEW j, NEW l,
             {pc[t], q} \cap {"keep", "register"} = {},
             m = mine \/ m = [mine EXCEPT ![t] = 0],
             Refer(current, [pc EXCEPT ![t] = q], m, j, l),
             UNCHANGED <<table, kept, setting>>
      PROVE  RegistrarStays
  <2>1. CASE t = Registrar
    BY <1>1, <1>4, <2>1, RegistrarStaysAtRefer DEF OnItsWay
  <2>2. CASE t # Registrar
    BY <1>1, <1>4, <2>2, RegistrarStaysAtRefer
  <2> QED
    BY <2>1, <2>2
<1>5. ASSUME NEW t \in Threads, CloseSession(t) PROVE RegistrarStays
  BY <1>1, <1>4, <1>5 DEF CloseSession
<1>6. ASSUME NEW t \in Threads, ResetServer(t) PROVE RegistrarStays
  <2>1. {pc[t], then[t]} \cap {"keep", "register"} = {}
    BY <1>6 DEF ResetServer, ClientTypes, ThreadTypes
  <2> QED
    BY <1>1, <1>4, <1>6, <2>1 DEF ResetServer, DropSession
<1>7. ASSUME NEW t \in Threads, Tell(t) PROVE RegistrarStays
  BY <1>1, <1>4, <1>7 DEF Tell, DropSession
<1>8. ASSUME NEW t \in Threads, SendRequest(t) PROVE RegistrarStays
  BY <1>1, <1>4, <1>8 DEF SendRequest, DropSession
<1>9. ASSUME NEW t \in Threads, Derive(t) PROVE RegistrarStays
  BY <1>1, <1>4, <1>9 DEF Derive
<1>10. CASE Connected
  BY <1>1, <1>4, <1>10 DEF Connected, DropSession
<1>11. CASE MakeSession
  <2>1. /\ UNCHANGED <<table, kept, setting>> /\ pc[Connector] = "make"
        /\ Refer(made', [pc EXCEPT ![Connector] = "acquire"], mine, job,
                 [life EXCEPT ![made'] = "new"])
    BY <1>11 DEF MakeSession
  <2> QED
    BY <1>1, <2>1, RegistrarStaysAtRefer DEF OnItsWay
<1>12. ASSUME NEW k \in Sessions, PeerGoes(k) PROVE RegistrarStays
  BY <1>1, <1>12, RegistrarStaysAtRefer DEF PeerGoes
<1>13. ASSUME NEW t \in Threads, Forget(t) PROVE RegistrarStays
  BY <1>1, <1>13, RegistrarStaysAtRefer DEF Forget
<1>14. ASSUME NEW t \in Threads, JobStep(t) \/ PeerInitialize(t)
       PROVE  RegistrarStays
  BY <1>14 DEF JobStep, JobSend, JobStore, JobNote, PeerInitialize,
    RegistrarStays
<1>15. ASSUME NEW S, SetCapabilities(S) \/ UNCHANGED facadeVars
      PROVE  RegistrarStays
  BY <1>15 DEF SetCapabilities, facadeVars, RegistrarStays
<1>16. CASE ClientNext
  <2>1. ASSUME NEW t \in Threads, DisconnectStep(t) PROVE RegistrarStays
    BY <2>1, <1>3, <1>5, <1>6 DEF DisconnectStep
  <2>2. CASE ConnectorStep
    BY <2>2, <1>2, <1>10, <1>11 DEF ConnectorStep
  <2>3. ASSUME NEW t \in Threads,
               \/ Call(t) \/ SendRequest(t) \/ Answer(t) \/ Notify(t) \/ Tell(t)
               \/ Derive(t) \/ JobStep(t) \/ PeerInitialize(t) \/ Forget(t)
        PROVE  RegistrarStays
    BY <2>3, <1>3, <1>7, <1>8, <1>9, <1>13, <1>14
  <2>4. /\ \A t \in Initializers : Initialize(t) => RegistrarStays
        /\ \A t \in Disconnectors : Disconnect(t) => RegistrarStays
    BY <1>3, ThreadsAssumption
  <2> QED
    BY <1>16, <1>2, <1>12, <1>15, <2>1, <2>2, <2>3, <2>4 DEF ClientNext,
      HandlerSteps
<1> QED
  BY <1>15, <1>16

LEMMA DataTypesStep ==
  ASSUME ClientTypes, [ClientNext]_facadeVars
  PROVE  DataTypes'
<1> USE DEF clientVars, handlerVars, peerVars, refVars
<1>1. DataTypes /\ Registrar \in Threads /\ made \in Nat
      /\ job \in [Threads -> Jobs(made)]
  BY ThreadsAssumption, MaxSessionsAssumption DEF ClientTypes, ThreadTypes,
    DataTypes
<1>2. CASE UNCHANGED <<made, server, handlerVars, peerVars>>
  BY <1>1, <1>2 DEF DataTypes
<1>3. CASE MakeSession
  <2>1. made' = made + 1 /\ made' <= MaxSessions
        /\ UNCHANGED <<server, handlerVars, peerVars>>
    BY <1>1, <1>3, MaxSessionsAssumption DEF MakeSession, ClientTypes,
      ConnectorAlone,
       DataTypes
  <2> QED
    BY <1>1, <2>1, MaxSessionsAssumption DEF DataTypes
<1>4. ASSUME NEW t \in Threads, ResetServer(t) PROVE DataTypes'
  BY <1>1, <1>4 DEF ResetServer, DataTypes
<1>5. ASSUME NEW t \in Threads, JobStore(t) PROVE DataTypes'
  <2>1. job[t].at \in 0 .. made
    BY <1>1 DEF Jobs
  <2> QED
    BY <1>1, <1>5, <2>1 DEF JobStore, DataTypes
<1>6. ASSUME NEW t \in Threads, JobNote(t) \/ PeerInitialize(t) PROVE DataTypes'
  <2>1. job[t].caps \subseteq Methods
    BY <1>1 DEF Jobs
  <2> QED
    BY <1>1, <1>6, <2>1 DEF JobNote, PeerInitialize, DataTypes
<1>7. ASSUME NEW m \in Methods \cup Notes, NEW on \in BOOLEAN,
             SetHandler(m, on) \/ SetNoteHandler(m, on)
      PROVE  DataTypes'
  BY <1>1, <1>7 DEF SetHandler, SetNoteHandler, DataTypes
<1>8. CASE KeepHandler
  BY <1>1, <1>8 DEF KeepHandler, Put, DataTypes, ClientTypes, SettingTyped
<1>9. CASE RegisterHandler
  <2>1. setting \in (Methods \cup Notes) \X BOOLEAN
    BY <1>9 DEF RegisterHandler, ClientTypes, SettingTyped
  <2>2. \A k \in Sessions : Put(table[k]) \subseteq Methods \cup Notes
    BY <1>1, <2>1 DEF Put, DataTypes
  <2>3. table' = [table EXCEPT ![mine[Registrar]] = Put(@)] /\ setting' = NoSetting
        /\ UNCHANGED <<made, server, kept, override, peerVars>>
    BY <1>9 DEF RegisterHandler
  <2> QED
    BY <1>1, <2>2, <2>3 DEF DataTypes
<1>10. ASSUME NEW S \in SUBSET Methods, SetCapabilities(S) PROVE DataTypes'
  BY <1>1, <1>10 DEF SetCapabilities, DataTypes
<1>11. CASE UNCHANGED facadeVars
  BY <1>2, <1>11 DEF facadeVars
<1>12. CASE ClientNext
  <2>1. ASSUME NEW t \in Threads,
               \/ Swap(t) \/ TakeSession(t) \/ CloseSession(t) \/ Call(t)
               \/ SendRequest(t) \/ Answer(t) \/ Notify(t) \/ Tell(t) \/ Derive(t)
               \/ JobSend(t) \/ Forget(t)
        PROVE  DataTypes'
    BY <2>1, <1>2 DEF Swap, TakeSession, CloseSession, Call, SendRequest,
      Answer, Notify,
       Tell, Derive, JobSend, Forget
  <2>2. CASE Connect \/ AcquireMade \/ StartSession \/ Connected
    BY <2>2, <1>2 DEF Connect, AcquireMade, StartSession, Connected
  <2>3. ASSUME NEW t, Disconnect(t) \/ Initialize(t) \/ PeerGoes(t) PROVE DataTypes'
    BY <2>3, <1>2 DEF Disconnect, Initialize, PeerGoes
  <2>4. ASSUME NEW t \in Threads, DisconnectStep(t) \/ JobStep(t) PROVE DataTypes'
    BY <2>4, <2>1, <1>4, <1>5, <1>6 DEF DisconnectStep, JobStep
  <2>5. CASE ConnectorStep \/ RegistrarStep
    BY <2>5, <2>2, <1>3, <1>8, <1>9 DEF ConnectorStep, RegistrarStep
  <2>6. ASSUME NEW t \in Threads,
               \/ Call(t) \/ SendRequest(t) \/ Answer(t) \/ Notify(t) \/ Tell(t)
               \/ Derive(t) \/ JobStep(t) \/ PeerInitialize(t) \/ Forget(t)
        PROVE  DataTypes'
    BY <2>6, <2>1, <2>4, <1>6
  <2> QED
    BY <1>12, <2>2, <2>3, <2>4, <2>5, <2>6, <1>2, <1>7, <1>10 DEF ClientNext,
      Connect
<1> QED
  BY <1>11, <1>12

LEMMA SettingTypedStep ==
  ASSUME ClientTypes, [ClientNext]_facadeVars
  PROVE  SettingTyped'
<1> USE DEF SettingTyped
<1>1. SettingTyped /\ pc \in [Threads -> Places] /\ Registrar \in Threads
  BY ThreadsAssumption DEF ClientTypes, ThreadTypes
<1>2. CASE ~HandlerSteps
  BY <1>1, <1>2, HandlersUndisturbed DEF RegistrarStays, OnItsWay
<1>3. ASSUME NEW m \in Methods, NEW on \in BOOLEAN, SetHandler(m, on)
      PROVE  SettingTyped'
  BY <1>1, <1>3 DEF SetHandler, AcquireSession
<1>4. ASSUME NEW n \in Notes, NEW on \in BOOLEAN, SetNoteHandler(n, on)
      PROVE  SettingTyped'
  BY <1>1, <1>4 DEF SetNoteHandler, AcquireSession
<1>5. CASE KeepHandler
  BY <1>1, <1>5 DEF KeepHandler
<1>6. CASE RegisterHandler
  <2> DEFINE p == [pc EXCEPT ![Registrar] = "idle"]
  <2>1. Refer(current, p, [mine EXCEPT ![Registrar] = 0], job, life)
    BY <1>6 DEF RegisterHandler, DropSession
  <2>2. p[Registrar] = "idle"
    BY <1>1
  <2> HIDE DEF p
  <2>3. pc'[Registrar] = "idle"
    BY <1>1, <2>1, <2>2, ReferThreads
  <2> QED
    BY <2>3
<1> QED
  BY <1>2, <1>3, <1>4, <1>5, <1>6 DEF HandlerSteps, RegistrarStep

LEMMA ClientTypesInvariance == ClientSpec => []ClientTypes
<1>1. ClientInit => ClientTypes
  <2> SUFFICES ASSUME ClientInit PROVE ClientTypes
    OBVIOUS
  <2>1. ThreadTypes
    <3>1. 0 \in 0 .. 0 /\ NoJob \in Jobs(0)
      BY DEF NoJob, Jobs, JobSteps
    <3> QED
      BY <3>1 DEF ClientInit, ThreadTypes, Places, Lives
  <2>2. DataTypes
    BY MaxSessionsAssumption DEF ClientInit, DataTypes
  <2>3. ConnectorAlone /\ SettingTyped
    BY ThreadsAssumption DEF ClientInit, ConnectorAlone, SettingTyped,
      Connecting
  <2> QED
    BY <2>1, <2>2, <2>3 DEF ClientTypes
<1>2. ClientTypes /\ [ClientNext]_facadeVars => ClientTypes'
  BY ThreadTypesStep, DataTypesStep, SettingTypedStep DEF ClientTypes
<1> QED
  BY <1>1, <1>2, PTL DEF ClientSpec

\* The types of the facade's state: a session that somebody refers to has been
\* constructed.
THEOREM ClientTypeCorrect == ClientSpec => []ClientTypeOK
BY ClientTypesInvariance, ClientTypesAre, PTL

------------------------------------------------------------------------------
(* The handlers of the facade *)

LEMMA MadeGrows ==
  ASSUME [ClientNext]_facadeVars
  PROVE  UNCHANGED made \/ MakeSession
<1> USE DEF clientVars, handlerVars, peerVars, refVars
<1>1. ASSUME NEW t \in Threads, DisconnectStep(t) \/ JobStep(t) \/ PeerInitialize(t)
      PROVE  UNCHANGED made
  BY <1>1 DEF DisconnectStep, Swap, TakeSession, CloseSession, ResetServer,
    JobStep,
     JobSend, JobStore, JobNote, PeerInitialize
<1>2. ASSUME NEW t \in Threads,
             \/ Call(t) \/ SendRequest(t) \/ Answer(t) \/ Notify(t) \/ Tell(t)
             \/ Derive(t) \/ Forget(t)
      PROVE  UNCHANGED made
  BY <1>2 DEF Call, SendRequest, Answer, Notify, Tell, Derive, Forget
<1>3. CASE ConnectorStep \/ RegistrarStep \/ Connect
  BY <1>3 DEF ConnectorStep, RegistrarStep, Connect, AcquireMade, StartSession,
     Connected, KeepHandler, RegisterHandler
<1>4. ASSUME NEW t, Disconnect(t) \/ Initialize(t) \/ PeerGoes(t) \/ SetCapabilities(t)
      PROVE  UNCHANGED made
  BY <1>4 DEF Disconnect, Initialize, PeerGoes, SetCapabilities
<1>5. ASSUME NEW m, NEW on, SetHandler(m, on) \/ SetNoteHandler(m, on)
      PROVE  UNCHANGED made
  BY <1>5 DEF SetHandler, SetNoteHandler
<1> QED
  BY <1>1, <1>2, <1>3, <1>4, <1>5 DEF ClientNext, facadeVars

\* Before the first session there are no handlers; the first session has those
\* that are kept, but for the one that is on its way to it.
FirstHas == IF pc[Registrar] = "register" THEN Put(table[1]) ELSE table[1]

Agreement ==
  /\ OnItsWay => mine[Registrar] # 0
  /\ made = 0 => kept = {}
  /\ \A k \in Sessions : k > made => table[k] = {}
  /\ made = 1 => kept = FirstHas \cap Methods

HandlersInv == ClientTypes /\ Agreement

LEMMA AgreementUndisturbed ==
  ASSUME HandlersInv, [ClientNext]_facadeVars, RegistrarStays
  PROVE  Agreement'
<1> USE DEF Agreement, FirstHas
<1>1. /\ Agreement /\ RegistrarStays /\ made \in 0 .. MaxSessions
      /\ mine[Registrar] \in 0 .. made
  BY ThreadsAssumption DEF HandlersInv, ClientTypes, ThreadTypes, DataTypes
<1>2. CASE UNCHANGED made
  <2>1. OnItsWay' => mine'[Registrar] # 0
    BY <1>1 DEF RegistrarStays, OnItsWay
  <2>2. FirstHas' = FirstHas
    BY <1>1 DEF RegistrarStays, OnItsWay, Put
  <2> QED
    BY <1>1, <1>2, <2>1, <2>2 DEF RegistrarStays
<1>3. CASE MakeSession
  <2>1. made' = made + 1
    BY <1>3 DEF MakeSession
  <2>2. OnItsWay' => OnItsWay /\ mine'[Registrar] # 0
    BY <1>1 DEF RegistrarStays, OnItsWay
  <2>3. CASE made = 0
    <3>1. ~OnItsWay /\ ~OnItsWay' /\ kept' = {}
      BY <1>1, <2>2, <2>3 DEF RegistrarStays
    <3>2. MaxSessions \in Nat /\ 1 \in Sessions
      BY <1>3, <2>1, <2>3, MaxSessionsAssumption DEF HandlersInv, ClientTypes,
         ConnectorAlone, MakeSession, Sessions
    <3>3. table'[1] = {}
      BY <1>1, <2>3, <3>2 DEF RegistrarStays
    <3> QED
      BY <1>1, <2>1, <2>3, <3>1, <3>3, MaxSessionsAssumption
         DEF RegistrarStays, OnItsWay, Sessions
  <2>4. CASE made # 0
    BY <1>1, <2>1, <2>2, <2>4, MaxSessionsAssumption DEF RegistrarStays,
      Sessions
  <2> QED
    BY <2>3, <2>4
<1> QED
  BY <1>2, <1>3, MadeGrows

LEMMA AgreementStep ==
  ASSUME HandlersInv, [ClientNext]_facadeVars
  PROVE  Agreement'
<1> USE DEF Agreement, FirstHas
<1>1. /\ Agreement /\ ClientTypes /\ pc \in [Threads -> Places] /\ Registrar \in Threads
      /\ mine \in [Threads -> 0 .. made] /\ made \in Nat /\ current \in 0 .. made
      /\ table \in [Sessions -> SUBSET (Methods \cup Notes)] /\ kept \subseteq Methods
  BY ThreadsAssumption, MaxSessionsAssumption
     DEF HandlersInv, ClientTypes, ThreadTypes, DataTypes
<1>2. CASE ~HandlerSteps
  BY <1>1, <1>2, HandlersUndisturbed, AgreementUndisturbed
<1>3. ASSUME NEW m \in Methods, NEW on \in BOOLEAN, SetHandler(m, on)
      PROVE  Agreement'
  BY <1>1, <1>3 DEF SetHandler, AcquireSession, clientVars, OnItsWay
<1>4. ASSUME NEW n \in Notes, NEW on \in BOOLEAN, SetNoteHandler(n, on)
      PROVE  Agreement'
  <2>1. /\ UNCHANGED <<made, table, kept>> /\ current # 0 /\ mine'[Registrar] # 0
        /\ pc[Registrar] = "idle" /\ pc'[Registrar] = "register"
        /\ setting' = <<n, on>>
    BY <1>1, <1>4 DEF SetNoteHandler, AcquireSession, clientVars
  <2>2. n \notin Methods
    BY NotesAssumption
  <2>3. FirstHas' \cap Methods = FirstHas \cap Methods
    BY <2>1, <2>2 DEF Put
  <2> HIDE DEF FirstHas
  <2> QED
    BY <1>1, <2>1, <2>3
<1>5. CASE KeepHandler
  <2>1. /\ UNCHANGED <<made, table, setting, mine>> /\ kept' = Put(kept)
        /\ pc[Registrar] = "keep" /\ pc'[Registrar] = "register"
    BY <1>1, <1>5 DEF KeepHandler, clientVars
  <2>2. setting[1] \in Methods
    BY <1>1, <2>1 DEF ClientTypes, SettingTyped
  <2>3. kept = FirstHas \cap Methods => kept' = FirstHas' \cap Methods
    BY <2>1, <2>2 DEF Put
  <2>4. made # 0
    BY <1>1, <2>1 DEF OnItsWay
  <2> HIDE DEF FirstHas
  <2> QED
    BY <1>1, <2>1, <2>3, <2>4 DEF OnItsWay
<1>6. CASE RegisterHandler
  <2> DEFINE p == [pc EXCEPT ![Registrar] = "idle"]
  <2>1. Refer(current, p, [mine EXCEPT ![Registrar] = 0], job, life)
    BY <1>6 DEF RegisterHandler, DropSession
  <2>2. p[Registrar] = "idle"
    BY <1>1
  <2>3. /\ table' = [table EXCEPT ![mine[Registrar]] = Put(@)]
        /\ pc[Registrar] = "register" /\ UNCHANGED <<made, kept>>
    BY <1>6 DEF RegisterHandler, clientVars
  <2> HIDE DEF p
  <2>4. pc'[Registrar] = "idle"
    BY <1>1, <2>1, <2>2, ReferThreads
  <2>5. mine[Registrar] \in 1 .. made
    BY <1>1, <2>3 DEF OnItsWay
  <2>6. \A k \in Sessions : k > made => table'[k] = {}
    BY <1>1, <2>3, <2>5
  <2>7. made = 1 => 1 \in Sessions /\ mine[Registrar] = 1
    BY <1>1, <2>5 DEF Sessions, ClientTypes, DataTypes
  <2>8. made = 1 => table'[1] = Put(table[1])
    BY <1>1, <2>3, <2>7
  <2> QED
    BY <1>1, <2>3, <2>4, <2>5, <2>6, <2>8 DEF OnItsWay
<1> QED
  BY <1>2, <1>3, <1>4, <1>5, <1>6 DEF HandlerSteps, RegistrarStep

\* A Client that has connected once keeps the request handlers its session has, so
\* that the capabilities it announces are those it serves: what one setter
\* keeps it also registers, before the registrar sets another.
THEOREM HandlersStayTogether == ClientSpec => []HandlersAgree
<1>1. ClientInit => Agreement
  BY ThreadsAssumption DEF ClientInit, Agreement, OnItsWay
<1>2. HandlersInv /\ [ClientNext]_facadeVars => Agreement'
  BY AgreementStep
<1>3. HandlersInv => HandlersAgree
  BY DEF HandlersInv, Agreement, FirstHas, HandlersAgree
<1>4. ClientSpec => []Agreement
  BY <1>1, <1>2, ClientTypesInvariance, PTL DEF ClientSpec, HandlersInv
<1> QED
  BY <1>3, <1>4, ClientTypesInvariance, PTL DEF HandlersInv

------------------------------------------------------------------------------
(* The handshake of the facade *)

\* A job that has the answer to its initialize has it from the peer to which its
\* notification will go.
Handshake ==
  \A t \in Threads, k \in Sessions :
    job[t].step \in {"answered", "note"} /\ job[t].at = k => peer[k] # "fresh"

\* All other steps leave the jobs that have been answered, and the peers, alone.
AnsweredStay ==
  /\ UNCHANGED peer
  /\ \A t \in Threads : job'[t].step \in {"answered", "note"} => job'[t] = job[t]

LEMMA AnsweredUndisturbed ==
  ASSUME ClientTypes, [ClientNext]_facadeVars,
         \A t \in Threads : ~(PeerInitialize(t) \/ JobStore(t) \/ JobNote(t))
  PROVE  AnsweredStay
<1> USE DEF clientVars, handlerVars, peerVars, refVars
<1>1. job \in [Threads -> Jobs(made)]
  BY DEF ClientTypes, ThreadTypes
<1>2. CASE UNCHANGED <<peer, job>>
  BY <1>2 DEF AnsweredStay
<1>3. ASSUME NEW c, NEW p, NEW m, NEW l, Refer(c, p, m, job, l), UNCHANGED peer
      PROVE  AnsweredStay
  BY <1>1, <1>3, ReferJobs DEF AnsweredStay
<1>4. ASSUME NEW t \in Threads, Swap(t) \/ TakeSession(t) PROVE AnsweredStay
  BY <1>2, <1>4 DEF Swap, TakeSession
<1>5. ASSUME NEW t \in Threads, CloseSession(t) PROVE AnsweredStay
  BY <1>3, <1>5 DEF CloseSession
<1>6. ASSUME NEW t \in Threads, ResetServer(t) \/ Tell(t) PROVE AnsweredStay
  BY <1>3, <1>6 DEF ResetServer, Tell, DropSession
<1>7. ASSUME NEW t \in Threads, SendRequest(t) PROVE AnsweredStay
  BY <1>3, <1>7 DEF SendRequest, DropSession
<1>8. ASSUME NEW t \in Threads, NEW r, r.step \notin {"answered", "note"},
             Refer(current, pc, mine, [job EXCEPT ![t] = r], life)
               \/ Refer(current, [pc EXCEPT ![t] = "idle"], [mine EXCEPT ![t] = 0],
                        [job EXCEPT ![t] = r], life),
             r \in Jobs(made), UNCHANGED peer
      PROVE  AnsweredStay
  <2> DEFINE j == [job EXCEPT ![t] = r]
  <2>1. PICK p, m : Refer(current, p, m, j, life)
    BY <1>8
  <2>2. j \in [Threads -> Jobs(made)] /\ \A s \in Threads : j[s] = job[s] \/ j[s] = r
    BY <1>1, <1>8
  <2> HIDE DEF j
  <2>3. \A s \in Threads :
          job'[s] = j[s] \/ (j[s].step = "sent" /\ job'[s].step = "failed")
    BY <2>1, <2>2, ReferJobs
  <2> QED
    BY <1>8, <2>2, <2>3 DEF AnsweredStay
<1>9. ASSUME NEW t \in Threads, Derive(t) PROVE AnsweredStay
  <2> DEFINE r == [step |-> "send", at |-> mine[t], caps |-> kept \cup override]
  <2>1. r \in Jobs(made) /\ r.step \notin {"answered", "note"}
    BY DEF Jobs, JobSteps, ClientTypes, ThreadTypes, DataTypes
  <2>2. Refer(current, [pc EXCEPT ![t] = "idle"], [mine EXCEPT ![t] = 0],
              [job EXCEPT ![t] = r], life) /\ UNCHANGED peer
    BY <1>9 DEF Derive
  <2> HIDE DEF r
  <2> QED
    BY <1>8, <2>1, <2>2
<1>10. ASSUME NEW t \in Threads, Forget(t) PROVE AnsweredStay
  <2>1. NoJob \in Jobs(made) /\ NoJob.step \notin {"answered", "note"}
    BY MaxSessionsAssumption DEF NoJob, Jobs, JobSteps, ClientTypes, DataTypes
  <2> QED
    BY <1>8, <1>10, <2>1 DEF Forget
<1>11. ASSUME NEW t \in Threads, JobSend(t) PROVE AnsweredStay
  <2>1. PICK s \in {"sent", "failed"} : job' = [job EXCEPT ![t].step = s]
    BY <1>11 DEF JobSend, JobTo
  <2>2. job'[t].step = s
    BY <1>1, <2>1 DEF Jobs
  <2>3. \A u \in Threads \ {t} : job'[u] = job[u]
    BY <1>1, <2>1
  <2>4. UNCHANGED peer
    BY <1>11 DEF JobSend
  <2> QED
    BY <2>2, <2>3, <2>4 DEF AnsweredStay
<1>12. ASSUME NEW t \in Threads, Call(t) \/ Notify(t) \/ Answer(t)
       PROVE  AnsweredStay
  BY <1>2, <1>12 DEF Call, Notify, Answer, AcquireSession
<1>13. ASSUME NEW t, Disconnect(t) \/ Initialize(t) \/ SetCapabilities(t)
       PROVE  AnsweredStay
  BY <1>2, <1>13 DEF Disconnect, Initialize, SetCapabilities, AcquireSession
<1>14. ASSUME NEW k \in Sessions, PeerGoes(k) PROVE AnsweredStay
  BY <1>3, <1>14 DEF PeerGoes
<1>15. ASSUME NEW m, NEW on, SetHandler(m, on) \/ SetNoteHandler(m, on)
       PROVE  AnsweredStay
  BY <1>2, <1>15 DEF SetHandler, SetNoteHandler, AcquireSession
<1>16. CASE Connect \/ AcquireMade \/ StartSession \/ KeepHandler \/ UNCHANGED facadeVars
  BY <1>2, <1>16 DEF Connect, AcquireMade, AcquireSession, StartSession,
    KeepHandler,
     facadeVars
<1>17. CASE MakeSession
  BY <1>3, <1>17 DEF MakeSession
<1>18. CASE Connected \/ RegisterHandler
  BY <1>3, <1>18 DEF Connected, RegisterHandler, DropSession
<1>19. CASE ClientNext
  <2>1. ASSUME NEW t \in Threads, DisconnectStep(t) PROVE AnsweredStay
    BY <2>1, <1>4, <1>5, <1>6 DEF DisconnectStep
  <2>2. CASE ConnectorStep \/ RegistrarStep
    BY <2>2, <1>16, <1>17, <1>18 DEF ConnectorStep, RegistrarStep
  <2>3. ASSUME NEW t \in Threads,
               \/ Call(t) \/ SendRequest(t) \/ Answer(t) \/ Notify(t) \/ Tell(t)
               \/ Derive(t) \/ JobSend(t) \/ Forget(t)
        PROVE  AnsweredStay
    BY <2>3, <1>6, <1>7, <1>9, <1>10, <1>11, <1>12
  <2> QED
    BY <1>19, <1>13, <1>14, <1>15, <1>16, <2>1, <2>2, <2>3 DEF ClientNext,
      JobStep
<1> QED
  BY <1>16, <1>19

LEMMA HandshakeStep ==
  ASSUME ClientTypes, Handshake, [ClientNext]_facadeVars
  PROVE  /\ Handshake'
         /\ \A k \in Sessions : peer'[k] = "ready" => peer[k] # "fresh"
<1> USE DEF Handshake, clientVars, handlerVars, peerVars, refVars
<1>1. /\ job \in [Threads -> Jobs(made)]
      /\ peer \in [Sessions -> {"fresh", "asked", "ready"}]
  BY DEF ClientTypes, ThreadTypes, DataTypes
<1>2. CASE AnsweredStay
  BY <1>2 DEF AnsweredStay
<1>3. ASSUME NEW t \in Threads, NEW s \in JobSteps, job' = [job EXCEPT ![t].step = s]
      PROVE  /\ job'[t].step = s /\ job'[t].at = job[t].at
             /\ \A u \in Threads \ {t} : job'[u] = job[u]
  BY <1>1, <1>3 DEF Jobs
<1>4. ASSUME NEW t \in Threads, PeerInitialize(t)
      PROVE  /\ Handshake'
             /\ \A k \in Sessions : peer'[k] = "ready" => peer[k] # "fresh"
  <2>1. CASE /\ peer' = [peer EXCEPT ![job[t].at] = "asked"]
             /\ job' = [job EXCEPT ![t].step = "answered"]
    BY <1>1, <1>3, <2>1 DEF JobSteps
  <2>2. CASE UNCHANGED peer /\ job' = [job EXCEPT ![t].step = "failed"]
    BY <1>1, <1>3, <2>2 DEF JobSteps
  <2> QED
    BY <1>4, <2>1, <2>2 DEF PeerInitialize, JobTo
<1>5. ASSUME NEW t \in Threads, JobStore(t)
      PROVE  /\ Handshake'
             /\ \A k \in Sessions : peer'[k] = "ready" => peer[k] # "fresh"
  <2>1. /\ job[t].step = "answered" /\ UNCHANGED peer
        /\ job' = [job EXCEPT ![t].step = "note"]
    BY <1>5 DEF JobStore, JobTo
  <2> QED
    BY <1>1, <1>3, <2>1 DEF JobSteps
<1>6. ASSUME NEW t \in Threads, JobNote(t)
      PROVE  /\ Handshake'
             /\ \A k \in Sessions : peer'[k] = "ready" => peer[k] # "fresh"
  <2>1. PICK s \in {"ok", "failed"} : job' = [job EXCEPT ![t].step = s]
    BY <1>6 DEF JobNote, JobTo
  <2>2. /\ job[t].step = "note"
        /\ UNCHANGED peer \/ peer' = [peer EXCEPT ![job[t].at] = "ready"]
    BY <1>6 DEF JobNote
  <2>3. job'[t].step \in {"ok", "failed"} /\ \A u \in Threads \ {t} : job'[u] = job[u]
    BY <1>3, <2>1 DEF JobSteps
  <2> QED
    BY <1>1, <2>2, <2>3
<1> QED
  BY <1>2, <1>4, <1>5, <1>6, AnsweredUndisturbed

\* notifications/initialized goes to a peer that has answered initialize: the job
\* keeps the session it began with, whatever connect() and disconnect() do
\* meanwhile.
THEOREM NoteAfterAnswer == ClientSpec => InitializedAfterAnswer
<1>1. ClientInit => Handshake
  BY DEF ClientInit, Handshake, NoJob
<1>2. ClientTypes /\ Handshake /\ [ClientNext]_facadeVars => Handshake'
  BY HandshakeStep
<1>3. ClientTypes /\ Handshake /\ [ClientNext]_facadeVars =>
        [\A k \in Sessions : peer'[k] = "ready" => peer[k] # "fresh"]_facadeVars
  BY HandshakeStep
<1>4. ClientSpec => []Handshake
  BY <1>1, <1>2, ClientTypesInvariance, PTL DEF ClientSpec
<1> QED
  BY <1>3, <1>4, ClientTypesInvariance, PTL DEF ClientSpec,
    InitializedAfterAnswer

------------------------------------------------------------------------------
(* Who waits for an answer *)

Ended == {"gone", "closed"}

\* A caller or a job that waits for an answer waits for a session that is open.
Waiters ==
  \A t \in Threads :
    /\ pc[t] \in {"send", "derive", "waiting"} => mine[t] \in Sessions
    /\ pc[t] = "waiting" => life[mine[t]] = "open"
    /\ job[t].step \in {"send", "sent"} => job[t].at \in Sessions
    /\ job[t].step = "sent" => life[job[t].at] = "open"

LEMMA WaitersAtRefer ==
  ASSUME NEW n, NEW c, NEW p, NEW m, NEW j \in [Threads -> Jobs(n)],
         NEW l \in [Sessions -> Lives], Refer(c, p, m, j, l),
         \A t \in Threads :
           /\ p[t] \in {"send", "derive", "waiting"} => m[t] \in Sessions
           /\ p[t] = "waiting" => l[m[t]] \in {"open"} \cup Ended
           /\ j[t].step \in {"send", "sent"} => j[t].at \in Sessions
           /\ j[t].step = "sent" => l[j[t].at] \in {"open"} \cup Ended
  PROVE  Waiters'
<1> SUFFICES ASSUME NEW t \in Threads
             PROVE
               /\ pc'[t] \in {"send", "derive", "waiting"} => mine'[t] \in Sessions
               /\ pc'[t] = "waiting" => life'[mine'[t]] = "open"
               /\ job'[t].step \in {"send", "sent"} => job'[t].at \in Sessions
               /\ job'[t].step = "sent" => life'[job'[t].at] = "open"
  BY DEF Waiters
<1>1. \A k \in Sessions : life'[k] = l[k] \/ life'[k] = "closed"
  BY ReferSessions
<1>2. /\ \/ pc'[t] = p[t] /\ mine'[t] = m[t]
         \/ pc'[t] = "idle"
      /\ pc'[t] = "waiting" => life'[m[t]] \notin Ended
  BY ReferThreads DEF Ended
<1>3. /\ job'[t].at = j[t].at
      /\ job'[t] = j[t] \/ job'[t].step = "failed"
      /\ job'[t].step = "sent" => life'[j[t].at] \notin Ended
  BY ReferJobs DEF Ended
<1>4. /\ pc'[t] \in {"send", "derive", "waiting"} => mine'[t] \in Sessions
      /\ pc'[t] = "waiting" => life'[mine'[t]] = "open"
  BY <1>1, <1>2 DEF Ended
<1>5. /\ job'[t].step \in {"send", "sent"} => job'[t].at \in Sessions
      /\ job'[t].step = "sent" => life'[job'[t].at] = "open"
  BY <1>1, <1>3 DEF Ended
<1> QED
  BY <1>4, <1>5

LEMMA WaitersStep ==
  ASSUME ClientTypes, Waiters, [ClientNext]_facadeVars
  PROVE  Waiters'
<1> USE DEF clientVars, handlerVars, peerVars, refVars
<1>1. /\ made \in Nat /\ current \in 0 .. made /\ made <= MaxSessions
      /\ MaxSessions \in Nat
      /\ life \in [Sessions -> Lives] /\ pc \in [Threads -> Places]
      /\ mine \in [Threads -> 0 .. made] /\ job \in [Threads -> Jobs(made)]
      /\ then \in [Threads -> {"idle", "make"}]
      /\ Connector \in Threads /\ Registrar \in Threads
  BY ThreadsAssumption, MaxSessionsAssumption DEF ClientTypes, ThreadTypes,
    DataTypes
<1>2. \A t \in Threads :
        /\ pc[t] \in {"send", "derive", "waiting"} => mine[t] \in Sessions
        /\ pc[t] = "waiting" => life[mine[t]] \in {"open"} \cup Ended
        /\ job[t].step \in {"send", "sent"} => job[t].at \in Sessions
        /\ job[t].step = "sent" => life[job[t].at] \in {"open"} \cup Ended
  BY DEF Waiters
<1>3. ASSUME NEW t \in Threads, NEW q, NEW m,
             q \notin {"send", "derive", "waiting"},
             m = mine \/ m = [mine EXCEPT ![t] = 0],
             Refer(current, [pc EXCEPT ![t] = q], m, job, life)
      PROVE  Waiters'
  <2> DEFINE p == [pc EXCEPT ![t] = q]
  <2>1. \A s \in Threads :
          p[s] \in {"send", "derive", "waiting"} => p[s] = pc[s] /\ m[s] = mine[s]
    BY <1>1, <1>3
  <2>2. Refer(current, p, m, job, life)
    BY <1>3
  <2> HIDE DEF p
  <2> QED
    BY <1>1, <1>2, <2>1, <2>2, WaitersAtRefer
<1>4. CASE Connect
  BY <1>1, <1>4 DEF Connect, Waiters
<1>5. ASSUME NEW t \in Threads,
             Disconnect(t) \/ Swap(t) \/ TakeSession(t) \/ Notify(t) \/ Answer(t)
      PROVE  Waiters'
  <2>1. /\ UNCHANGED <<job, life>> /\ pc'[t] \notin {"send", "derive", "waiting"}
        /\ \A s \in Threads \ {t} : pc'[s] = pc[s] /\ mine'[s] = mine[s]
    BY <1>1, <1>5 DEF Disconnect, Swap, TakeSession, Notify, Answer,
      AcquireSession
  <2> QED
    BY <2>1 DEF Waiters
<1>6. ASSUME NEW t \in Threads, Call(t) \/ Initialize(t) PROVE Waiters'
  <2>1. /\ UNCHANGED <<job, life>> /\ pc'[t] # "waiting" /\ mine'[t] = current
        /\ current \in Sessions
        /\ \A s \in Threads \ {t} : pc'[s] = pc[s] /\ mine'[s] = mine[s]
    BY <1>1, <1>6 DEF Call, Initialize, AcquireSession, Sessions
  <2> QED
    BY <2>1 DEF Waiters
<1>7. ASSUME NEW t \in Threads, CloseSession(t) PROVE Waiters'
  <2> DEFINE p == [pc EXCEPT ![t] = "reset"]
             l == [k \in Sessions |-> IF k = mine[t] THEN "closed" ELSE life[k]]
  <2>1. /\ l \in [Sessions -> Lives]
        /\ \A k \in Sessions : l[k] = life[k] \/ l[k] = "closed"
    BY <1>1 DEF Lives
  <2>2. \A s \in Threads : p[s] \in {"send", "derive", "waiting"} => p[s] = pc[s]
    BY <1>1
  <2>3. Refer(current, p, mine, job, l)
    BY <1>7 DEF CloseSession
  <2>4. \A k \in Sessions :
          life[k] \in {"open"} \cup Ended => l[k] \in {"open"} \cup Ended
    BY <2>1 DEF Ended
  <2> HIDE DEF p, l
  <2>5. \A s \in Threads :
          /\ p[s] \in {"send", "derive", "waiting"} => mine[s] \in Sessions
          /\ p[s] = "waiting" => l[mine[s]] \in {"open"} \cup Ended
          /\ job[s].step = "sent" => l[job[s].at] \in {"open"} \cup Ended
    BY <1>2, <2>2, <2>4
  <2> QED
    BY <1>1, <1>2, <2>1, <2>3, <2>5, WaitersAtRefer
<1>8. ASSUME NEW t \in Threads, ResetServer(t) \/ Tell(t) PROVE Waiters'
  <2>1. PICK q : /\ q \notin {"send", "derive", "waiting"}
                 /\ DropSession(t, q)
    BY <1>1, <1>8 DEF ResetServer, Tell
  <2> QED
    BY <1>3, <2>1 DEF DropSession
<1>9. CASE Connected \/ RegisterHandler
  <2>1. PICK t \in Threads : DropSession(t, "idle")
    BY <1>1, <1>9 DEF Connected, RegisterHandler
  <2>2. PICK q : q \notin {"send", "derive", "waiting"} /\ q = "idle"
    OBVIOUS
  <2> QED
    BY <1>3, <2>1, <2>2 DEF DropSession
<1>10. CASE MakeSession
  <2> DEFINE p == [pc EXCEPT ![Connector] = "acquire"]
             l == [life EXCEPT ![made'] = "new"]
  <2>1. /\ Refer(made', p, mine, job, l) /\ made' = made + 1
        /\ pc[Connector] = "make"
    BY <1>10 DEF MakeSession
  <2>2. l \in [Sessions -> Lives]
    BY <1>1 DEF Lives
  <2>3. \A s \in Threads : p[s] \in {"send", "derive", "waiting"} => p[s] = pc[s]
    BY <1>1
  <2>4. \A k \in 0 .. made : k \in Sessions => l[k] = life[k]
    BY <1>1, <2>1
  <2>5. \A s \in Threads : job[s].at \in 0 .. made /\ mine[s] \in 0 .. made
    BY <1>1 DEF Jobs
  <2> HIDE DEF p, l
  <2> QED
    BY <1>1, <1>2, <2>1, <2>2, <2>3, <2>4, <2>5, WaitersAtRefer
<1>11. CASE AcquireMade \/ KeepHandler
  BY <1>1, <1>11 DEF AcquireMade, AcquireSession, KeepHandler, Waiters
<1>12. CASE StartSession
  <2>1. /\ UNCHANGED <<mine, job>> /\ pc' = [pc EXCEPT ![Connector] = "flag"]
        /\ \A k \in Sessions : life[k] = "open" => life'[k] = "open"
    BY <1>12 DEF StartSession
  <2> QED
    BY <1>1, <2>1 DEF Waiters
<1>13. ASSUME NEW k \in Sessions, PeerGoes(k) PROVE Waiters'
  <2> DEFINE l == [life EXCEPT ![k] = "gone"]
  <2>1. l \in [Sessions -> Lives] /\ \A i \in Sessions : l[i] = life[i] \/ l[i] = "gone"
    BY <1>1 DEF Lives
  <2>2. Refer(current, pc, mine, job, l)
    BY <1>13 DEF PeerGoes
  <2>3. \A i \in Sessions :
          life[i] \in {"open"} \cup Ended => l[i] \in {"open"} \cup Ended
    BY <2>1 DEF Ended
  <2> HIDE DEF l
  <2> QED
    BY <1>1, <1>2, <2>1, <2>2, <2>3, WaitersAtRefer
<1>14. ASSUME NEW t \in Threads, SendRequest(t) PROVE Waiters'
  <2>1. CASE DropSession(t, "idle")
    BY <1>3, <2>1 DEF DropSession
  <2>2. CASE /\ life[mine[t]] = "open" /\ pc[t] = "send"
             /\ Refer(current, [pc EXCEPT ![t] = "waiting"], mine, job, life)
    <3> DEFINE p == [pc EXCEPT ![t] = "waiting"]
    <3>1. \A s \in Threads :
            p[s] \in {"send", "derive", "waiting"} =>
              p[s] = pc[s] \/ (s = t /\ p[s] = "waiting")
      BY <1>1
    <3>2. Refer(current, p, mine, job, life)
      BY <2>2
    <3> HIDE DEF p
    <3> QED
      BY <1>1, <1>2, <2>2, <3>1, <3>2, WaitersAtRefer
  <2> QED
    BY <1>14, <2>1, <2>2 DEF SendRequest
<1>15. ASSUME NEW t \in Threads, Derive(t) PROVE Waiters'
  <2> DEFINE r == [step |-> "send", at |-> mine[t], caps |-> kept \cup override]
             p == [pc EXCEPT ![t] = "idle"]
             m == [mine EXCEPT ![t] = 0]
             j == [job EXCEPT ![t] = r]
  <2>1. r \in Jobs(made) /\ r.step = "send" /\ r.at = mine[t]
    BY <1>1 DEF Jobs, JobSteps, ClientTypes, DataTypes
  <2>2. Refer(current, p, m, j, life) /\ pc[t] = "derive"
    BY <1>15 DEF Derive
  <2> HIDE DEF r
  <2>3. /\ j \in [Threads -> Jobs(made)]
        /\ \A s \in Threads : j[s] = job[s] \/ (s = t /\ j[s] = r)
    BY <1>1, <2>1
  <2>4. \A s \in Threads :
          p[s] \in {"send", "derive", "waiting"} => p[s] = pc[s] /\ m[s] = mine[s]
    BY <1>1
  <2> HIDE DEF p, m, j
  <2> QED
    BY <1>1, <1>2, <2>1, <2>2, <2>3, <2>4, WaitersAtRefer
<1>16. ASSUME NEW t \in Threads, Forget(t) PROVE Waiters'
  <2> DEFINE j == [job EXCEPT ![t] = NoJob]
  <2>1. NoJob \in Jobs(made) /\ NoJob.step = "none"
    BY <1>1 DEF NoJob, Jobs, JobSteps
  <2>2. /\ j \in [Threads -> Jobs(made)]
        /\ \A s \in Threads : j[s] = job[s] \/ j[s].step = "none"
    BY <1>1, <2>1
  <2>3. Refer(current, pc, mine, j, life)
    BY <1>16 DEF Forget
  <2> HIDE DEF j
  <2> QED
    BY <1>1, <1>2, <2>2, <2>3, WaitersAtRefer
<1>17. ASSUME NEW t \in Threads, JobStep(t) \/ PeerInitialize(t) PROVE Waiters'
  <2>1. PICK s \in JobSteps : /\ job' = [job EXCEPT ![t].step = s]
                              /\ s # "send"
                              /\ s = "sent" => /\ job[t].step = "send"
                                               /\ life[job[t].at] = "open"
    BY <1>17 DEF JobStep, JobSend, JobStore, JobNote, PeerInitialize, JobTo,
      JobSteps
  <2>2. /\ job'[t].step = s /\ job'[t].at = job[t].at
        /\ \A u \in Threads \ {t} : job'[u] = job[u]
    BY <1>1, <2>1 DEF Jobs
  <2>3. UNCHANGED <<pc, mine, life>>
    BY <1>17 DEF JobStep, JobSend, JobStore, JobNote, PeerInitialize
  <2> QED
    BY <2>1, <2>2, <2>3 DEF Waiters
<1>18. ASSUME NEW m, NEW on, SetHandler(m, on) \/ SetNoteHandler(m, on)
       PROVE  Waiters'
  BY <1>1, <1>18 DEF SetHandler, SetNoteHandler, AcquireSession, Waiters
<1>19. ASSUME NEW S, SetCapabilities(S) \/ UNCHANGED facadeVars PROVE Waiters'
  BY <1>19 DEF SetCapabilities, facadeVars, Waiters
<1>20. CASE ClientNext
  <2>1. ASSUME NEW t \in Threads, DisconnectStep(t) PROVE Waiters'
    BY <2>1, <1>5, <1>7, <1>8 DEF DisconnectStep
  <2>2. CASE ConnectorStep \/ RegistrarStep
    BY <2>2, <1>9, <1>10, <1>11, <1>12 DEF ConnectorStep, RegistrarStep
  <2>3. ASSUME NEW t \in Threads,
               \/ Call(t) \/ SendRequest(t) \/ Answer(t) \/ Notify(t) \/ Tell(t)
               \/ Derive(t) \/ JobStep(t) \/ PeerInitialize(t) \/ Forget(t)
        PROVE  Waiters'
    BY <2>3, <1>5, <1>6, <1>8, <1>14, <1>15, <1>16, <1>17
  <2>4. /\ \A t \in Initializers : Initialize(t) => Waiters'
        /\ \A t \in Disconnectors : Disconnect(t) => Waiters'
    BY <1>5, <1>6, ThreadsAssumption
  <2> QED
    BY <1>20, <1>4, <1>13, <1>18, <1>19, <2>1, <2>2, <2>3, <2>4 DEF ClientNext
<1> QED
  BY <1>19, <1>20

------------------------------------------------------------------------------
(* The flag, the session and the connector *)

\* The same thread connects and disconnects.
OneThreadConnects == Disconnectors \subseteq {Connector}

\* Where the connector is when flag and session are not both in place.
OnTheWay == {"take", "close", "reset"} \cup Connecting

Up(k) == k \in Sessions /\ life[k] \in {"open", "gone"}
OnlyOne(k) == \A i \in Sessions : i # k => life[i] \in {"none", "closed"}

Alone == \A t \in Threads : pc[t] \in Disconnecting => t = Connector

Constructed == \A k \in Sessions : life[k] = "none" <=> k > made

\* Every session but one is closed, or not yet constructed; where the connector is
\* says which one that is, and whether the flag is up.
Linked ==
  LET p == pc[Connector] IN
  /\ p \in {"take", "flag"} => Up(current) /\ OnlyOne(current)
  /\ p = "close" => current = 0 /\ Up(mine[Connector]) /\ OnlyOne(mine[Connector])
  /\ p \in {"reset", "make"} => current = 0 /\ OnlyOne(0)
  /\ p \in {"acquire", "start"} =>
       /\ current = made /\ current \in Sessions /\ life[current] = "new"
       /\ OnlyOne(current)
  /\ p \in {"start", "flag"} => mine[Connector] = current
  /\ p \in OnTheWay => ~connected
  /\ p \notin OnTheWay => IF connected THEN Up(current) /\ OnlyOne(current)
                                       ELSE current = 0 /\ OnlyOne(0)

LinkInv == Alone /\ Constructed /\ Linked

\* A step that leaves flag and session alone, and the connector where it is if it
\* is on its way.
LinkStays ==
  /\ UNCHANGED <<connected, current, made>>
  /\ \A t \in Threads : pc'[t] \in Disconnecting =>
                          pc[t] \in Disconnecting \/ t = Connector
  /\ \/ pc'[Connector] = pc[Connector] /\ mine'[Connector] = mine[Connector]
     \/ {pc[Connector], pc'[Connector]} \cap OnTheWay = {}
  /\ \A k \in Sessions :
       \/ life'[k] = life[k]
       \/ life[k] = "open" /\ life'[k] = "gone"
       \/ /\ life'[k] = "closed" /\ life[k] # "none" /\ k # current
          /\ pc[Connector] \in OnTheWay => k # mine[Connector]

LEMMA LinkUndisturbed ==
  ASSUME LinkInv, ClientTypes, LinkStays
  PROVE  LinkInv'
<1>1. /\ Alone /\ Constructed /\ Linked /\ LinkStays
      /\ life \in [Sessions -> Lives] /\ made \in Nat
  BY MaxSessionsAssumption DEF LinkInv, ClientTypes, ThreadTypes, DataTypes
<1>2. Alone'
  BY <1>1 DEF Alone, LinkStays
<1>3. Constructed'
  BY <1>1 DEF Constructed, LinkStays
<1>4. /\ UNCHANGED <<connected, current, made>>
      /\ Up(current) => Up(current)'
      /\ current \in Sessions /\ life[current] = "new" => life'[current] = "new"
  BY <1>1 DEF Up, LinkStays
<1>5. /\ OnlyOne(current) => OnlyOne(current)'
      /\ OnlyOne(0) => OnlyOne(0)'
  BY <1>1 DEF OnlyOne, LinkStays
<1>6. CASE pc'[Connector] = pc[Connector] /\ mine'[Connector] = mine[Connector]
  <2>1. OnlyOne(mine[Connector]) => OnlyOne(mine[Connector])'
    BY <1>1, <1>6 DEF OnlyOne, LinkStays
  <2>2. pc[Connector] = "close" /\ Up(mine[Connector]) => Up(mine[Connector])'
    BY <1>1, <1>6 DEF Up, LinkStays, OnTheWay
  <2> HIDE DEF Up, OnlyOne
  <2> QED
    BY <1>1, <1>2, <1>3, <1>4, <1>5, <1>6, <2>1, <2>2 DEF LinkInv, Linked
<1>7. CASE {pc[Connector], pc'[Connector]} \cap OnTheWay = {}
  <2>1. /\ pc[Connector] \notin OnTheWay /\ pc'[Connector] \notin OnTheWay
        /\ pc'[Connector] \notin {"take", "close", "reset", "make", "acquire", "start",
                                  "flag"}
    BY <1>7 DEF OnTheWay, Connecting
  <2> QED
    BY <1>1, <1>2, <1>3, <1>4, <1>5, <2>1 DEF LinkInv, Linked
<1> QED
  BY <1>1, <1>6, <1>7 DEF LinkStays

\* A thread that is not on its way goes on, and drops references.
LEMMA LinkStaysAtRefer ==
  ASSUME ClientTypes, UNCHANGED <<connected, made>>,
         NEW t \in Threads, NEW q, NEW m, NEW j,
         pc[t] \notin OnTheWay, q \notin OnTheWay \cup Disconnecting,
         m = mine \/ m = [mine EXCEPT ![t] = 0],
         Refer(current, [pc EXCEPT ![t] = q], m, j, life)
  PROVE  LinkStays
<1> DEFINE p == [pc EXCEPT ![t] = q]
<1>1. /\ Connector \in Threads /\ life \in [Sessions -> Lives]
      /\ pc \in [Threads -> Places] /\ mine \in [Threads -> 0 .. made]
  BY ThreadsAssumption DEF ClientTypes, ThreadTypes
<1>2. Refer(current, p, m, j, life)
  OBVIOUS
<1>3. /\ \A s \in Threads : p[s] = pc[s] \/ (s = t /\ p[s] = q)
      /\ Connector # t => p[Connector] = pc[Connector] /\ m[Connector] = mine[Connector]
      /\ Connector = t => p[Connector] = q
  BY <1>1
<1> HIDE DEF p
<1>4. \A s \in Threads : \/ pc'[s] = p[s] /\ mine'[s] = m[s]
                         \/ p[s] = "waiting" /\ pc'[s] = "idle"
  BY <1>2, ReferThreads
<1>5. /\ current' = current
      /\ \A k \in Sessions :
           /\ life'[k] = life[k] \/ (life'[k] = "closed" /\ life[k] # "none")
           /\ k = current => life'[k] = life[k]
           /\ m[Connector] = k /\ p[Connector] # "waiting" => life'[k] = life[k]
  BY <1>1, <1>2, ReferSessions
<1>6. "waiting" \notin OnTheWay \cup Disconnecting
      /\ "idle" \notin OnTheWay \cup Disconnecting
  BY DEF OnTheWay, Connecting, Disconnecting
<1>7. \A s \in Threads : pc'[s] \in Disconnecting => pc[s] \in Disconnecting
  BY <1>3, <1>4, <1>6
<1>8. \/ pc'[Connector] = pc[Connector] /\ mine'[Connector] = mine[Connector]
      \/ {pc[Connector], pc'[Connector]} \cap OnTheWay = {}
  BY <1>1, <1>3, <1>4, <1>6
<1>9. pc[Connector] \in OnTheWay => m[Connector] = mine[Connector]
                                    /\ p[Connector] # "waiting"
  BY <1>3, <1>6
<1>10. \A k \in Sessions :
         \/ life'[k] = life[k]
         \/ /\ life'[k] = "closed" /\ life[k] # "none" /\ k # current
            /\ pc[Connector] \in OnTheWay => k # mine[Connector]
  BY <1>5, <1>9
<1> QED
  BY <1>5, <1>7, <1>8, <1>10 DEF LinkStays

\* The connector's own steps between the flag and the session.
LinkSteps ==
  ConnectorStep \/ \E t \in Threads : DisconnectStep(t)

LEMMA LinkStaysElse ==
  ASSUME OneThreadConnects, ClientTypes, [ClientNext]_facadeVars, ~LinkSteps
  PROVE  LinkStays
<1> USE DEF clientVars, handlerVars, peerVars, refVars
<1>1. /\ Connector \in Threads /\ Registrar \in Threads /\ life \in [Sessions -> Lives]
      /\ pc \in [Threads -> Places] /\ mine \in [Threads -> 0 .. made]
  BY ThreadsAssumption DEF ClientTypes, ThreadTypes
<1>2. {"idle", "send", "tell", "derive", "waiting", "keep", "register"}
        \cap (OnTheWay \cup Disconnecting) = {} /\ "swap" \notin OnTheWay
  BY DEF OnTheWay, Connecting, Disconnecting
<1>3. CASE UNCHANGED <<connected, current, made, life, pc, mine>>
  BY <1>3 DEF LinkStays
<1>4. ASSUME NEW t \in Threads, NEW q, UNCHANGED <<connected, current, made, life>>,
             pc[t] \notin OnTheWay, q \notin OnTheWay, pc' = [pc EXCEPT ![t] = q],
             q \in Disconnecting => t = Connector,
             \A s \in Threads \ {t} : mine'[s] = mine[s]
      PROVE  LinkStays
  <2>1. \A s \in Threads \ {t} : pc'[s] = pc[s]
    BY <1>1, <1>4
  <2>2. pc'[t] = q
    BY <1>1, <1>4
  <2>3. \/ pc'[Connector] = pc[Connector] /\ mine'[Connector] = mine[Connector]
        \/ {pc[Connector], pc'[Connector]} \cap OnTheWay = {}
    BY <1>1, <1>4, <2>1, <2>2
  <2>4. \A s \in Threads :
          pc'[s] \in Disconnecting => pc[s] \in Disconnecting \/ s = Connector
    BY <1>4, <2>1, <2>2
  <2> QED
    BY <1>4, <2>3, <2>4 DEF LinkStays
<1>5. CASE Connect
  BY <1>1, <1>2, <1>4, <1>5 DEF Connect
<1>6. ASSUME NEW t \in Disconnectors, Disconnect(t) PROVE LinkStays
  <2>1. t \in Threads /\ t = Connector
    BY ThreadsAssumption DEF OneThreadConnects
  <2> QED
    BY <1>1, <1>2, <1>4, <1>6, <2>1 DEF Disconnect
<1>7. ASSUME NEW t \in Threads, NEW q \in {"send", "tell", "derive", "keep", "register"},
             pc[t] = "idle", AcquireSession(t, q), UNCHANGED <<connected, made>>
      PROVE  LinkStays
  <2>1. /\ pc' = [pc EXCEPT ![t] = q] /\ UNCHANGED <<connected, current, made, life>>
        /\ \A s \in Threads \ {t} : mine'[s] = mine[s]
    BY <1>1, <1>7 DEF AcquireSession
  <2> QED
    BY <1>2, <1>4, <1>7, <2>1
<1>8. ASSUME NEW t \in Threads, Call(t) \/ Notify(t) \/ Initialize(t)
      PROVE  LinkStays
  BY <1>7, <1>8 DEF Call, Notify, Initialize
<1>9. ASSUME NEW m, NEW on, SetHandler(m, on) \/ SetNoteHandler(m, on)
      PROVE  LinkStays
  BY <1>1, <1>7, <1>9 DEF SetHandler, SetNoteHandler
<1>10. ASSUME NEW t \in Threads, Answer(t) PROVE LinkStays
  <2>1. \A s \in Threads \ {t} : mine'[s] = mine[s]
    BY <1>1, <1>10 DEF Answer
  <2> QED
    BY <1>2, <1>4, <1>10, <2>1 DEF Answer
<1>11. CASE KeepHandler
  BY <1>1, <1>2, <1>4, <1>11 DEF KeepHandler
<1>12. ASSUME NEW t \in Threads, NEW q, NEW m, NEW j,
              {pc[t], q} \cap (OnTheWay \cup Disconnecting) = {},
              m = mine \/ m = [mine EXCEPT ![t] = 0],
              Refer(current, [pc EXCEPT ![t] = q], m, j, life),
              UNCHANGED <<connected, made>>
       PROVE  LinkStays
  BY <1>12, LinkStaysAtRefer
<1>13. ASSUME NEW t \in Threads, SendRequest(t) PROVE LinkStays
  <2>1. /\ {pc[t], "waiting"} \cap (OnTheWay \cup Disconnecting) = {}
        /\ {pc[t], "idle"} \cap (OnTheWay \cup Disconnecting) = {}
    BY <1>2, <1>13 DEF SendRequest
  <2> QED
    BY <1>12, <1>13, <2>1 DEF SendRequest, DropSession
<1>14. ASSUME NEW t \in Threads, Tell(t) PROVE LinkStays
  <2>1. {pc[t], "idle"} \cap (OnTheWay \cup Disconnecting) = {}
    BY <1>2, <1>14 DEF Tell
  <2> QED
    BY <1>12, <1>14, <2>1 DEF Tell, DropSession
<1>15. ASSUME NEW t \in Threads, Derive(t) PROVE LinkStays
  <2>1. {pc[t], "idle"} \cap (OnTheWay \cup Disconnecting) = {}
    BY <1>2, <1>15 DEF Derive
  <2> QED
    BY <1>12, <1>15, <2>1 DEF Derive
<1>16. CASE RegisterHandler
  <2>1. {pc[Registrar], "idle"} \cap (OnTheWay \cup Disconnecting) = {}
    BY <1>2, <1>16 DEF RegisterHandler
  <2> QED
    BY <1>1, <1>12, <1>16, <2>1 DEF RegisterHandler, DropSession
<1>17. ASSUME NEW j, NEW l \in [Sessions -> Lives], Refer(current, pc, mine, j, l),
              \A k \in Sessions : l[k] = life[k] \/ (life[k] = "open" /\ l[k] = "gone"),
              UNCHANGED <<connected, made>>
       PROVE  LinkStays
  <2>1. \A s \in Threads : \/ pc'[s] = pc[s] /\ mine'[s] = mine[s]
                           \/ pc[s] = "waiting" /\ pc'[s] = "idle"
    BY <1>17, ReferThreads
  <2>2. /\ current' = current
        /\ \A k \in Sessions :
             /\ life'[k] = l[k] \/ (life'[k] = "closed" /\ l[k] # "none")
             /\ k = current => life'[k] = l[k]
             /\ mine[Connector] = k /\ pc[Connector] # "waiting" => life'[k] = l[k]
    BY <1>1, <1>17, ReferSessions
  <2>3. \A s \in Threads : pc'[s] \in Disconnecting => pc[s] \in Disconnecting
    BY <1>2, <2>1
  <2>4. \/ pc'[Connector] = pc[Connector] /\ mine'[Connector] = mine[Connector]
        \/ {pc[Connector], pc'[Connector]} \cap OnTheWay = {}
    BY <1>1, <1>2, <2>1
  <2>5. ASSUME NEW k \in Sessions
        PROVE  \/ life'[k] = life[k]
               \/ life[k] = "open" /\ life'[k] = "gone"
               \/ /\ life'[k] = "closed" /\ life[k] # "none" /\ k # current
                  /\ pc[Connector] \in OnTheWay => k # mine[Connector]
    <3>1. CASE life'[k] = l[k]
      BY <1>17, <3>1
    <3>2. CASE life'[k] # l[k]
      BY <1>2, <1>17, <2>2, <3>2
    <3> QED
      BY <3>1, <3>2
  <2> QED
    BY <1>17, <2>2, <2>3, <2>4, <2>5 DEF LinkStays
<1>18. ASSUME NEW k \in Sessions, PeerGoes(k) PROVE LinkStays
  <2> DEFINE l == [life EXCEPT ![k] = "gone"]
  <2>1. /\ l \in [Sessions -> Lives]
        /\ \A i \in Sessions : l[i] = life[i] \/ (life[i] = "open" /\ l[i] = "gone")
    BY <1>1, <1>18 DEF Lives, PeerGoes
  <2>2. Refer(current, pc, mine, job, l) /\ UNCHANGED <<connected, made>>
    BY <1>18 DEF PeerGoes
  <2> HIDE DEF l
  <2> QED
    BY <1>17, <2>1, <2>2
<1>19. ASSUME NEW t \in Threads, Forget(t) PROVE LinkStays
  BY <1>1, <1>17, <1>19 DEF Forget
<1>20. ASSUME NEW t \in Threads, JobStep(t) \/ PeerInitialize(t) PROVE LinkStays
  BY <1>3, <1>20 DEF JobStep, JobSend, JobStore, JobNote, PeerInitialize
<1>21. ASSUME NEW S, SetCapabilities(S) \/ UNCHANGED facadeVars PROVE LinkStays
  BY <1>3, <1>21 DEF SetCapabilities, facadeVars
<1>22. CASE ClientNext
  <2>1. ASSUME NEW t \in Threads,
               \/ Call(t) \/ SendRequest(t) \/ Answer(t) \/ Notify(t) \/ Tell(t)
               \/ Derive(t) \/ JobStep(t) \/ PeerInitialize(t) \/ Forget(t)
        PROVE  LinkStays
    BY <2>1, <1>8, <1>10, <1>13, <1>14, <1>15, <1>19, <1>20
  <2>2. \A t \in Initializers : Initialize(t) => LinkStays
    BY <1>8, ThreadsAssumption
  <2>3. CASE RegistrarStep
    BY <2>3, <1>11, <1>16 DEF RegistrarStep
  <2> QED
    BY <1>22, <1>5, <1>6, <1>9, <1>18, <1>21, <2>1, <2>2, <2>3 DEF ClientNext,
      LinkSteps
<1> QED
  BY <1>21, <1>22

\* The connector's own steps take it from one place to the next.
LEMMA LinkMoves ==
  ASSUME ClientTypes, LinkInv, LinkSteps
  PROVE  LinkInv'
<1> USE DEF clientVars, handlerVars, peerVars, refVars
<1>1. /\ Connector \in Threads /\ life \in [Sessions -> Lives]
      /\ pc \in [Threads -> Places] /\ mine \in [Threads -> 0 .. made]
      /\ made \in Nat /\ made <= MaxSessions /\ MaxSessions \in Nat
      /\ Alone /\ Constructed /\ Linked
      /\ then[Connector] = "idle" \/ then[Connector] = "make"
  BY ThreadsAssumption, MaxSessionsAssumption
     DEF ClientTypes, ThreadTypes, DataTypes, LinkInv
<1>2. ASSUME NEW t \in Threads, DisconnectStep(t)
      PROVE  t = Connector
  BY <1>1, <1>2 DEF DisconnectStep, Swap, TakeSession, CloseSession,
    ResetServer, Alone,
     Disconnecting
<1>3. CASE Swap(Connector)
  <2>1. /\ pc[Connector] = "swap" /\ UNCHANGED <<made, current, mine, life>>
        /\ connected' = FALSE
        /\ pc' = [pc EXCEPT ![Connector] = IF connected THEN "take"
                                                        ELSE then[Connector]]
    BY <1>3 DEF Swap
  <2>2. Alone' /\ Constructed'
    BY <1>1, <2>1 DEF Alone, Constructed
  <2>3. IF connected THEN Up(current) /\ OnlyOne(current)
                     ELSE current = 0 /\ OnlyOne(0)
    BY <1>1, <2>1 DEF Linked, OnTheWay, Connecting
  <2>4. /\ Up(current)' <=> Up(current)
        /\ OnlyOne(current)' <=> OnlyOne(current)
        /\ OnlyOne(0)' <=> OnlyOne(0)
    BY <2>1 DEF Up, OnlyOne
  <2>5. CASE connected
    BY <1>1, <2>1, <2>2, <2>3, <2>4, <2>5 DEF LinkInv, Linked, OnTheWay,
      Connecting
  <2>6. CASE ~connected
    BY <1>1, <2>1, <2>2, <2>3, <2>4, <2>6 DEF LinkInv, Linked, OnTheWay,
      Connecting
  <2> QED
    BY <2>5, <2>6
<1>4. CASE TakeSession(Connector)
  <2>1. /\ pc[Connector] = "take" /\ UNCHANGED <<made, connected, life>>
        /\ mine'[Connector] = current /\ current' = 0
        /\ pc' = [pc EXCEPT ![Connector] = "close"]
    BY <1>1, <1>4 DEF TakeSession
  <2>2. Alone' /\ Constructed'
    BY <1>1, <2>1 DEF Alone, Constructed
  <2>3. Up(mine[Connector])' /\ OnlyOne(mine[Connector])' /\ ~connected
    BY <1>1, <2>1 DEF Linked, Up, OnlyOne, OnTheWay
  <2> QED
    BY <1>1, <2>1, <2>2, <2>3 DEF LinkInv, Linked, OnTheWay, Connecting
<1>5. CASE CloseSession(Connector)
  <2> DEFINE p == [pc EXCEPT ![Connector] = "reset"]
             l == [k \in Sessions |-> IF k = mine[Connector] THEN "closed" ELSE life[k]]
  <2>1. /\ pc[Connector] = "close" /\ UNCHANGED <<made, connected>>
        /\ Refer(current, p, mine, job, l)
    BY <1>5 DEF CloseSession
  <2>2. /\ current = 0 /\ OnlyOne(mine[Connector]) /\ ~connected
        /\ Up(mine[Connector])
    BY <1>1, <2>1 DEF Linked, OnTheWay
  <2>3. /\ l \in [Sessions -> Lives]
        /\ \A k \in Sessions : l[k] \in {"none", "closed"}
        /\ \A k \in Sessions : l[k] = "none" <=> life[k] = "none"
    BY <1>1, <2>2 DEF Lives, OnlyOne, Up
  <2>4. \A s \in Threads : p[s] = pc[s] \/ s = Connector
    BY <1>1
  <2>5. p[Connector] = "reset"
    BY <1>1
  <2> HIDE DEF p, l
  <2>6. current' = 0 /\ \A k \in Sessions : life'[k] = l[k]
    BY <2>1, <2>2, <2>3, ReferSessions
  <2>7. \A s \in Threads : pc'[s] = p[s] \/ pc'[s] = "idle"
    BY <2>1, ReferThreads
  <2>8. pc'[Connector] = "reset"
    BY <1>1, <2>1, <2>5, ReferThreads
  <2>9. Alone'
    BY <1>1, <2>4, <2>7 DEF Alone, Disconnecting
  <2>10. Constructed' /\ OnlyOne(0)'
    BY <1>1, <2>1, <2>3, <2>6 DEF Constructed, OnlyOne
  <2> QED
    BY <2>1, <2>2, <2>6, <2>8, <2>9, <2>10 DEF LinkInv, Linked, OnTheWay,
      Connecting
<1>6. CASE ResetServer(Connector)
  <2> DEFINE p == [pc EXCEPT ![Connector] = then[Connector]]
             m == [mine EXCEPT ![Connector] = 0]
  <2>1. /\ pc[Connector] = "reset" /\ UNCHANGED <<made, connected>>
        /\ Refer(current, p, m, job, life)
    BY <1>6 DEF ResetServer, DropSession
  <2>2. current = 0 /\ OnlyOne(0) /\ ~connected
    BY <1>1, <2>1 DEF Linked, OnTheWay
  <2>3. \A s \in Threads : p[s] = pc[s] \/ s = Connector
    BY <1>1
  <2>4. p[Connector] \in {"idle", "make"}
    BY <1>1
  <2> HIDE DEF p, m
  <2>5. /\ current' = 0
        /\ \A k \in Sessions :
             life'[k] = life[k] \/ (life'[k] = "closed" /\ life[k] # "none")
    BY <1>1, <2>1, <2>2, ReferSessions
  <2>6. \A s \in Threads : pc'[s] = p[s] \/ pc'[s] = "idle"
    BY <2>1, ReferThreads
  <2>7. pc'[Connector] \in {"idle", "make"}
    BY <1>1, <2>4, <2>6
  <2>8. Alone'
    BY <1>1, <2>3, <2>6 DEF Alone, Disconnecting
  <2>9. Constructed' /\ OnlyOne(0)'
    BY <1>1, <2>1, <2>2, <2>5 DEF Constructed, OnlyOne
  <2> QED
    BY <2>1, <2>2, <2>5, <2>7, <2>8, <2>9 DEF LinkInv, Linked, OnTheWay,
      Connecting
<1>7. CASE MakeSession
  <2> DEFINE p == [pc EXCEPT ![Connector] = "acquire"]
             l == [life EXCEPT ![made'] = "new"]
  <2>1. /\ pc[Connector] = "make" /\ UNCHANGED connected /\ made' = made + 1
        /\ Refer(made', p, mine, job, l)
    BY <1>7 DEF MakeSession
  <2>2. made < MaxSessions /\ made' \in Sessions
    BY <1>1, <2>1 DEF ClientTypes, ConnectorAlone, Sessions
  <2>3. current = 0 /\ OnlyOne(0) /\ ~connected
    BY <1>1, <2>1 DEF Linked, OnTheWay, Connecting
  <2>4. \A k \in Sessions : k # 0
    BY <1>1 DEF Sessions
  <2>5. /\ l \in [Sessions -> Lives] /\ l[made'] = "new"
        /\ \A k \in Sessions :
             k # made' => l[k] = life[k] /\ l[k] \in {"none", "closed"}
    BY <1>1, <2>2, <2>3, <2>4 DEF Lives, OnlyOne
  <2>6. \A s \in Threads : p[s] = pc[s] \/ s = Connector
    BY <1>1
  <2>7. p[Connector] = "acquire"
    BY <1>1
  <2> HIDE DEF p, l
  <2>8. current' = made' /\ life'[made'] = "new"
        /\ \A k \in Sessions : k # made' => life'[k] = life[k]
    BY <2>1, <2>2, <2>5, ReferSessions
  <2>9. \A s \in Threads : pc'[s] = p[s] \/ pc'[s] = "idle"
    BY <2>1, ReferThreads
  <2>10. pc'[Connector] = "acquire"
    BY <1>1, <2>1, <2>7, ReferThreads
  <2>11. Alone'
    BY <1>1, <2>6, <2>9 DEF Alone, Disconnecting
  <2>12. Constructed'
    <3>1. ASSUME NEW k \in Sessions, k # made'
          PROVE  life'[k] = "none" <=> k > made'
      <4>1. k \in Nat /\ (k > made <=> k > made')
        BY <1>1, <2>1, <3>1 DEF Sessions
      <4> QED
        BY <1>1, <2>8, <3>1, <4>1 DEF Constructed
    <3>2. ~(made' > made')
      BY <1>1, <2>1
    <3> QED
      BY <2>8, <3>1, <3>2 DEF Constructed
  <2>13. OnlyOne(current)'
    BY <2>5, <2>8 DEF OnlyOne
  <2> QED
    BY <2>1, <2>2, <2>3, <2>8, <2>10, <2>11, <2>12, <2>13
       DEF LinkInv, Linked, OnTheWay, Connecting
<1>8. CASE AcquireMade
  <2>1. /\ pc[Connector] = "acquire" /\ UNCHANGED <<made, connected, current, life>>
        /\ mine'[Connector] = current /\ pc' = [pc EXCEPT ![Connector] = "start"]
    BY <1>1, <1>8 DEF AcquireMade, AcquireSession
  <2>2. Alone' /\ Constructed'
    BY <1>1, <2>1 DEF Alone, Constructed, Disconnecting
  <2>3. OnlyOne(current)' <=> OnlyOne(current)
    BY <2>1 DEF OnlyOne
  <2> QED
    BY <1>1, <2>1, <2>2, <2>3 DEF LinkInv, Linked, OnTheWay, Connecting
<1>9. CASE StartSession
  <2>1. /\ pc[Connector] = "start" /\ UNCHANGED <<made, connected, current, mine>>
        /\ pc' = [pc EXCEPT ![Connector] = "flag"]
        /\ life' = [k \in Sessions |->
                     IF k = mine[Connector] THEN "open" ELSE life[k]]
    BY <1>9 DEF StartSession
  <2>2. /\ current = made /\ current \in Sessions /\ life[current] = "new"
        /\ OnlyOne(current) /\ mine[Connector] = current /\ ~connected
    BY <1>1, <2>1 DEF Linked, OnTheWay, Connecting
  <2>3. Alone'
    BY <1>1, <2>1 DEF Alone, Disconnecting
  <2>4. Constructed'
    BY <1>1, <2>1, <2>2 DEF Constructed
  <2>5. Up(current)' /\ OnlyOne(current)'
    BY <2>1, <2>2 DEF Up, OnlyOne
  <2> QED
    BY <1>1, <2>1, <2>2, <2>3, <2>4, <2>5 DEF LinkInv, Linked, OnTheWay,
      Connecting
<1>10. CASE Connected
  <2> DEFINE p == [pc EXCEPT ![Connector] = "idle"]
  <2>1. /\ pc[Connector] = "flag" /\ UNCHANGED made /\ connected' = TRUE
        /\ Refer(current, p, [mine EXCEPT ![Connector] = 0], job, life)
    BY <1>10 DEF Connected, DropSession
  <2>2. Up(current) /\ OnlyOne(current)
    BY <1>1, <2>1 DEF Linked
  <2>3. \A s \in Threads : p[s] = pc[s] \/ s = Connector
    BY <1>1
  <2>4. p[Connector] = "idle"
    BY <1>1
  <2> HIDE DEF p
  <2>5. /\ current' = current
        /\ \A k \in Sessions :
             /\ life'[k] = life[k] \/ (life'[k] = "closed" /\ life[k] # "none")
             /\ k = current => life'[k] = life[k]
    BY <1>1, <2>1, ReferSessions
  <2>6. \A s \in Threads : pc'[s] = p[s] \/ pc'[s] = "idle"
    BY <2>1, ReferThreads
  <2>7. Alone'
    BY <1>1, <2>3, <2>6 DEF Alone, Disconnecting
  <2>8. Constructed' /\ Up(current)' /\ OnlyOne(current)'
    BY <1>1, <2>1, <2>2, <2>5 DEF Constructed, Up, OnlyOne
  <2>9. pc'[Connector] = "idle"
    BY <1>1, <2>4, <2>6
  <2> QED
    BY <2>1, <2>7, <2>8, <2>9 DEF LinkInv, Linked, OnTheWay, Connecting
<1> QED
  BY <1>2, <1>3, <1>4, <1>5, <1>6, <1>7, <1>8, <1>9, <1>10
     DEF LinkSteps, ConnectorStep, DisconnectStep

LEMMA LinkStep ==
  ASSUME OneThreadConnects, ClientTypes, LinkInv, [ClientNext]_facadeVars
  PROVE  LinkInv'
BY LinkMoves, LinkStaysElse, LinkUndisturbed

LEMMA FacadeInvariance ==
  ASSUME OneThreadConnects
  PROVE  ClientSpec => [](ClientTypes /\ LinkInv /\ Waiters)
<1>1. ClientInit => LinkInv /\ Waiters
  <2> SUFFICES ASSUME ClientInit PROVE LinkInv /\ Waiters
    OBVIOUS
  <2>1. \A t \in Threads : pc[t] = "idle" /\ job[t].step = "none"
    BY DEF ClientInit, NoJob
  <2>2. /\ Connector \in Threads /\ ~connected /\ current = 0 /\ made = 0
        /\ \A k \in Sessions : life[k] = "none" /\ k > 0
    BY ThreadsAssumption, MaxSessionsAssumption DEF ClientInit, Sessions
  <2> QED
    BY <2>1, <2>2 DEF LinkInv, Alone, Constructed, Linked, OnlyOne, Waiters,
      OnTheWay,
       Connecting, Disconnecting
<1>2. ClientTypes /\ LinkInv /\ Waiters /\ [ClientNext]_facadeVars
        => LinkInv' /\ Waiters'
  BY LinkStep, WaitersStep
<1> QED
  BY <1>1, <1>2, ClientTypesInvariance, PTL DEF ClientSpec

\* When no connect() or disconnect() is under way the flag tells whether there is a
\* session, and without one none is open: connect() and disconnect() leave no state
\* in between, if one thread calls both.
THEOREM FlagIsRight ==
  ASSUME OneThreadConnects
  PROVE  ClientSpec => []FlagTellsState
<1>1. LinkInv => FlagTellsState
  <2> SUFFICES ASSUME LinkInv,
                      \A t \in Threads : pc[t] \notin Connecting \cup Disconnecting
               PROVE  IF connected
                      THEN current # 0 /\ life[current] \in {"open", "gone"}
                      ELSE /\ current = 0
                           /\ \A k \in Sessions : life[k] \in {"none", "closed"}
    BY DEF FlagTellsState
  <2>1. pc[Connector] \notin OnTheWay
    BY ThreadsAssumption DEF OnTheWay, Disconnecting
  <2>2. IF connected THEN Up(current) /\ OnlyOne(current)
                     ELSE current = 0 /\ OnlyOne(0)
    BY <2>1 DEF LinkInv, Linked
  <2>3. \A k \in Sessions : k # 0
    BY MaxSessionsAssumption DEF Sessions
  <2> QED
    BY <2>2, <2>3 DEF Up, OnlyOne
<1> QED
  BY <1>1, FacadeInvariance, PTL

\* Who waits for an answer, a request or an initialize, waits for the session that
\* is there or for the one that is just being closed, which rejects it.
THEOREM NobodyForgotten ==
  ASSUME OneThreadConnects
  PROVE  ClientSpec => []NobodyLeftBehind
<1>1. ASSUME LinkInv, NEW k \in Sessions, life[k] = "open"
      PROVE  k = current \/ \E u \in Threads : pc[u] = "close" /\ mine[u] = k
  <2>1. \A i \in Sessions : i # 0
    BY MaxSessionsAssumption DEF Sessions
  <2>2. ~OnlyOne(0) /\ \A i : OnlyOne(i) => i = k
    BY <1>1, <2>1 DEF OnlyOne
  <2>3. pc[Connector] = "close" => mine[Connector] = k
    BY <1>1, <2>2 DEF LinkInv, Linked
  <2>4. pc[Connector] # "close" => k = current
    BY <1>1, <2>2 DEF LinkInv, Linked, OnTheWay, Connecting
  <2> QED
    BY <2>3, <2>4, ThreadsAssumption
<1>2. LinkInv /\ Waiters => NobodyLeftBehind
  BY <1>1 DEF Waiters, NobodyLeftBehind
<1> QED
  BY <1>2, FacadeInvariance, PTL
=============================================================================
