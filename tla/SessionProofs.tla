---------------------------- MODULE SessionProofs ----------------------------
(***************************************************************************)
(* Theorems about Session, for any sets of calls, workers, read threads and *)
(* response ids.                                                            *)
(*                                                                         *)
(* The argument is one of ownership.  A Pending entry is in one place at a   *)
(* time: in the map, in a hand of the timeout thread, the on_close lambda,   *)
(* close() or a read thread, or with its caller.  While it is anywhere its   *)
(* promise is unset, and only whoever has it sets the promise and, doing so, *)
(* lets go of it.                                                           *)
(***************************************************************************)
EXTENDS Session, TLAPS

\* A parked call: past the locked block of register_pending that let it in.
Parked == {"send", "retract", "done"}

InReader(c) == \E r \in Readers : c \in rHand[r]

\* The one owner of the entry of call c, and the state of its promise.
Owned(c) ==
  /\ fut[c] # "twice"
  /\ pc[c] \notin Parked => /\ fut[c] = "none" /\ ~InReader(c)
                            /\ c \notin pending \cup tHand \cup oHand \cup lHand
  /\ c \in pending => /\ fut[c] = "none" /\ ~InReader(c)
                      /\ c \notin tHand \cup oHand \cup lHand
  /\ c \in tHand => /\ fut[c] = "none" /\ ~InReader(c)
                    /\ c \notin oHand \cup lHand
  /\ c \in oHand => fut[c] = "none" /\ ~InReader(c) /\ c \notin lHand
  /\ c \in lHand => fut[c] = "none" /\ ~InReader(c)
  /\ InReader(c) => fut[c] = "none"
  /\ \A r, s \in Readers : c \in rHand[r] /\ c \in rHand[s] => r = s
  /\ pc[c] \in Parked /\ fut[c] = "none" =>
       \/ c \in pending \cup tHand \cup oHand \cup lHand
       \/ InReader(c)

Ownership == \A c \in Calls : Owned(c)

\* Ids are handed out once.
IdsDistinct ==
  /\ \A c \in Calls : pc[c] # "idle" => id[c] < nextId
  /\ \A c, d \in Calls : (pc[c] # "idle" /\ pc[d] # "idle" /\ id[c] = id[d]) => c = d
  /\ \A c \in Calls : pc[c] \in {"idle", "park"} => c \notin pending

\* A hand is filled only while its thread is in the loop that empties it.
Hands ==
  /\ tHand # {} => tpc = "reject"
  /\ oHand # {} => opc = "reject"
  /\ lHand # {} => lpc = "reject"
  /\ \A r \in Readers :
       /\ rpc[r] = "resolve" => rHand[r] # {} /\ rOutcome[r] # "none"
       /\ rpc[r] # "resolve" => rHand[r] = {}
       /\ \A c, d \in rHand[r] : c = d

\* Threads do not run before start(), and the on_close lambda runs once.
Phases ==
  /\ lpc = "new" => tpc = "off"
  /\ lpc \in {"new", "starting"} => \A r \in Readers : rpc[r] = "off"
  /\ opc # "none" => fired

Inv == TypeOK /\ Ownership /\ IdsDistinct /\ NoDuplicateId /\ Hands /\ Phases

------------------------------------------------------------------------------

\* A step keeps the types of the session's own members.
LEMMA SessionTypesStep ==
  ASSUME TypeOK, [Next]_vars
  PROVE  SessionTypes'
<1> USE DEF callVars, timerVars, readerVars, onCloseVars, workerVars, ownerVars,
            wireVars
<1>1. ASSUME NEW c \in Calls, SendRequest(c) PROVE SessionTypes'
  BY <1>1 DEF SendRequest, NextId, TypeOK, SessionTypes
<1>2. ASSUME NEW c \in Calls, Park(c) PROVE SessionTypes'
  BY <1>2 DEF Park, NotifyTimer, Find, TypeOK, SessionTypes
<1>3. ASSUME NEW c \in Calls, Retract(c) PROVE SessionTypes'
  BY <1>3 DEF Retract, TypeOK, SessionTypes
<1>4. ASSUME TimeoutExpire PROVE SessionTypes'
  BY <1>4 DEF TimeoutExpire, SoonestPassed, TypeOK, SessionTypes
<1>5. ASSUME NEW r \in Readers, NEW i \in RespIds, NEW o \in {"result", "error"},
            HandleResponse(r, i, o)
     PROVE  SessionTypes'
  BY <1>5 DEF HandleResponse, Find, NotifyTimer, TypeOK, SessionTypes
<1>6. ASSUME NEW w \in Workers, NEW c \in Calls, HandlerCalls(w, c)
     PROVE  SessionTypes'
  BY <1>6 DEF HandlerCalls, NextId, HandlerReady, TypeOK, SessionTypes
<1>7. ASSUME OnCloseDrain PROVE SessionTypes'
  BY <1>7 DEF OnCloseDrain, NotifyTimer, TypeOK, SessionTypes
<1>8. ASSUME OnCloseMark PROVE SessionTypes'
  BY <1>8 DEF OnCloseMark, TypeOK, SessionTypes
<1>9. ASSUME Start PROVE SessionTypes'
  BY <1>9 DEF Start, TypeOK, SessionTypes
<1>10. ASSUME NEW d \in BOOLEAN, CloseBegin(d) PROVE SessionTypes'
  BY <1>10 DEF CloseBegin, TypeOK, SessionTypes
<1>11. ASSUME CloseDrain PROVE SessionTypes'
  BY <1>11 DEF CloseDrain, NotifyTimer, TypeOK, SessionTypes
<1>12. CASE UNCHANGED <<started, closed, nextId, pending>>
  BY <1>12 DEF TypeOK, SessionTypes
<1> QED
  BY <1>1, <1>2, <1>3, <1>4, <1>5, <1>6, <1>7, <1>8, <1>9, <1>10, <1>11, <1>12
    DEF Next, CallStep, TimeoutStep, OnCloseStep, CloseStep, vars,
    CallerReject, Send, DeadlinePasses, TimeoutTop, TimeoutNotified,
    SpuriousWakeup, TimeoutReject, TimeoutRelock, ResolveResponse,
    HandleNotification, DispatchRequest, WorkerDone, ReadLoopExit,
    OnCloseReject, OnCloseCallback, TransportStart, CloseReject,
    CloseCancelled, CloseWaitWorkers, TransportClose, TransportJoin,
    TransportFired, CloseNotify, CloseJoin

\* A step keeps the types of the calls.
LEMMA CallTypesStep ==
  ASSUME TypeOK, [Next]_vars
  PROVE  CallTypes'
<1> USE DEF callVars, timerVars, readerVars, onCloseVars, workerVars, ownerVars,
            wireVars
<1>1. ASSUME NEW c \in Calls, SendRequest(c) PROVE CallTypes'
  BY <1>1 DEF SendRequest, NextId, TypeOK, SessionTypes, CallTypes,
    ReaderTypes, Outcomes
<1>2. ASSUME NEW c \in Calls, Park(c) PROVE CallTypes'
  BY <1>2 DEF Park, NotifyTimer, Find, TypeOK, SessionTypes, CallTypes,
    ReaderTypes, Outcomes
<1>3. ASSUME NEW c \in Calls, CallerReject(c) PROVE CallTypes'
  BY <1>3 DEF CallerReject, Settled, RejectOutcome, InCaller, TypeOK,
    SessionTypes, CallTypes, ReaderTypes, Outcomes
<1>4. ASSUME NEW c \in Calls, Send(c) PROVE CallTypes'
  BY <1>4 DEF Send, TypeOK, SessionTypes, CallTypes, ReaderTypes, Outcomes
<1>5. ASSUME NEW c \in Calls, Retract(c) PROVE CallTypes'
  BY <1>5 DEF Retract, TypeOK, SessionTypes, CallTypes, ReaderTypes, Outcomes
<1>6. ASSUME NEW c \in Calls, DeadlinePasses(c) PROVE CallTypes'
  BY <1>6 DEF DeadlinePasses, TypeOK, SessionTypes, CallTypes, ReaderTypes,
    Outcomes
<1>7. ASSUME NEW c \in Calls, TimeoutReject(c) PROVE CallTypes'
  BY <1>7 DEF TimeoutReject, Settled, TypeOK, SessionTypes, CallTypes,
    ReaderTypes, Outcomes
<1>8. ASSUME NEW r \in Readers, ResolveResponse(r) PROVE CallTypes'
  <2>1. PICK c \in rHand[r] : fut' = Settled(c, rOutcome[r])
    BY <1>8 DEF ResolveResponse
  <2>2. c \in Calls /\ rOutcome[r] \in {"none", "result", "error"}
    BY DEF TypeOK, ReaderTypes
  <2> QED
    BY <1>8, <2>1, <2>2 DEF ResolveResponse, Settled, TypeOK, CallTypes,
      Outcomes
<1>9. ASSUME NEW w \in Workers, NEW c \in Calls, HandlerCalls(w, c)
     PROVE  CallTypes'
  BY <1>9 DEF HandlerCalls, NextId, HandlerReady, TypeOK, SessionTypes,
    CallTypes, ReaderTypes, Outcomes
<1>10. ASSUME NEW c \in Calls, OnCloseReject(c) PROVE CallTypes'
  BY <1>10 DEF OnCloseReject, Settled, TypeOK, SessionTypes, CallTypes,
    ReaderTypes, Outcomes
<1>11. ASSUME NEW c \in Calls, CloseReject(c) PROVE CallTypes'
  BY <1>11 DEF CloseReject, Settled, TypeOK, SessionTypes, CallTypes,
    ReaderTypes, Outcomes
<1>12. CASE UNCHANGED <<pc, id, fut, due>>
  BY <1>12 DEF TypeOK, SessionTypes, CallTypes, ReaderTypes, Outcomes
<1> QED
  BY <1>1, <1>2, <1>3, <1>4, <1>5, <1>6, <1>7, <1>8, <1>9, <1>10, <1>11, <1>12
    DEF Next, CallStep, TimeoutStep, OnCloseStep, CloseStep, vars, TimeoutTop,
    TimeoutExpire, TimeoutNotified, SpuriousWakeup, TimeoutRelock,
    HandleResponse, HandleNotification, DispatchRequest, WorkerDone,
    ReadLoopExit, OnCloseDrain, OnCloseMark, OnCloseCallback, Start,
    TransportStart, CloseBegin, CloseDrain, CloseCancelled, CloseWaitWorkers,
    TransportClose, TransportJoin, TransportFired, CloseNotify, CloseJoin

\* A step keeps the types of the timeout thread.
LEMMA TimerTypesStep ==
  ASSUME TypeOK, [Next]_vars
  PROVE  TimerTypes'
<1> USE DEF callVars, timerVars, readerVars, onCloseVars, workerVars, ownerVars,
            wireVars
<1>1. ASSUME NEW c \in Calls, Park(c) PROVE TimerTypes'
  BY <1>1 DEF Park, NotifyTimer, Find, TypeOK, TimerTypes, SessionTypes
<1>2. ASSUME TimeoutTop PROVE TimerTypes'
  BY <1>2 DEF TimeoutTop, TypeOK, TimerTypes, SessionTypes
<1>3. ASSUME TimeoutExpire PROVE TimerTypes'
  BY <1>3 DEF TimeoutExpire, SoonestPassed, TypeOK, TimerTypes, SessionTypes
<1>4. ASSUME TimeoutNotified PROVE TimerTypes'
  BY <1>4 DEF TimeoutNotified, TypeOK, TimerTypes, SessionTypes
<1>5. ASSUME SpuriousWakeup PROVE TimerTypes'
  BY <1>5 DEF SpuriousWakeup, TypeOK, TimerTypes, SessionTypes
<1>6. ASSUME NEW c \in Calls, TimeoutReject(c) PROVE TimerTypes'
  BY <1>6 DEF TimeoutReject, Settled, TypeOK, TimerTypes, SessionTypes
<1>7. ASSUME TimeoutRelock PROVE TimerTypes'
  BY <1>7 DEF TimeoutRelock, TypeOK, TimerTypes, SessionTypes
<1>8. ASSUME NEW r \in Readers, NEW i \in RespIds, NEW o \in {"result", "error"},
            HandleResponse(r, i, o)
     PROVE  TimerTypes'
  BY <1>8 DEF HandleResponse, Find, NotifyTimer, TypeOK, TimerTypes,
    SessionTypes
<1>9. ASSUME OnCloseDrain PROVE TimerTypes'
  BY <1>9 DEF OnCloseDrain, NotifyTimer, TypeOK, TimerTypes, SessionTypes
<1>10. ASSUME Start PROVE TimerTypes'
  BY <1>10 DEF Start, TypeOK, TimerTypes, SessionTypes
<1>11. ASSUME CloseDrain PROVE TimerTypes'
  BY <1>11 DEF CloseDrain, NotifyTimer, TypeOK, TimerTypes, SessionTypes
<1>12. ASSUME CloseNotify PROVE TimerTypes'
  BY <1>12 DEF CloseNotify, NotifyTimer, TypeOK, TimerTypes, SessionTypes
<1>13. CASE UNCHANGED <<tpc, watch, tHand>>
  BY <1>13 DEF TypeOK, TimerTypes, SessionTypes
<1> QED
  BY <1>1, <1>2, <1>3, <1>4, <1>5, <1>6, <1>7, <1>8, <1>9, <1>10, <1>11,
    <1>12, <1>13 DEF Next, CallStep, TimeoutStep, OnCloseStep, CloseStep,
    vars, SendRequest, CallerReject, Send, Retract, DeadlinePasses,
    ResolveResponse, HandleNotification, DispatchRequest, HandlerCalls,
    WorkerDone, ReadLoopExit, OnCloseReject, OnCloseMark, OnCloseCallback,
    TransportStart, CloseBegin, CloseReject, CloseCancelled, CloseWaitWorkers,
    TransportClose, TransportJoin, TransportFired, CloseJoin

\* A step keeps the types of the read threads.
LEMMA ReaderTypesStep ==
  ASSUME TypeOK, [Next]_vars
  PROVE  ReaderTypes'
<1> USE DEF callVars, timerVars, readerVars, onCloseVars, workerVars, ownerVars,
            wireVars
<1>1. ASSUME NEW r \in Readers, NEW i \in RespIds, NEW o \in {"result", "error"},
            HandleResponse(r, i, o)
     PROVE  ReaderTypes'
  BY <1>1 DEF HandleResponse, Find, NotifyTimer, TypeOK, ReaderTypes,
    SessionTypes
<1>2. ASSUME NEW r \in Readers, ResolveResponse(r) PROVE ReaderTypes'
  BY <1>2 DEF ResolveResponse, Settled, TypeOK, ReaderTypes, SessionTypes
<1>3. ASSUME NEW r \in Readers, HandleNotification(r) PROVE ReaderTypes'
  BY <1>3 DEF HandleNotification, TypeOK, ReaderTypes, SessionTypes
<1>4. ASSUME NEW r \in Readers, ReadLoopExit(r) PROVE ReaderTypes'
  BY <1>4 DEF ReadLoopExit, TypeOK, ReaderTypes, SessionTypes
<1>5. ASSUME OnCloseCallback PROVE ReaderTypes'
  BY <1>5 DEF OnCloseCallback, TypeOK, ReaderTypes, SessionTypes
<1>6. ASSUME TransportStart PROVE ReaderTypes'
  BY <1>6 DEF TransportStart, TypeOK, ReaderTypes, SessionTypes
<1>7. CASE UNCHANGED <<rpc, rHand, rOutcome>>
  BY <1>7 DEF TypeOK, ReaderTypes, SessionTypes
<1> QED
  BY <1>1, <1>2, <1>3, <1>4, <1>5, <1>6, <1>7 DEF Next, CallStep, TimeoutStep,
    OnCloseStep, CloseStep, vars, SendRequest, Park, CallerReject, Send,
    Retract, DeadlinePasses, TimeoutTop, TimeoutExpire, TimeoutNotified,
    SpuriousWakeup, TimeoutReject, TimeoutRelock, DispatchRequest,
    HandlerCalls, WorkerDone, OnCloseDrain, OnCloseReject, OnCloseMark, Start,
    CloseBegin, CloseDrain, CloseReject, CloseCancelled, CloseWaitWorkers,
    TransportClose, TransportJoin, TransportFired, CloseNotify, CloseJoin

\* A step keeps the types of the on_close lambda.
LEMMA OnCloseTypesStep ==
  ASSUME TypeOK, [Next]_vars
  PROVE  OnCloseTypes'
<1> USE DEF callVars, timerVars, readerVars, onCloseVars, workerVars, ownerVars,
            wireVars
<1>1. ASSUME NEW r \in Readers, ReadLoopExit(r) PROVE OnCloseTypes'
  BY <1>1 DEF ReadLoopExit, TypeOK, OnCloseTypes, SessionTypes
<1>2. ASSUME OnCloseDrain PROVE OnCloseTypes'
  BY <1>2 DEF OnCloseDrain, NotifyTimer, TypeOK, OnCloseTypes, SessionTypes
<1>3. ASSUME NEW c \in Calls, OnCloseReject(c) PROVE OnCloseTypes'
  BY <1>3 DEF OnCloseReject, Settled, TypeOK, OnCloseTypes, SessionTypes
<1>4. ASSUME OnCloseMark PROVE OnCloseTypes'
  BY <1>4 DEF OnCloseMark, TypeOK, OnCloseTypes, SessionTypes
<1>5. ASSUME OnCloseCallback PROVE OnCloseTypes'
  BY <1>5 DEF OnCloseCallback, TypeOK, OnCloseTypes, SessionTypes
<1>6. ASSUME TransportJoin PROVE OnCloseTypes'
  BY <1>6 DEF TransportJoin, TypeOK, OnCloseTypes, SessionTypes
<1>7. CASE UNCHANGED <<opc, oHand, hookFired>>
  BY <1>7 DEF TypeOK, OnCloseTypes, SessionTypes
<1> QED
  BY <1>1, <1>2, <1>3, <1>4, <1>5, <1>6, <1>7 DEF Next, CallStep, TimeoutStep,
    OnCloseStep, CloseStep, vars, SendRequest, Park, CallerReject, Send,
    Retract, DeadlinePasses, TimeoutTop, TimeoutExpire, TimeoutNotified,
    SpuriousWakeup, TimeoutReject, TimeoutRelock, HandleResponse,
    ResolveResponse, HandleNotification, DispatchRequest, HandlerCalls,
    WorkerDone, Start, TransportStart, CloseBegin, CloseDrain, CloseReject,
    CloseCancelled, CloseWaitWorkers, TransportClose, TransportFired,
    CloseNotify, CloseJoin

\* A step keeps the types of the workers.
LEMMA WorkerTypesStep ==
  ASSUME TypeOK, [Next]_vars
  PROVE  WorkerTypes'
<1> USE DEF callVars, timerVars, readerVars, onCloseVars, workerVars, ownerVars,
            wireVars
<1>1. ASSUME NEW r \in Readers, NEW w \in Workers, DispatchRequest(r, w)
     PROVE  WorkerTypes'
  BY <1>1 DEF DispatchRequest, TypeOK, WorkerTypes
<1>2. ASSUME NEW w \in Workers, NEW c \in Calls, HandlerCalls(w, c)
     PROVE  WorkerTypes'
  BY <1>2 DEF HandlerCalls, NextId, HandlerReady, TypeOK, WorkerTypes
<1>3. ASSUME NEW w \in Workers, WorkerDone(w) PROVE WorkerTypes'
  BY <1>3 DEF WorkerDone, TypeOK, WorkerTypes
<1>4. CASE UNCHANGED <<wpc, awaits>>
  BY <1>4 DEF TypeOK, WorkerTypes
<1> QED
  BY <1>1, <1>2, <1>3, <1>4 DEF Next, CallStep, TimeoutStep, OnCloseStep,
    CloseStep, vars, SendRequest, Park, CallerReject, Send, Retract,
    DeadlinePasses, TimeoutTop, TimeoutExpire, TimeoutNotified,
    SpuriousWakeup, TimeoutReject, TimeoutRelock, HandleResponse,
    ResolveResponse, HandleNotification, ReadLoopExit, OnCloseDrain,
    OnCloseReject, OnCloseMark, OnCloseCallback, Start, TransportStart,
    CloseBegin, CloseDrain, CloseReject, CloseCancelled, CloseWaitWorkers,
    TransportClose, TransportJoin, TransportFired, CloseNotify, CloseJoin

\* A step keeps the types of the owner and the transport.
LEMMA OwnerTypesStep ==
  ASSUME TypeOK, [Next]_vars
  PROVE  OwnerTypes'
<1> USE DEF callVars, timerVars, readerVars, onCloseVars, workerVars, ownerVars,
            wireVars
<1>1. ASSUME NEW r \in Readers, ReadLoopExit(r) PROVE OwnerTypes'
  BY <1>1 DEF ReadLoopExit, TypeOK, OwnerTypes, SessionTypes
<1>2. ASSUME Start PROVE OwnerTypes'
  BY <1>2 DEF Start, TypeOK, OwnerTypes, SessionTypes
<1>3. ASSUME TransportStart PROVE OwnerTypes'
  BY <1>3 DEF TransportStart, TypeOK, OwnerTypes, SessionTypes
<1>4. ASSUME NEW d \in BOOLEAN, CloseBegin(d) PROVE OwnerTypes'
  BY <1>4 DEF CloseBegin, TypeOK, OwnerTypes, SessionTypes
<1>5. ASSUME CloseDrain PROVE OwnerTypes'
  BY <1>5 DEF CloseDrain, NotifyTimer, TypeOK, OwnerTypes, SessionTypes
<1>6. ASSUME NEW c \in Calls, CloseReject(c) PROVE OwnerTypes'
  BY <1>6 DEF CloseReject, Settled, TypeOK, OwnerTypes, SessionTypes
<1>7. ASSUME CloseCancelled PROVE OwnerTypes'
  BY <1>7 DEF CloseCancelled, TypeOK, OwnerTypes, SessionTypes
<1>8. ASSUME CloseWaitWorkers PROVE OwnerTypes'
  BY <1>8 DEF CloseWaitWorkers, TypeOK, OwnerTypes, SessionTypes
<1>9. ASSUME TransportClose PROVE OwnerTypes'
  BY <1>9 DEF TransportClose, TypeOK, OwnerTypes, SessionTypes
<1>10. ASSUME TransportJoin PROVE OwnerTypes'
  BY <1>10 DEF TransportJoin, TypeOK, OwnerTypes, SessionTypes
<1>11. ASSUME TransportFired PROVE OwnerTypes'
  BY <1>11 DEF TransportFired, TypeOK, OwnerTypes, SessionTypes
<1>12. ASSUME CloseNotify PROVE OwnerTypes'
  BY <1>12 DEF CloseNotify, NotifyTimer, TypeOK, OwnerTypes, SessionTypes
<1>13. ASSUME CloseJoin PROVE OwnerTypes'
  BY <1>13 DEF CloseJoin, TypeOK, OwnerTypes, SessionTypes
<1>14. CASE UNCHANGED <<lpc, lHand, first, dtor, closeDone, running, fired>>
  BY <1>14 DEF TypeOK, OwnerTypes, SessionTypes
<1> QED
  BY <1>1, <1>2, <1>3, <1>4, <1>5, <1>6, <1>7, <1>8, <1>9, <1>10, <1>11,
    <1>12, <1>13, <1>14 DEF Next, CallStep, TimeoutStep, OnCloseStep,
    CloseStep, vars, SendRequest, Park, CallerReject, Send, Retract,
    DeadlinePasses, TimeoutTop, TimeoutExpire, TimeoutNotified,
    SpuriousWakeup, TimeoutReject, TimeoutRelock, HandleResponse,
    ResolveResponse, HandleNotification, DispatchRequest, HandlerCalls,
    WorkerDone, OnCloseDrain, OnCloseReject, OnCloseMark, OnCloseCallback

\* A step moves an entry from one owner to the next, or settles it.
LEMMA OwnershipStep ==
  ASSUME Inv, [Next]_vars
  PROVE  Ownership'
<1> USE DEF callVars, timerVars, readerVars, onCloseVars, workerVars, ownerVars,
            wireVars
<1>1. ASSUME NEW c \in Calls, SendRequest(c) PROVE Ownership'
  <2> SUFFICES ASSUME NEW d \in Calls PROVE Owned(d)'
    BY DEF Ownership
  <2>1. Owned(c) /\ Owned(d) /\ SessionTypes /\ CallTypes
    BY DEF Inv, Ownership, TypeOK
  <2>2. CASE d = c
    BY <1>1, <2>1, <2>2 DEF SendRequest, NextId, Owned, InReader, Parked,
      SessionTypes, CallTypes
  <2>3. CASE d # c
    BY <1>1, <2>1, <2>3 DEF SendRequest, NextId, Owned, InReader, Parked,
      CallTypes
  <2> QED BY <2>2, <2>3
<1>2. ASSUME NEW c \in Calls, Park(c) PROVE Ownership'
  <2> SUFFICES ASSUME NEW d \in Calls PROVE Owned(d)'
    BY DEF Ownership
  <2>1. Owned(c) /\ Owned(d) /\ SessionTypes /\ CallTypes
    BY DEF Inv, Ownership, TypeOK
  <2>2. CASE d = c
    BY <1>2, <2>1, <2>2 DEF Park, NotifyTimer, Find, Owned, InReader, Parked,
      SessionTypes, CallTypes
  <2>3. CASE d # c
    BY <1>2, <2>1, <2>3 DEF Park, NotifyTimer, Find, Owned, InReader, Parked,
      CallTypes
  <2> QED BY <2>2, <2>3
<1>3. ASSUME NEW c \in Calls, CallerReject(c) PROVE Ownership'
  <2> SUFFICES ASSUME NEW d \in Calls PROVE Owned(d)'
    BY DEF Ownership
  <2>1. Owned(c) /\ Owned(d) /\ SessionTypes /\ CallTypes
    BY DEF Inv, Ownership, TypeOK
  <2>2. CASE d = c
    BY <1>3, <2>1, <2>2 DEF CallerReject, Settled, RejectOutcome, InCaller,
      Owned, InReader, Parked, SessionTypes, CallTypes
  <2>3. CASE d # c
    BY <1>3, <2>1, <2>3 DEF CallerReject, Settled, RejectOutcome, InCaller,
      Owned, InReader, Parked, CallTypes
  <2> QED BY <2>2, <2>3
<1>4. ASSUME NEW c \in Calls, Send(c) PROVE Ownership'
  <2> SUFFICES ASSUME NEW d \in Calls PROVE Owned(d)'
    BY DEF Ownership
  <2>1. Owned(c) /\ Owned(d) /\ SessionTypes /\ CallTypes
    BY DEF Inv, Ownership, TypeOK
  <2>2. CASE d = c
    BY <1>4, <2>1, <2>2 DEF Send, Owned, InReader, Parked, SessionTypes,
      CallTypes
  <2>3. CASE d # c
    BY <1>4, <2>1, <2>3 DEF Send, Owned, InReader, Parked, CallTypes
  <2> QED BY <2>2, <2>3
<1>5. ASSUME NEW c \in Calls, Retract(c) PROVE Ownership'
  <2> SUFFICES ASSUME NEW d \in Calls PROVE Owned(d)'
    BY DEF Ownership
  <2>1. Owned(c) /\ Owned(d) /\ SessionTypes /\ CallTypes
    BY DEF Inv, Ownership, TypeOK
  <2>2. CASE d = c
    BY <1>5, <2>1, <2>2 DEF Retract, Owned, InReader, Parked, SessionTypes,
      CallTypes
  <2>3. CASE d # c
    BY <1>5, <2>1, <2>3 DEF Retract, Owned, InReader, Parked, CallTypes
  <2> QED BY <2>2, <2>3
<1>6. ASSUME TimeoutExpire PROVE Ownership'
  BY <1>6 DEF TimeoutExpire, SoonestPassed, Inv, TypeOK, SessionTypes,
    TimerTypes, Ownership, Owned, InReader, Hands, Parked
<1>7. ASSUME NEW c \in Calls, TimeoutReject(c) PROVE Ownership'
  <2> SUFFICES ASSUME NEW d \in Calls PROVE Owned(d)'
    BY DEF Ownership
  <2>1. Owned(c) /\ Owned(d) /\ SessionTypes /\ CallTypes
    BY DEF Inv, Ownership, TypeOK
  <2>2. CASE d = c
    BY <1>7, <2>1, <2>2 DEF TimeoutReject, Settled, Owned, InReader, Parked,
      SessionTypes, CallTypes
  <2>3. CASE d # c
    BY <1>7, <2>1, <2>3 DEF TimeoutReject, Settled, Owned, InReader, Parked,
      CallTypes
  <2> QED BY <2>2, <2>3
<1>8. ASSUME NEW r \in Readers, NEW i \in RespIds, NEW o \in {"result", "error"},
            HandleResponse(r, i, o)
     PROVE  Ownership'
  <2> SUFFICES ASSUME NEW d \in Calls PROVE Owned(d)'
    BY DEF Ownership
  <2>1. Owned(d) /\ rHand[r] = {} /\ rHand \in [Readers -> SUBSET Calls]
    BY <1>8 DEF Inv, Ownership, Hands, TypeOK, ReaderTypes, HandleResponse
  <2>2. CASE Find(i) = {}
    BY <1>8, <2>1, <2>2 DEF HandleResponse, Owned, InReader
  <2>3. CASE Find(i) # {}
    <3>1. /\ pending' = pending \ Find(i) /\ Find(i) \subseteq pending
          /\ rHand' = [rHand EXCEPT ![r] = Find(i)]
          /\ UNCHANGED <<pc, fut, tHand, oHand, lHand>>
      BY <1>8, <2>3 DEF HandleResponse, Find
    <3>2. InReader(d)' <=> InReader(d) \/ d \in Find(i)
      BY <2>1, <3>1 DEF InReader
    <3>3. \A s, t \in Readers : d \in rHand'[s] /\ d \in rHand'[t] => s = t
      BY <2>1, <3>1 DEF Owned, InReader
    <3> QED
      BY <2>1, <3>1, <3>2, <3>3 DEF Owned, Parked
  <2> QED BY <2>2, <2>3
<1>9. ASSUME NEW r \in Readers, ResolveResponse(r) PROVE Ownership'
  <2> SUFFICES ASSUME NEW d \in Calls PROVE Owned(d)'
    BY DEF Ownership
  <2>1. PICK c \in rHand[r] : fut' = Settled(c, rOutcome[r])
    BY <1>9 DEF ResolveResponse
  <2>2. /\ c \in Calls /\ rHand[r] = {c}
        /\ rOutcome[r] \in {"result", "error"}
        /\ rHand' = [rHand EXCEPT ![r] = {}]
        /\ UNCHANGED <<pc, pending, tHand, oHand, lHand>>
    BY <1>9, <2>1 DEF ResolveResponse, Inv, Hands, TypeOK, ReaderTypes
  <2>3. /\ Owned(c) /\ Owned(d) /\ rHand \in [Readers -> SUBSET Calls]
        /\ fut \in [Calls -> Outcomes \cup {"none", "twice"}]
    BY <2>2 DEF Inv, Ownership, TypeOK, ReaderTypes, CallTypes
  <2>4. CASE d = c
    <3>1. ~InReader(d)'
      BY <2>2, <2>3, <2>4 DEF Owned, InReader
    <3>2. InReader(d) /\ fut[c] = "none"
      BY <2>2, <2>3, <2>4 DEF Owned, InReader
    <3>3. fut'[d] \in {"result", "error"}
      BY <2>1, <2>2, <2>3, <2>4, <3>2 DEF Settled
    <3> QED
      BY <2>2, <2>3, <2>4, <3>1, <3>2, <3>3 DEF Owned, InReader
  <2>5. CASE d # c
    <3>1. fut'[d] = fut[d]
      BY <2>1, <2>2, <2>3, <2>5 DEF Settled
    <3>2. \A s \in Readers : d \in rHand'[s] <=> d \in rHand[s]
      BY <2>2, <2>3, <2>5
    <3> QED
      BY <2>2, <2>3, <3>1, <3>2 DEF Owned, InReader
  <2> QED BY <2>4, <2>5
<1>10. ASSUME NEW w \in Workers, NEW c \in Calls, HandlerCalls(w, c)
     PROVE  Ownership'
  <2> SUFFICES ASSUME NEW d \in Calls PROVE Owned(d)'
    BY DEF Ownership
  <2>1. Owned(c) /\ Owned(d) /\ SessionTypes /\ CallTypes
    BY DEF Inv, Ownership, TypeOK
  <2>2. CASE d = c
    BY <1>10, <2>1, <2>2 DEF HandlerCalls, NextId, HandlerReady, Owned,
      InReader,
      Parked, SessionTypes, CallTypes
  <2>3. CASE d # c
    BY <1>10, <2>1, <2>3 DEF HandlerCalls, NextId, HandlerReady, Owned,
      InReader,
      Parked, CallTypes
  <2> QED BY <2>2, <2>3
<1>11. ASSUME OnCloseDrain PROVE Ownership'
  BY <1>11 DEF OnCloseDrain, NotifyTimer, Inv, TypeOK, SessionTypes,
    TimerTypes, Ownership, Owned, InReader, Hands, Parked
<1>12. ASSUME NEW c \in Calls, OnCloseReject(c) PROVE Ownership'
  <2> SUFFICES ASSUME NEW d \in Calls PROVE Owned(d)'
    BY DEF Ownership
  <2>1. Owned(c) /\ Owned(d) /\ SessionTypes /\ CallTypes
    BY DEF Inv, Ownership, TypeOK
  <2>2. CASE d = c
    BY <1>12, <2>1, <2>2 DEF OnCloseReject, Settled, Owned, InReader, Parked,
      SessionTypes, CallTypes
  <2>3. CASE d # c
    BY <1>12, <2>1, <2>3 DEF OnCloseReject, Settled, Owned, InReader, Parked,
      CallTypes
  <2> QED BY <2>2, <2>3
<1>13. ASSUME CloseDrain PROVE Ownership'
  BY <1>13 DEF CloseDrain, NotifyTimer, Inv, TypeOK, SessionTypes, TimerTypes,
    Ownership, Owned, InReader, Hands, Parked
<1>14. ASSUME NEW c \in Calls, CloseReject(c) PROVE Ownership'
  <2> SUFFICES ASSUME NEW d \in Calls PROVE Owned(d)'
    BY DEF Ownership
  <2>1. Owned(c) /\ Owned(d) /\ SessionTypes /\ CallTypes
    BY DEF Inv, Ownership, TypeOK
  <2>2. CASE d = c
    BY <1>14, <2>1, <2>2 DEF CloseReject, Settled, Owned, InReader, Parked,
      SessionTypes, CallTypes
  <2>3. CASE d # c
    BY <1>14, <2>1, <2>3 DEF CloseReject, Settled, Owned, InReader, Parked,
      CallTypes
  <2> QED BY <2>2, <2>3
<1>15. CASE UNCHANGED <<pc, fut, pending, tHand, oHand, lHand, rHand>>
  BY <1>15 DEF Inv, TypeOK, SessionTypes, TimerTypes, Ownership, Owned,
    InReader, Hands, Parked
<1> QED
  BY <1>1, <1>2, <1>3, <1>4, <1>5, <1>6, <1>7, <1>8, <1>9, <1>10, <1>11,
    <1>12, <1>13, <1>14, <1>15 DEF Next, CallStep, TimeoutStep, OnCloseStep,
    CloseStep, vars, DeadlinePasses, TimeoutTop, TimeoutNotified,
    SpuriousWakeup, TimeoutRelock, HandleNotification, DispatchRequest,
    WorkerDone, ReadLoopExit, OnCloseMark, OnCloseCallback, Start,
    TransportStart, CloseBegin, CloseCancelled, CloseWaitWorkers,
    TransportClose, TransportJoin, TransportFired, CloseNotify, CloseJoin

\* A step hands out no id a second time.
LEMMA IdsStep ==
  ASSUME Inv, [Next]_vars
  PROVE  IdsDistinct' /\ NoDuplicateId'
<1> USE DEF callVars, timerVars, readerVars, onCloseVars, workerVars, ownerVars,
            wireVars
<1>1. ASSUME NEW c \in Calls, SendRequest(c)
     PROVE  IdsDistinct' /\ NoDuplicateId'
  BY <1>1 DEF SendRequest, NextId, Inv, TypeOK, SessionTypes, CallTypes,
    IdsDistinct, NoDuplicateId
<1>2. ASSUME NEW c \in Calls, Park(c) PROVE IdsDistinct' /\ NoDuplicateId'
  BY <1>2 DEF Park, NotifyTimer, Find, Inv, TypeOK, SessionTypes, CallTypes,
    IdsDistinct, NoDuplicateId
<1>3. ASSUME NEW c \in Calls, CallerReject(c)
     PROVE  IdsDistinct' /\ NoDuplicateId'
  BY <1>3 DEF CallerReject, Settled, RejectOutcome, InCaller, Inv, TypeOK,
    SessionTypes, CallTypes, IdsDistinct, NoDuplicateId
<1>4. ASSUME NEW c \in Calls, Send(c) PROVE IdsDistinct' /\ NoDuplicateId'
  BY <1>4 DEF Send, Inv, TypeOK, SessionTypes, CallTypes, IdsDistinct,
    NoDuplicateId
<1>5. ASSUME NEW c \in Calls, Retract(c) PROVE IdsDistinct' /\ NoDuplicateId'
  BY <1>5 DEF Retract, Inv, TypeOK, SessionTypes, CallTypes, IdsDistinct,
    NoDuplicateId
<1>6. ASSUME TimeoutExpire PROVE IdsDistinct' /\ NoDuplicateId'
  BY <1>6 DEF TimeoutExpire, SoonestPassed, Inv, TypeOK, SessionTypes,
    CallTypes, IdsDistinct, NoDuplicateId
<1>7. ASSUME NEW r \in Readers, NEW i \in RespIds, NEW o \in {"result", "error"},
            HandleResponse(r, i, o)
     PROVE  IdsDistinct' /\ NoDuplicateId'
  BY <1>7 DEF HandleResponse, Find, NotifyTimer, Inv, TypeOK, SessionTypes,
    CallTypes, IdsDistinct, NoDuplicateId
<1>8. ASSUME NEW w \in Workers, NEW c \in Calls, HandlerCalls(w, c)
     PROVE  IdsDistinct' /\ NoDuplicateId'
  BY <1>8 DEF HandlerCalls, NextId, HandlerReady, Inv, TypeOK, SessionTypes,
    CallTypes, IdsDistinct, NoDuplicateId
<1>9. ASSUME OnCloseDrain PROVE IdsDistinct' /\ NoDuplicateId'
  BY <1>9 DEF OnCloseDrain, NotifyTimer, Inv, TypeOK, SessionTypes, CallTypes,
    IdsDistinct, NoDuplicateId
<1>10. ASSUME CloseDrain PROVE IdsDistinct' /\ NoDuplicateId'
  BY <1>10 DEF CloseDrain, NotifyTimer, Inv, TypeOK, SessionTypes, CallTypes,
    IdsDistinct, NoDuplicateId
<1>11. CASE UNCHANGED <<pc, id, nextId, pending>>
  BY <1>11 DEF Inv, TypeOK, SessionTypes, CallTypes, IdsDistinct,
    NoDuplicateId
<1> QED
  BY <1>1, <1>2, <1>3, <1>4, <1>5, <1>6, <1>7, <1>8, <1>9, <1>10, <1>11 DEF
    Next, CallStep, TimeoutStep, OnCloseStep, CloseStep, vars, DeadlinePasses,
    TimeoutTop, TimeoutNotified, SpuriousWakeup, TimeoutReject, TimeoutRelock,
    ResolveResponse, HandleNotification, DispatchRequest, WorkerDone,
    ReadLoopExit, OnCloseReject, OnCloseMark, OnCloseCallback, Start,
    TransportStart, CloseBegin, CloseReject, CloseCancelled, CloseWaitWorkers,
    TransportClose, TransportJoin, TransportFired, CloseNotify, CloseJoin

\* A step fills a hand only on the way into the loop that empties it.
LEMMA HandsStep ==
  ASSUME Inv, [Next]_vars
  PROVE  Hands'
<1> USE DEF callVars, timerVars, readerVars, onCloseVars, workerVars, ownerVars,
            wireVars
<1>1. ASSUME NEW c \in Calls, Park(c) PROVE Hands'
  BY <1>1 DEF Park, NotifyTimer, Find, Inv, TypeOK, ReaderTypes, Hands, Phases
<1>2. ASSUME TimeoutTop PROVE Hands'
  BY <1>2 DEF TimeoutTop, Inv, TypeOK, ReaderTypes, Hands, Phases
<1>3. ASSUME TimeoutExpire PROVE Hands'
  BY <1>3 DEF TimeoutExpire, SoonestPassed, Inv, TypeOK, ReaderTypes, Hands,
    Phases
<1>4. ASSUME TimeoutNotified PROVE Hands'
  BY <1>4 DEF TimeoutNotified, Inv, TypeOK, ReaderTypes, Hands, Phases
<1>5. ASSUME SpuriousWakeup PROVE Hands'
  BY <1>5 DEF SpuriousWakeup, Inv, TypeOK, ReaderTypes, Hands, Phases
<1>6. ASSUME NEW c \in Calls, TimeoutReject(c) PROVE Hands'
  BY <1>6 DEF TimeoutReject, Settled, Inv, TypeOK, ReaderTypes, Hands, Phases
<1>7. ASSUME TimeoutRelock PROVE Hands'
  BY <1>7 DEF TimeoutRelock, Inv, TypeOK, ReaderTypes, Hands, Phases
<1>8. ASSUME NEW r \in Readers, NEW i \in RespIds, NEW o \in {"result", "error"},
            HandleResponse(r, i, o)
     PROVE  Hands'
  <2>1. CASE Find(i) = {}
    BY <1>8, <2>1 DEF HandleResponse, Inv, Hands
  <2>2. CASE Find(i) # {}
    <3>1. /\ rHand' = [rHand EXCEPT ![r] = Find(i)]
          /\ rOutcome' = [rOutcome EXCEPT ![r] = o]
          /\ rpc' = [rpc EXCEPT ![r] = "resolve"]
          /\ UNCHANGED <<tHand, oHand, opc, lHand, lpc>>
      BY <1>8, <2>2 DEF HandleResponse
    <3>2. \A c, d \in Find(i) : c = d
      BY DEF Inv, IdsDistinct, Find, TypeOK, SessionTypes
    <3>3. tHand # {} => tpc' = "reject"
      BY <1>8 DEF HandleResponse, NotifyTimer, Inv, Hands
    <3> QED
      BY <2>2, <3>1, <3>2, <3>3 DEF Inv, Hands, TypeOK, ReaderTypes
  <2> QED BY <2>1, <2>2
<1>9. ASSUME NEW r \in Readers, ResolveResponse(r) PROVE Hands'
  BY <1>9 DEF ResolveResponse, Settled, Inv, TypeOK, ReaderTypes, Hands,
    Phases
<1>10. ASSUME NEW r \in Readers, HandleNotification(r) PROVE Hands'
  BY <1>10 DEF HandleNotification, Inv, TypeOK, ReaderTypes, Hands, Phases
<1>11. ASSUME NEW r \in Readers, ReadLoopExit(r) PROVE Hands'
  BY <1>11 DEF ReadLoopExit, Inv, TypeOK, ReaderTypes, Hands, Phases
<1>12. ASSUME OnCloseDrain PROVE Hands'
  BY <1>12 DEF OnCloseDrain, NotifyTimer, Inv, TypeOK, ReaderTypes, Hands,
    Phases
<1>13. ASSUME NEW c \in Calls, OnCloseReject(c) PROVE Hands'
  BY <1>13 DEF OnCloseReject, Settled, Inv, TypeOK, ReaderTypes, Hands, Phases
<1>14. ASSUME OnCloseMark PROVE Hands'
  BY <1>14 DEF OnCloseMark, Inv, TypeOK, ReaderTypes, Hands, Phases
<1>15. ASSUME OnCloseCallback PROVE Hands'
  BY <1>15 DEF OnCloseCallback, Inv, TypeOK, ReaderTypes, Hands, Phases
<1>16. ASSUME Start PROVE Hands'
  BY <1>16 DEF Start, Inv, TypeOK, ReaderTypes, Hands, Phases
<1>17. ASSUME TransportStart PROVE Hands'
  BY <1>17 DEF TransportStart, Inv, TypeOK, ReaderTypes, Hands, Phases
<1>18. ASSUME NEW d \in BOOLEAN, CloseBegin(d) PROVE Hands'
  BY <1>18 DEF CloseBegin, Inv, TypeOK, ReaderTypes, Hands, Phases
<1>19. ASSUME CloseDrain PROVE Hands'
  BY <1>19 DEF CloseDrain, NotifyTimer, Inv, TypeOK, ReaderTypes, Hands,
    Phases
<1>20. ASSUME NEW c \in Calls, CloseReject(c) PROVE Hands'
  BY <1>20 DEF CloseReject, Settled, Inv, TypeOK, ReaderTypes, Hands, Phases
<1>21. ASSUME CloseCancelled PROVE Hands'
  BY <1>21 DEF CloseCancelled, Inv, TypeOK, ReaderTypes, Hands, Phases
<1>22. ASSUME CloseWaitWorkers PROVE Hands'
  BY <1>22 DEF CloseWaitWorkers, Inv, TypeOK, ReaderTypes, Hands, Phases
<1>23. ASSUME TransportClose PROVE Hands'
  BY <1>23 DEF TransportClose, Inv, TypeOK, ReaderTypes, Hands, Phases
<1>24. ASSUME TransportJoin PROVE Hands'
  BY <1>24 DEF TransportJoin, Inv, TypeOK, ReaderTypes, Hands, Phases
<1>25. ASSUME TransportFired PROVE Hands'
  BY <1>25 DEF TransportFired, Inv, TypeOK, ReaderTypes, Hands, Phases
<1>26. ASSUME CloseNotify PROVE Hands'
  BY <1>26 DEF CloseNotify, NotifyTimer, Inv, TypeOK, ReaderTypes, Hands,
    Phases
<1>27. ASSUME CloseJoin PROVE Hands'
  BY <1>27 DEF CloseJoin, Inv, TypeOK, ReaderTypes, Hands, Phases
<1>28. CASE UNCHANGED <<tHand, tpc, oHand, opc, lHand, lpc, rpc, rHand, rOutcome>>
  BY <1>28 DEF Inv, TypeOK, ReaderTypes, Hands, Phases
<1> QED
  BY <1>1, <1>2, <1>3, <1>4, <1>5, <1>6, <1>7, <1>8, <1>9, <1>10, <1>11,
    <1>12, <1>13, <1>14, <1>15, <1>16, <1>17, <1>18, <1>19, <1>20, <1>21,
    <1>22, <1>23, <1>24, <1>25, <1>26, <1>27, <1>28 DEF Next, CallStep,
    TimeoutStep, OnCloseStep, CloseStep, vars, SendRequest, CallerReject,
    Send, Retract, DeadlinePasses, DispatchRequest, HandlerCalls, WorkerDone

\* A step keeps threads off before start() and the lambda to one run.
LEMMA PhasesStep ==
  ASSUME Inv, [Next]_vars
  PROVE  Phases'
<1> USE DEF callVars, timerVars, readerVars, onCloseVars, workerVars, ownerVars,
            wireVars
<1>1. ASSUME NEW c \in Calls, Park(c) PROVE Phases'
  BY <1>1 DEF Park, NotifyTimer, Find, Inv, Phases, TypeOK, ReaderTypes
<1>2. ASSUME TimeoutTop PROVE Phases'
  BY <1>2 DEF TimeoutTop, Inv, Phases, TypeOK, ReaderTypes
<1>3. ASSUME TimeoutExpire PROVE Phases'
  BY <1>3 DEF TimeoutExpire, SoonestPassed, Inv, Phases, TypeOK, ReaderTypes
<1>4. ASSUME TimeoutNotified PROVE Phases'
  BY <1>4 DEF TimeoutNotified, Inv, Phases, TypeOK, ReaderTypes
<1>5. ASSUME SpuriousWakeup PROVE Phases'
  BY <1>5 DEF SpuriousWakeup, Inv, Phases, TypeOK, ReaderTypes
<1>6. ASSUME TimeoutRelock PROVE Phases'
  BY <1>6 DEF TimeoutRelock, Inv, Phases, TypeOK, ReaderTypes
<1>7. ASSUME NEW r \in Readers, NEW i \in RespIds, NEW o \in {"result", "error"},
            HandleResponse(r, i, o)
     PROVE  Phases'
  BY <1>7 DEF HandleResponse, Find, NotifyTimer, Inv, Phases, TypeOK,
    ReaderTypes
<1>8. ASSUME NEW r \in Readers, ResolveResponse(r) PROVE Phases'
  BY <1>8 DEF ResolveResponse, Settled, Inv, Phases, TypeOK, ReaderTypes
<1>9. ASSUME NEW r \in Readers, HandleNotification(r) PROVE Phases'
  BY <1>9 DEF HandleNotification, Inv, Phases, TypeOK, ReaderTypes
<1>10. ASSUME NEW r \in Readers, ReadLoopExit(r) PROVE Phases'
  BY <1>10 DEF ReadLoopExit, Inv, Phases, TypeOK, ReaderTypes
<1>11. ASSUME OnCloseDrain PROVE Phases'
  BY <1>11 DEF OnCloseDrain, NotifyTimer, Inv, Phases, TypeOK, ReaderTypes
<1>12. ASSUME OnCloseMark PROVE Phases'
  BY <1>12 DEF OnCloseMark, Inv, Phases, TypeOK, ReaderTypes
<1>13. ASSUME OnCloseCallback PROVE Phases'
  BY <1>13 DEF OnCloseCallback, Inv, Phases, TypeOK, ReaderTypes
<1>14. ASSUME Start PROVE Phases'
  BY <1>14 DEF Start, Inv, Phases, TypeOK, ReaderTypes
<1>15. ASSUME TransportStart PROVE Phases'
  BY <1>15 DEF TransportStart, Inv, Phases, TypeOK, ReaderTypes
<1>16. ASSUME NEW d \in BOOLEAN, CloseBegin(d) PROVE Phases'
  BY <1>16 DEF CloseBegin, Inv, Phases, TypeOK, ReaderTypes
<1>17. ASSUME CloseDrain PROVE Phases'
  BY <1>17 DEF CloseDrain, NotifyTimer, Inv, Phases, TypeOK, ReaderTypes
<1>18. ASSUME CloseCancelled PROVE Phases'
  BY <1>18 DEF CloseCancelled, Inv, Phases, TypeOK, ReaderTypes
<1>19. ASSUME CloseWaitWorkers PROVE Phases'
  BY <1>19 DEF CloseWaitWorkers, Inv, Phases, TypeOK, ReaderTypes
<1>20. ASSUME TransportClose PROVE Phases'
  BY <1>20 DEF TransportClose, Inv, Phases, TypeOK, ReaderTypes
<1>21. ASSUME TransportJoin PROVE Phases'
  BY <1>21 DEF TransportJoin, Inv, Phases, TypeOK, ReaderTypes
<1>22. ASSUME TransportFired PROVE Phases'
  BY <1>22 DEF TransportFired, Inv, Phases, TypeOK, ReaderTypes
<1>23. ASSUME CloseNotify PROVE Phases'
  BY <1>23 DEF CloseNotify, NotifyTimer, Inv, Phases, TypeOK, ReaderTypes
<1>24. ASSUME CloseJoin PROVE Phases'
  BY <1>24 DEF CloseJoin, Inv, Phases, TypeOK, ReaderTypes
<1>25. CASE UNCHANGED <<lpc, tpc, rpc, opc, fired>>
  BY <1>25 DEF Inv, Phases, TypeOK, ReaderTypes
<1> QED
  BY <1>1, <1>2, <1>3, <1>4, <1>5, <1>6, <1>7, <1>8, <1>9, <1>10, <1>11,
    <1>12, <1>13, <1>14, <1>15, <1>16, <1>17, <1>18, <1>19, <1>20, <1>21,
    <1>22, <1>23, <1>24, <1>25 DEF Next, CallStep, TimeoutStep, OnCloseStep,
    CloseStep, vars, SendRequest, CallerReject, Send, Retract, DeadlinePasses,
    TimeoutReject, DispatchRequest, HandlerCalls, WorkerDone, OnCloseReject,
    CloseReject

------------------------------------------------------------------------------
LEMMA InitInv == Init => Inv
<1> SUFFICES ASSUME Init PROVE Inv
  OBVIOUS
<1>1. nextId \in Nat \ {0}
  BY DEF Init
<1>2. SessionTypes
  BY <1>1 DEF Init, SessionTypes
<1>3. CallTypes /\ ReaderTypes /\ WorkerTypes
  BY DEF Init, CallTypes, ReaderTypes, WorkerTypes
<1>4. TimerTypes /\ OnCloseTypes
  BY DEF Init, TimerTypes, OnCloseTypes
<1>5. OwnerTypes
  BY DEF Init, OwnerTypes
<1>6. Ownership
  BY DEF Init, Ownership, Owned, InReader, Parked
<1>7. IdsDistinct /\ NoDuplicateId /\ Hands /\ Phases
  BY DEF Init, IdsDistinct, NoDuplicateId, Hands, Phases
<1> QED
  BY <1>2, <1>3, <1>4, <1>5, <1>6, <1>7 DEF Inv, TypeOK

LEMMA StepInv == Inv /\ [Next]_vars => Inv'
<1> SUFFICES ASSUME Inv, [Next]_vars PROVE Inv'
  OBVIOUS
<1>1. TypeOK /\ TypeOK'
  BY SessionTypesStep, CallTypesStep, TimerTypesStep, ReaderTypesStep,
     OnCloseTypesStep, WorkerTypesStep, OwnerTypesStep DEF Inv, TypeOK
<1> QED
  BY <1>1, OwnershipStep, IdsStep, HandsStep, PhasesStep DEF Inv

\* The inductive invariant holds throughout.
THEOREM Invariance == Spec => []Inv
BY InitInv, StepInv, PTL DEF Spec

\* Every variable keeps its type.
THEOREM TypeCorrect == Spec => []TypeOK
<1>1. Inv => TypeOK
  BY DEF Inv
<1> QED
  BY <1>1, Invariance, PTL

\* struct Pending: "Exactly one of resolve / reject is invoked".  However many
\* threads race for an entry, its promise is never set a second time.
THEOREM AtMostOnce == Spec => []SettledOnce
<1>1. Inv => SettledOnce
  BY DEF Inv, Ownership, Owned, SettledOnce
<1> QED
  BY <1>1, Invariance, PTL

\* No path drops a request: while its future is open, its entry is in the map
\* or with a thread that is going to settle it.
THEOREM NothingLost == Spec => []NoRequestLost
<1>1. Inv => NoRequestLost
  BY DEF Inv, TypeOK, CallTypes, Ownership, Owned, InReader, Parked,
         NoRequestLost, Held, InCaller
<1> QED
  BY <1>1, Invariance, PTL

\* The kDuplicate branch of register_pending is unreachable.
THEOREM DuplicateUnreachable == Spec => []NoDuplicateId
<1>1. Inv => NoDuplicateId
  BY DEF Inv
<1> QED
  BY <1>1, Invariance, PTL

------------------------------------------------------------------------------
(* The end of a session, with a transport that has one read thread.           *)

\* What StdioTransport has: one thread that delivers frames.
OneReader == \A r, s \in Readers : r = s

\* Where the close() is that is to tear the transport down, before it has.
FirstClose == {"drain", "reject", "wait workers", "transport close",
               "transport join", "fire close"}
\* close() past cancel_all_pending, and past its wait for the workers.
Waited == {"transport close", "transport join", "fire close", "notify", "join",
           "destroyed"}
Drained == {"reject", "wait workers"} \cup Waited

\* on_close is fired by the read thread, which then reads no more, or after it;
\* closed_ is set by the lambda or by the close() that goes on to join the read
\* thread.  Nothing is parked once closed_ is set and the map is drained.
Teardown ==
  /\ opc # "none" <=> fired
  /\ fired => \A r \in Readers : rpc[r] \in {"off", "on_close", "exited"}
  /\ opc \in {"drain", "reject", "callback"} =>
       lpc = "fire close" \/ \E r \in Readers : rpc[r] = "on_close"
  /\ closed => opc \in {"callback", "done"} \/ (first /\ lpc \in FirstClose)
  /\ lpc \in {"new", "starting"} => ~fired /\ ~closeDone
  /\ lpc \notin {"new", "starting", "idle"} => closed
  /\ closeDone => closed /\ fired
  /\ lpc \in Drained => pending = {}
  /\ closeDone /\ lpc \in Waited => WorkersRunning = {}
  /\ \A c \in Calls : pc[c] = "refuse" => closed

\* A step keeps it.
LEMMA TeardownStep ==
  ASSUME OneReader, Inv, Teardown, [Next]_vars
  PROVE  Teardown'
<1> USE DEF callVars, timerVars, readerVars, onCloseVars, workerVars, ownerVars,
            wireVars, WorkersRunning, FirstClose, Waited, Drained
<1> TypeOK /\ Phases /\ Hands
  BY DEF Inv
<1>1. ASSUME UNCHANGED <<closed, rpc, opc, fired, wpc, lpc, first, closeDone>>,
            pending' \subseteq pending \/ ~closed,
            \A c \in Calls : pc'[c] = "refuse" => pc[c] = "refuse" \/ closed
     PROVE  Teardown'
  <2>1. lpc \in Drained => pending' = {}
    BY <1>1 DEF Teardown
  <2>2. \A c \in Calls : pc'[c] = "refuse" => closed'
    BY <1>1 DEF Teardown
  <2> QED
    BY <1>1, <2>1, <2>2 DEF Teardown
<1>2. ASSUME NEW c \in Calls, SendRequest(c) \/ \E w \in Workers : HandlerCalls(w, c)
     PROVE  Teardown'
  <2>1. /\ UNCHANGED <<closed, rpc, opc, fired, wpc, lpc, first, closeDone, pending>>
        /\ pc' = [pc EXCEPT ![c] = "park"]
    BY <1>2 DEF SendRequest, HandlerCalls, NextId
  <2>2. \A d \in Calls : pc'[d] = "refuse" => pc[d] = "refuse"
    BY <2>1 DEF TypeOK, CallTypes
  <2> QED
    BY <1>1, <2>1, <2>2
<1>3. ASSUME NEW c \in Calls, Park(c) PROVE Teardown'
  <2>1. /\ UNCHANGED <<closed, rpc, opc, fired, wpc, lpc, first, closeDone>>
        /\ pending' = pending \/ ~closed
        /\ \E x \in {"refuse", "send", "duplicate"} :
             /\ pc' = [pc EXCEPT ![c] = x]
             /\ x = "refuse" => closed
    BY <1>3 DEF Park
  <2>2. \A d \in Calls : pc'[d] = "refuse" => pc[d] = "refuse" \/ closed
    BY <2>1 DEF TypeOK, CallTypes
  <2> QED
    BY <1>1, <2>1, <2>2
<1>4. ASSUME NEW c \in Calls, CallerReject(c) \/ Send(c) \/ Retract(c)
     PROVE  Teardown'
  <2>1. /\ UNCHANGED <<closed, rpc, opc, fired, wpc, lpc, first, closeDone>>
        /\ pending' \subseteq pending
        /\ \E x \in {"done", "retract", "withdrawn"} : pc' = [pc EXCEPT ![c] = x]
    BY <1>4 DEF CallerReject, Send, Retract
  <2>2. \A d \in Calls : pc'[d] = "refuse" => pc[d] = "refuse"
    BY <2>1 DEF TypeOK, CallTypes
  <2> QED
    BY <1>1, <2>1, <2>2
<1>5. ASSUME TimeoutExpire PROVE Teardown'
  BY <1>5 DEF TimeoutExpire, Teardown
<1>6. ASSUME NEW r \in Readers, NEW i \in RespIds, NEW o \in {"result",
             "error"}, HandleResponse(r, i, o)
      PROVE  Teardown'
  BY <1>6 DEF HandleResponse, Find, NotifyTimer, Teardown
<1>7. ASSUME NEW r \in Readers, ResolveResponse(r) PROVE Teardown'
  BY <1>7 DEF ResolveResponse, Teardown
<1>8. ASSUME NEW r \in Readers, HandleNotification(r) PROVE Teardown'
  BY <1>8 DEF HandleNotification, Teardown
<1>9. ASSUME NEW r \in Readers, NEW w \in Workers, DispatchRequest(r, w)
      PROVE  Teardown'
  BY <1>9 DEF DispatchRequest, Teardown
<1>10. ASSUME NEW w \in Workers, WorkerDone(w) PROVE Teardown'
  BY <1>10 DEF WorkerDone, Teardown, TypeOK, WorkerTypes
<1>11. ASSUME NEW r \in Readers, ReadLoopExit(r) PROVE Teardown'
  <2>1. ~fired /\ rpc[r] = "reading" /\ r \in Readers
    BY <1>11 DEF ReadLoopExit, Teardown
  <2>2. /\ rpc' = [rpc EXCEPT ![r] = "on_close"] /\ opc' = "drain" /\ fired'
        /\ UNCHANGED <<closed, pending, pc, wpc, lpc, first, closeDone>>
    BY <1>11, <2>1 DEF ReadLoopExit
  <2>3. rpc'[r] = "on_close" /\ \A s \in Readers : rpc'[s] = "on_close"
    BY <2>2 DEF OneReader, TypeOK, ReaderTypes
  <2>4. lpc \notin {"new", "starting"}
    BY <2>1 DEF Phases
  <2>5. opc = "none" /\ ~closeDone
    BY <2>1 DEF Teardown
  <2>6. closed => first /\ lpc \in FirstClose
    BY <2>5 DEF Teardown
  <2> QED
    BY <2>2, <2>3, <2>4, <2>5, <2>6 DEF Teardown
<1>12. ASSUME OnCloseDrain PROVE Teardown'
  BY <1>12 DEF OnCloseDrain, Teardown
<1>13. ASSUME OnCloseMark PROVE Teardown'
  BY <1>13 DEF OnCloseMark, Teardown
<1>14. ASSUME OnCloseCallback PROVE Teardown'
  BY <1>14 DEF OnCloseCallback, Teardown
<1>15. ASSUME Start PROVE Teardown'
  BY <1>15 DEF Start, Teardown
<1>16. ASSUME TransportStart PROVE Teardown'
  BY <1>16 DEF TransportStart, Teardown
<1>17. ASSUME NEW d \in BOOLEAN, CloseBegin(d) PROVE Teardown'
  BY <1>17 DEF CloseBegin, Teardown
<1>18. ASSUME CloseDrain PROVE Teardown'
  BY <1>18 DEF CloseDrain, Teardown
<1>19. ASSUME CloseCancelled PROVE Teardown'
  BY <1>19 DEF CloseCancelled, Teardown
<1>20. ASSUME CloseWaitWorkers PROVE Teardown'
  BY <1>20 DEF CloseWaitWorkers, Teardown
<1>21. ASSUME TransportClose PROVE Teardown'
  BY <1>21 DEF TransportClose, Teardown
<1>22. ASSUME TransportJoin PROVE Teardown'
  <2>1. CASE fired
    <3>1. opc = "done"
      BY <1>22, <2>1 DEF TransportJoin, Teardown, OnCloseTypes, TypeOK
    <3>2. /\ lpc = "transport join" /\ lpc' = "notify" /\ fired' = fired
          /\ UNCHANGED <<closed, pending, pc, rpc, opc, wpc, first, closeDone>>
      BY <1>22, <2>1 DEF TransportJoin
    <3> QED
      BY <2>1, <3>1, <3>2 DEF Teardown
  <2>2. CASE ~fired
    <3>1. /\ lpc = "transport join" /\ lpc' = "fire close" /\ opc' = "drain" /\ fired'
          /\ \A r \in Readers : rpc[r] \in {"off", "exited"}
          /\ UNCHANGED <<closed, pending, pc, rpc, wpc, first, closeDone>>
      BY <1>22, <2>2 DEF TransportJoin
    <3>2. ~closeDone /\ first
      BY <3>1, <2>2 DEF Teardown
    <3> QED
      BY <3>1, <3>2 DEF Teardown
  <2> QED
    BY <2>1, <2>2
<1>23. ASSUME TransportFired PROVE Teardown'
  BY <1>23 DEF TransportFired, Teardown
<1>24. ASSUME CloseNotify PROVE Teardown'
  BY <1>24 DEF CloseNotify, Teardown
<1>25. ASSUME CloseJoin PROVE Teardown'
  BY <1>25 DEF CloseJoin, Teardown
<1>26. CASE UNCHANGED <<closed, pending, pc, rpc, opc, fired, wpc, lpc, first, closeDone>>
  BY <1>26 DEF Teardown
<1> QED
  BY <1>1, <1>2, <1>3, <1>4, <1>5, <1>6, <1>7, <1>8, <1>9, <1>10, <1>11, <1>12,
    <1>13, <1>14, <1>15, <1>16, <1>17, <1>18, <1>19, <1>20, <1>21, <1>22, <1>23,
    <1>24, <1>25, <1>26 DEF Next, CallStep, TimeoutStep, OnCloseStep, CloseStep,
    vars,
    DeadlinePasses, TimeoutTop, TimeoutNotified, SpuriousWakeup, TimeoutReject,
    TimeoutRelock, OnCloseReject, CloseReject

\* With one read thread the end of the session is as told.
LEMMA TeardownInvariance == ASSUME OneReader PROVE Spec => [](Inv /\ Teardown)
<1>1. Init => Inv /\ Teardown
  <2> SUFFICES ASSUME Init PROVE Inv /\ Teardown
    OBVIOUS
  <2>1. Teardown
    BY DEF Init, Teardown, FirstClose, Waited, Drained
  <2> QED
    BY <2>1, InitInv
<1>2. Inv /\ Teardown /\ [Next]_vars => (Inv /\ Teardown)'
  BY StepInv, TeardownStep
<1> QED
  BY <1>1, <1>2, PTL DEF Spec

\* ~Session after an explicit close(): the second close() waits for workers when
\* no frame can start another, so none outlives the session.
THEOREM NoWorkerOutlives == ASSUME OneReader PROVE Spec => []SafeTeardown
<1>1. Inv /\ Teardown => SafeTeardown
  BY DEF Teardown, SafeTeardown, Waited
<1> QED
  BY <1>1, TeardownInvariance, PTL

------------------------------------------------------------------------------
(* The contract with the callers.                                             *)

\* What the contract sees of a call.
StatusOf(f, p) ==
  IF f # "none" THEN f
  ELSE CASE p \in {"idle", "park", "refuse", "duplicate"} -> "idle"
         [] p = "withdrawn" -> "withdrawn"
         [] OTHER -> "open"

LEMMA Status ==
  /\ callStatus = [c \in Calls |-> StatusOf(fut[c], pc[c])]
  /\ callStatus' = [c \in Calls |-> StatusOf(fut'[c], pc'[c])]
BY DEF callStatus, StatusOf

\* A step of one call moves its status and no other.
LEMMA StatusMoves ==
  ASSUME NEW c \in Calls,
         \A d \in Calls \ {c} : fut'[d] = fut[d] /\ pc'[d] = pc[d]
  PROVE  callStatus' = [callStatus EXCEPT ![c] = StatusOf(fut'[c], pc'[c])]
BY Status

\* The phase does not change unless closed_ does or close() returns.
LEMMA PhaseStays ==
  ASSUME closed' = closed, closeDone' = closeDone,
         lpc' = "destroyed" <=> lpc = "destroyed"
  PROVE  sessionPhase' = sessionPhase
BY DEF sessionPhase

\* A session that is up is not closed, and one that is not up is.
LEMMA UpIsOpen ==
  ASSUME Teardown
  PROVE  sessionPhase = "up" <=> ~closed
BY DEF Teardown, sessionPhase

\* A call that is let in is open until its promise is set.
LEMMA OpenIs ==
  ASSUME Inv, NEW c \in Calls
  PROVE  callStatus[c] = "open" <=> (pc[c] \in Parked /\ fut[c] = "none")
<1>1. /\ pc[c] \in {"idle", "park", "refuse", "duplicate", "send", "retract",
                   "withdrawn", "done"}
      /\ fut[c] \in Outcomes \cup {"none", "twice"}
  BY DEF Inv, TypeOK, CallTypes
<1>2. callStatus[c] = StatusOf(fut[c], pc[c])
  BY Status
<1> QED
  BY <1>1, <1>2 DEF StatusOf, Parked, Outcomes

\* Whoever has the entry of a call settles an open request.
LEMMA SettleOpen ==
  ASSUME Inv, NEW c \in Calls, NEW o \in Outcomes,
         c \in tHand \cup oHand \cup lHand \/ InReader(c),
         fut' = Settled(c, o), pc' = pc,
         sessionPhase' = sessionPhase,
         o = "session closed" => sessionPhase # "up"
  PROVE  Contract!Settle(c, o)
<1>1. pc[c] \in Parked /\ fut[c] = "none"
  BY DEF Inv, Ownership, Owned
<1>2. fut \in [Calls -> Outcomes \cup {"none", "twice"}]
  BY DEF Inv, TypeOK, CallTypes
<1>3. fut'[c] = o /\ \A d \in Calls \ {c} : fut'[d] = fut[d]
  BY <1>1, <1>2 DEF Settled
<1>4. StatusOf(fut'[c], pc'[c]) = o
  BY <1>3 DEF StatusOf, Outcomes
<1>5. callStatus[c] = "open"
  BY <1>1, OpenIs
<1>6. callStatus' = [callStatus EXCEPT ![c] = o]
  BY <1>3, <1>4, StatusMoves
<1> QED
  BY <1>5, <1>6 DEF Contract!Settle, Contract!Moves

\* When close() returns no request is open: the map is empty and so is every
\* hand, those of the read thread and of the timeout thread included.
LEMMA NothingOpen ==
  ASSUME Inv, Teardown, lpc = "join", tpc = "exited", NEW c \in Calls
  PROVE  callStatus[c] # "open"
<1>1. closed /\ pending = {}
  BY DEF Teardown, Drained, Waited
<1>2. opc \in {"callback", "done"}
  BY <1>1 DEF Teardown, FirstClose
<1>3. fired
  BY <1>2 DEF Teardown
<1>4. tHand = {} /\ oHand = {} /\ lHand = {}
  BY <1>2 DEF Inv, Hands
<1>5. ~InReader(c)
  BY <1>3 DEF Teardown, Inv, Hands, InReader
<1>6. ~(pc[c] \in Parked /\ fut[c] = "none")
  BY <1>1, <1>4, <1>5 DEF Inv, Ownership, Owned
<1> QED
  BY <1>6, OpenIs

\* What a step of the callers' threads is to the contract.
LEMMA CallerRefines ==
  ASSUME Inv, Teardown, NEW c \in Calls,
         \/ SendRequest(c) \/ CallStep(c) \/ DeadlinePasses(c)
         \/ \E w \in Workers : HandlerCalls(w, c)
  PROVE  [Contract!Next]_<<callStatus, sessionPhase>>
<1> /\ pc \in [Calls -> {"idle", "park", "refuse", "duplicate", "send",
                         "retract", "withdrawn", "done"}]
    /\ fut \in [Calls -> Outcomes \cup {"none", "twice"}]
    /\ Owned(c) /\ pc[c] # "duplicate"
  BY DEF Inv, TypeOK, CallTypes, Ownership, NoDuplicateId
<1> callStatus[c] = StatusOf(fut[c], pc[c])
  BY Status
<1>0. sessionPhase' = sessionPhase
  <2>1. UNCHANGED <<closed, closeDone, lpc>>
    BY DEF SendRequest, CallStep, DeadlinePasses, HandlerCalls, NextId, Park,
      CallerReject, Send, Retract, ownerVars
  <2> QED
    BY <2>1, PhaseStays
<1>1. CASE SendRequest(c) \/ \E w \in Workers : HandlerCalls(w, c)
  <2>1. pc[c] = "idle" /\ pc' = [pc EXCEPT ![c] = "park"] /\ fut' = fut
    BY <1>1 DEF SendRequest, HandlerCalls, NextId
  <2>2. StatusOf(fut'[c], pc'[c]) = StatusOf(fut[c], pc[c])
    BY <2>1 DEF StatusOf
  <2>3. callStatus' = callStatus
    BY <2>1, <2>2, StatusMoves, Status
  <2> QED
    BY <1>0, <2>3
<1>2. CASE Park(c)
  <2>1. PICK x \in {"refuse", "send", "duplicate"} :
          /\ pc[c] = "park" /\ pc' = [pc EXCEPT ![c] = x] /\ fut' = fut
          /\ x = "send" => ~closed
    BY <1>2 DEF Park
  <2>2. fut[c] = "none" /\ callStatus[c] = "idle"
    BY <2>1 DEF Owned, Parked, StatusOf
  <2>3. CASE x = "send"
    <3>1. callStatus' = [callStatus EXCEPT ![c] = "open"]
      BY <2>1, <2>2, <2>3, StatusMoves DEF StatusOf
    <3>2. sessionPhase = "up"
      BY <2>1, <2>3, UpIsOpen
    <3>3. Contract!Open(c)
      BY <1>0, <2>2, <3>1, <3>2 DEF Contract!Open, Contract!Moves
    <3> QED
      BY <3>3 DEF Contract!Next
  <2>4. CASE x # "send"
    <3>1. StatusOf(fut'[c], pc'[c]) = "idle"
      BY <2>1, <2>2, <2>4 DEF StatusOf
    <3>2. callStatus' = callStatus
      BY <2>1, <2>2, <3>1, StatusMoves, Status
    <3> QED
      BY <1>0, <3>2
  <2> QED
    BY <2>3, <2>4
<1>3. CASE CallerReject(c)
  <2>1. /\ pc[c] \in {"refuse", "withdrawn"} /\ fut[c] = "none"
        /\ pc' = [pc EXCEPT ![c] = "done"]
        /\ fut' = Settled(c, RejectOutcome(c))
    BY <1>3 DEF CallerReject, Owned, Parked
  <2>2. CASE pc[c] = "refuse"
    <3>1. RejectOutcome(c) = "session closed" /\ callStatus[c] = "idle"
      BY <2>1, <2>2 DEF RejectOutcome, StatusOf
    <3>2. fut'[c] = "session closed" /\ \A d \in Calls \ {c} : fut'[d] = fut[d]
      BY <2>1, <3>1 DEF Settled
    <3>3. callStatus' = [callStatus EXCEPT ![c] = "session closed"]
      BY <2>1, <3>2, StatusMoves DEF StatusOf
    <3>4. sessionPhase # "up"
      BY <2>2, UpIsOpen DEF Teardown
    <3>5. Contract!Refuse(c)
      BY <1>0, <3>1, <3>3, <3>4 DEF Contract!Refuse, Contract!Moves
    <3> QED
      BY <3>5 DEF Contract!Next
  <2>3. CASE pc[c] = "withdrawn"
    <3>1. RejectOutcome(c) = "send failed" /\ callStatus[c] = "withdrawn"
      BY <2>1, <2>3 DEF RejectOutcome, StatusOf
    <3>2. fut'[c] = "send failed" /\ \A d \in Calls \ {c} : fut'[d] = fut[d]
      BY <2>1, <3>1 DEF Settled
    <3>3. callStatus' = [callStatus EXCEPT ![c] = "send failed"]
      BY <2>1, <3>2, StatusMoves DEF StatusOf
    <3>4. Contract!SendFailed(c)
      BY <1>0, <3>1, <3>3 DEF Contract!SendFailed, Contract!Moves
    <3> QED
      BY <3>4 DEF Contract!Next
  <2> QED
    BY <2>1, <2>2, <2>3
<1>4. CASE Send(c)
  <2>1. PICK x \in {"done", "retract"} :
          pc[c] = "send" /\ pc' = [pc EXCEPT ![c] = x] /\ fut' = fut
    BY <1>4 DEF Send
  <2>2. StatusOf(fut'[c], pc'[c]) = StatusOf(fut[c], pc[c])
    BY <2>1 DEF StatusOf
  <2>3. callStatus' = callStatus
    BY <2>1, <2>2, StatusMoves, Status
  <2> QED
    BY <1>0, <2>3
<1>5. CASE Retract(c)
  <2>1. CASE c \in pending
    <3>1. /\ pc[c] = "retract" /\ pc' = [pc EXCEPT ![c] = "withdrawn"]
          /\ fut' = fut /\ fut[c] = "none"
      BY <1>5, <2>1 DEF Retract, Owned
    <3>2. callStatus[c] = "open"
      BY <3>1 DEF StatusOf
    <3>3. callStatus' = [callStatus EXCEPT ![c] = "withdrawn"]
      BY <3>1, StatusMoves DEF StatusOf
    <3>4. Contract!Withdraw(c)
      BY <1>0, <3>2, <3>3 DEF Contract!Withdraw, Contract!Moves
    <3> QED
      BY <3>4 DEF Contract!Next
  <2>2. CASE c \notin pending
    <3>1. pc[c] = "retract" /\ pc' = [pc EXCEPT ![c] = "done"] /\ fut' = fut
      BY <1>5, <2>2 DEF Retract
    <3>2. StatusOf(fut'[c], pc'[c]) = StatusOf(fut[c], pc[c])
      BY <3>1 DEF StatusOf
    <3>3. callStatus' = callStatus
      BY <3>1, <3>2, StatusMoves, Status
    <3> QED
      BY <1>0, <3>3
  <2> QED
    BY <2>1, <2>2
<1>6. CASE DeadlinePasses(c)
  <2>1. pc' = pc /\ fut' = fut
    BY <1>6 DEF DeadlinePasses
  <2>2. callStatus' = callStatus
    BY <2>1, Status
  <2> QED
    BY <1>0, <2>2
<1> QED
  BY <1>1, <1>2, <1>3, <1>4, <1>5, <1>6 DEF CallStep

\* A thread that settles what it holds is a Settle of the contract.
LEMMA HolderRefines ==
  ASSUME Inv, Teardown,
         \/ \E c \in Calls : TimeoutReject(c) \/ OnCloseReject(c) \/ CloseReject(c)
         \/ \E r \in Readers : ResolveResponse(r)
  PROVE  Contract!Next
<1>1. sessionPhase' = sessionPhase
  <2>1. UNCHANGED <<closed, closeDone, lpc>>
    BY DEF TimeoutReject, OnCloseReject, CloseReject, ResolveResponse, ownerVars
  <2> QED
    BY <2>1, PhaseStays
<1>2. ASSUME NEW c \in Calls, TimeoutReject(c) PROVE Contract!Next
  <2>1. Contract!Settle(c, "request timed out")
    BY <1>1, <1>2, SettleOpen DEF TimeoutReject, Outcomes
  <2> QED
    BY <2>1 DEF Contract!Next, Outcomes
<1>3. ASSUME NEW c \in Calls, OnCloseReject(c) PROVE Contract!Next
  <2>1. Contract!Settle(c, "transport closed")
    BY <1>1, <1>3, SettleOpen DEF OnCloseReject, Outcomes
  <2> QED
    BY <2>1 DEF Contract!Next, Outcomes
<1>4. ASSUME NEW c \in Calls, CloseReject(c) PROVE Contract!Next
  <2>1. sessionPhase # "up"
    BY <1>4, UpIsOpen DEF CloseReject, Teardown
  <2>2. Contract!Settle(c, "session closed")
    BY <1>1, <1>4, <2>1, SettleOpen DEF CloseReject, Outcomes
  <2> QED
    BY <2>2 DEF Contract!Next, Outcomes
<1>5. ASSUME NEW r \in Readers, ResolveResponse(r) PROVE Contract!Next
  <2>1. PICK c \in rHand[r] : fut' = Settled(c, rOutcome[r]) /\ pc' = pc
    BY <1>5 DEF ResolveResponse
  <2>2. c \in Calls /\ InReader(c)
    BY <2>1 DEF Inv, TypeOK, ReaderTypes, InReader
  <2>3. rOutcome[r] \in {"result", "error"}
    BY <1>5 DEF ResolveResponse, Inv, Hands, TypeOK, ReaderTypes
  <2>4. Contract!Settle(c, rOutcome[r])
    BY <1>1, <2>1, <2>2, <2>3, SettleOpen DEF Outcomes
  <2> QED
    BY <2>2, <2>3, <2>4 DEF Contract!Next, Outcomes
<1> QED
  BY <1>2, <1>3, <1>4, <1>5

\* The owner and the lambda move the phase of the session and no request.
LEMMA OwnerRefines ==
  ASSUME Inv, Teardown, UNCHANGED <<pc, fut>>,
         \/ OnCloseMark \/ Start \/ CloseJoin \/ \E d \in BOOLEAN : CloseBegin(d)
         \/ UNCHANGED <<closed, closeDone, lpc>>
         \/ lpc' # "destroyed" /\ lpc # "destroyed" /\ UNCHANGED <<closed, closeDone>>
  PROVE  [Contract!Next]_<<callStatus, sessionPhase>>
<1>1. callStatus' = callStatus
  BY Status
<1>2. CASE OnCloseMark \/ \E d \in BOOLEAN : CloseBegin(d)
  <2>1. closed' /\ closeDone' = closeDone /\ (lpc' = "destroyed" <=> lpc = "destroyed")
    BY <1>2 DEF OnCloseMark, CloseBegin, ownerVars
  <2>2. CASE closed
    <3>1. sessionPhase' = sessionPhase
      BY <2>1, <2>2 DEF sessionPhase
    <3> QED
      BY <1>1, <3>1
  <2>3. CASE ~closed
    <3>1. sessionPhase = "up"
      BY <2>3, UpIsOpen
    <3>2. ~closeDone /\ lpc # "destroyed"
      BY <2>3 DEF Teardown
    <3>3. sessionPhase' = "closing"
      BY <2>1, <3>2 DEF sessionPhase
    <3> QED
      BY <1>1, <3>1, <3>3 DEF Contract!Next, Contract!BeginClose
  <2> QED
    BY <2>2, <2>3
<1>3. CASE Start
  <2>1. ~closed
    BY <1>3 DEF Start, Teardown, FirstClose
  <2>2. UNCHANGED <<closed, closeDone>> /\ lpc' # "destroyed" /\ lpc # "destroyed"
    BY <1>3, <2>1 DEF Start, Inv, TypeOK, SessionTypes
  <2> QED
    BY <1>1, <2>2, PhaseStays
<1>4. CASE CloseJoin
  <2>1. /\ lpc = "join" /\ tpc = "exited" /\ closed' = closed
        /\ closeDone' \/ lpc' = "destroyed"
    BY <1>4 DEF CloseJoin
  <2>2. closed
    BY <2>1 DEF Teardown
  <2>3. sessionPhase' = "down"
    BY <2>1 DEF sessionPhase
  <2>4. CASE closeDone
    <3>1. sessionPhase = "down"
      BY <2>4 DEF sessionPhase
    <3> QED
      BY <1>1, <2>3, <3>1
  <2>5. CASE ~closeDone
    <3>1. sessionPhase = "closing"
      BY <2>1, <2>2, <2>5 DEF sessionPhase
    <3>2. \A c \in Calls : callStatus[c] # "open"
      BY <2>1, NothingOpen
    <3> QED
      BY <1>1, <2>3, <3>1, <3>2 DEF Contract!Next, Contract!CloseReturned
  <2> QED
    BY <2>4, <2>5
<1>5. CASE \/ UNCHANGED <<closed, closeDone, lpc>>
           \/ lpc' # "destroyed" /\ lpc # "destroyed" /\ UNCHANGED <<closed, closeDone>>
  BY <1>1, <1>5, PhaseStays
<1> QED
  BY <1>2, <1>3, <1>4, <1>5

\* Every step is one of the contract, or none.
LEMMA StepRefines ==
  ASSUME Inv, Teardown, [Next]_vars
  PROVE  [Contract!Next]_<<callStatus, sessionPhase>>
<1> USE DEF callVars, timerVars, readerVars, onCloseVars, workerVars, ownerVars,
            wireVars
<1>1. ASSUME NEW c \in Calls,
             \/ SendRequest(c) \/ CallStep(c) \/ DeadlinePasses(c)
             \/ \E w \in Workers : HandlerCalls(w, c)
      PROVE  [Contract!Next]_<<callStatus, sessionPhase>>
  BY <1>1, CallerRefines
<1>2. CASE \/ \E c \in Calls : TimeoutReject(c) \/ OnCloseReject(c) \/ CloseReject(c)
           \/ \E r \in Readers : ResolveResponse(r)
  BY <1>2, HolderRefines
<1>3. ASSUME \/ OnCloseMark \/ Start \/ CloseJoin
             \/ \E d \in BOOLEAN : CloseBegin(d)
      PROVE  UNCHANGED <<pc, fut>>
  BY <1>3 DEF OnCloseMark, Start, CloseJoin, CloseBegin
<1>4. ASSUME \/ TimeoutTop \/ TimeoutExpire \/ TimeoutNotified \/ TimeoutRelock
             \/ SpuriousWakeup \/ OnCloseDrain \/ OnCloseCallback
             \/ \E r \in Readers :
                  \/ \E i \in RespIds, o \in {"result", "error"} :
                       HandleResponse(r, i, o)
                  \/ HandleNotification(r) \/ ReadLoopExit(r)
                  \/ \E w \in Workers : DispatchRequest(r, w)
             \/ \E w \in Workers : WorkerDone(w)
             \/ UNCHANGED vars
      PROVE  UNCHANGED <<pc, fut, closed, closeDone, lpc>>
  BY <1>4 DEF TimeoutTop, TimeoutExpire, TimeoutNotified, TimeoutRelock,
    SpuriousWakeup, OnCloseDrain, OnCloseCallback, HandleResponse,
    HandleNotification, ReadLoopExit, DispatchRequest, WorkerDone, vars
<1>5. ASSUME \/ TransportStart \/ CloseDrain \/ CloseCancelled \/ CloseWaitWorkers
             \/ TransportClose \/ TransportJoin \/ TransportFired \/ CloseNotify
      PROVE  /\ UNCHANGED <<pc, fut, closed, closeDone>>
             /\ lpc' # "destroyed" /\ lpc # "destroyed"
  BY <1>5 DEF TransportStart, CloseDrain, CloseCancelled, CloseWaitWorkers,
    TransportClose, TransportJoin, TransportFired, CloseNotify
<1> QED
  BY <1>1, <1>2, <1>3, <1>4, <1>5, OwnerRefines DEF Next, TimeoutStep,
    OnCloseStep,
    CloseStep

\* The session keeps the contract its callers rely on, however many of them
\* there are: a request is opened only while the session is up, it gets one
\* outcome and keeps it, and none is open when close() returns.
THEOREM KeepsContract == ASSUME OneReader PROVE Spec => RefinesContract
<1>1. Init => Contract!Init
  BY Status DEF Init, Contract!Init, StatusOf, callStatus, sessionPhase
<1>2. Inv /\ Teardown /\ [Next]_vars
        => [Contract!Next]_<<callStatus, sessionPhase>>
  BY StepRefines
<1> QED
  BY <1>1, <1>2, TeardownInvariance, PTL DEF Spec, RefinesContract,
    Contract!Spec

=============================================================================
