---------------------------- MODULE HttpHostProofs ----------------------------
(***************************************************************************)
(* Theorems about HttpHost, for any sessions, POSTs and frames.              *)
(*                                                                         *)
(* A session goes through its teardown once because whoever starts one has   *)
(* taken the session out of the map; a promise is set once because a slot in *)
(* the map is an unset promise, and whoever sets it takes the slot.          *)
(***************************************************************************)
EXTENDS HttpHost, TLAPS

\* The teardown of a session starts when it leaves the map, and never again.
Teardown ==
  \A s \in Sessions :
    /\ s \in sessions \/ run[s] = "none" => td[s] = "none"
    /\ s \in sessions => run[s] # "none"
    /\ hooks[s] = IF td[s] \in {"none", "notify"} THEN 0 ELSE 1
    /\ tClosed[s] => td[s] \notin {"none", "notify", "close"}

\* Frames pass only once run() has its handlers.
Gates == \A s \in Sessions :
  gate[s] => run[s] \in {"drain", "wait", "closing", "done"}

\* A slot in the map is the unset promise of a POST to its session, and a POST
\* whose promise is unset has its slot there until it stops waiting.
Slots ==
  /\ \A s \in Sessions : \A p \in slots[s] :
       SessionOf[p] = s /\ fut[p] = "none"
  /\ \A p \in Posts :
       /\ ppc[p] \in {"idle", "slot"} => fut[p] = "absent"
       /\ ppc[p] \in {"deliver", "await"} /\ fut[p] = "none"
            => p \in slots[SessionOf[p]]

\* The frames a session has not seen are its own.
Own(s) == {p \in Posts : SessionOf[p] = s}
Queues ==
  /\ buffered \in [Sessions -> Seq(Posts)]
  /\ backlog \in [Sessions -> Seq(Posts)]
  /\ \A s \in Sessions :
       buffered[s] \in Seq(Own(s)) /\ backlog[s] \in Seq(Own(s))

HostTypes ==
  /\ listening \in BOOLEAN /\ sessions \in SUBSET Sessions
  /\ hooks \in [Sessions -> Nat]
  /\ td \in [Sessions -> {"none", "notify", "close", "drain", "on_close",
                          "join", "done"}]
  /\ spc \in {"up", "sessions", "listener", "threads", "down"}
  /\ drained \in SUBSET Sessions
SessionTypes ==
  /\ tClosed \in [Sessions -> BOOLEAN] /\ gate \in [Sessions -> BOOLEAN]
  /\ wired \in [Sessions -> BOOLEAN] /\ sClosed \in [Sessions -> BOOLEAN]
  /\ run \in [Sessions -> {"none", "new", "built", "opened", "drain", "wait",
                           "closing", "done"}]
PostTypes ==
  /\ frame \in [Posts -> Frames]
  /\ ppc \in [Posts -> {"idle", "slot", "deliver", "await", "done"}]
  /\ fut \in [Posts -> {"absent", "none", "value", "closed", "broken"}]
  /\ ans \in [Posts -> SUBSET Posts]
  /\ reply \in [Posts -> {"none", "200", "202", "404", "500", "504"}]
MapTypes ==
  /\ slots \in [Sessions -> SUBSET Posts] /\ working \in SUBSET Posts

Inv ==
  /\ HostTypes /\ SessionTypes /\ PostTypes /\ MapTypes
  /\ Teardown /\ Gates /\ DispatchedWhenReady /\ Slots /\ Queues

------------------------------------------------------------------------------
\* A step keeps the types of the host.
LEMMA HostTypesStep ==
  ASSUME Inv, [Next]_vars
  PROVE  HostTypes'
<1> USE DEF hostVars, wireVars, runVars, postVars
<1>1. ASSUME NEW p \in Posts, NEW i \in BOOLEAN,
            Post(p, i)
     PROVE HostTypes'
  BY <1>1, SessionOfAssumption DEF Post, Inv, HostTypes, SessionTypes
<1>2. ASSUME NEW s \in Sessions, InvokeSessionClosed(s) PROVE HostTypes'
  BY <1>2, SessionOfAssumption DEF InvokeSessionClosed, Inv, HostTypes,
    SessionTypes
<1>3. ASSUME NEW s \in Sessions, TransportClose(s) PROVE HostTypes'
  BY <1>3, SessionOfAssumption DEF TransportClose, Inv, HostTypes,
    SessionTypes
<1>4. ASSUME NEW s \in Sessions, TransportDrain(s) PROVE HostTypes'
  BY <1>4, SessionOfAssumption DEF TransportDrain, Inv, HostTypes,
    SessionTypes
<1>5. ASSUME NEW s \in Sessions, TransportOnClose(s) PROVE HostTypes'
  BY <1>5, SessionOfAssumption DEF TransportOnClose, Inv, HostTypes,
    SessionTypes
<1>6. ASSUME NEW s \in Sessions, JoinRun(s) PROVE HostTypes'
  BY <1>6, SessionOfAssumption DEF JoinRun, Inv, HostTypes, SessionTypes
<1>7. ASSUME NEW s \in Sessions, Delete(s) PROVE HostTypes'
  BY <1>7, SessionOfAssumption DEF Delete, Inv, HostTypes, SessionTypes
<1>8. ASSUME Stop PROVE HostTypes'
  BY <1>8, SessionOfAssumption DEF Stop, Inv, HostTypes, SessionTypes
<1>9. ASSUME HttpStop PROVE HostTypes'
  BY <1>9, SessionOfAssumption DEF HttpStop, Inv, HostTypes, SessionTypes
<1>10. ASSUME ListenerJoined PROVE HostTypes'
  BY <1>10, SessionOfAssumption DEF ListenerJoined, Inv, HostTypes,
    SessionTypes
<1>11. ASSUME StopReturned PROVE HostTypes'
  BY <1>11, SessionOfAssumption DEF StopReturned, Inv, HostTypes,
    SessionTypes
<1>12. CASE UNCHANGED <<listening, sessions, hooks, td, spc, drained>>
  BY <1>12, SessionOfAssumption DEF Inv, HostTypes, SessionTypes
<1> QED
  BY <1>1, <1>2, <1>3, <1>4, <1>5, <1>6, <1>7, <1>8, <1>9, <1>10, <1>11,
    <1>12 DEF Next, PostStep, RunStep, TeardownStep, StopStep, vars,
    RegisterSlot, Deliver, PostAnswered, PostTimeout, Respond, Construct,
    SessionStart, TransportStart, DrainFrame, Started, RunWakes, RunEnds

\* A step keeps the types of the transports and run threads.
LEMMA SessionTypesStep ==
  ASSUME Inv, [Next]_vars
  PROVE  SessionTypes'
<1> USE DEF hostVars, wireVars, runVars, postVars
<1>1. ASSUME NEW p \in Posts, NEW i \in BOOLEAN,
            Post(p, i)
     PROVE SessionTypes'
  BY <1>1, SessionOfAssumption DEF Post, Inv, SessionTypes
<1>2. ASSUME NEW s \in Sessions, Construct(s) PROVE SessionTypes'
  BY <1>2, SessionOfAssumption DEF Construct, Inv, SessionTypes
<1>3. ASSUME NEW s \in Sessions, SessionStart(s) PROVE SessionTypes'
  BY <1>3, SessionOfAssumption DEF SessionStart, Inv, SessionTypes
<1>4. ASSUME NEW s \in Sessions, TransportStart(s) PROVE SessionTypes'
  BY <1>4, SessionOfAssumption DEF TransportStart, Inv, SessionTypes
<1>5. ASSUME NEW s \in Sessions, Started(s) PROVE SessionTypes'
  BY <1>5, SessionOfAssumption DEF Started, Inv, SessionTypes
<1>6. ASSUME NEW s \in Sessions, RunWakes(s) PROVE SessionTypes'
  BY <1>6, SessionOfAssumption DEF RunWakes, Inv, SessionTypes
<1>7. ASSUME NEW s \in Sessions, RunEnds(s) PROVE SessionTypes'
  BY <1>7, SessionOfAssumption DEF RunEnds, WorkingAt, Inv, SessionTypes
<1>8. ASSUME NEW s \in Sessions, TransportClose(s) PROVE SessionTypes'
  BY <1>8, SessionOfAssumption DEF TransportClose, Inv, SessionTypes
<1>9. ASSUME NEW s \in Sessions, TransportOnClose(s) PROVE SessionTypes'
  BY <1>9, SessionOfAssumption DEF TransportOnClose, Inv, SessionTypes
<1>10. CASE UNCHANGED <<tClosed, gate, wired, sClosed, run>>
  BY <1>10, SessionOfAssumption DEF Inv, SessionTypes
<1> QED
  BY <1>1, <1>2, <1>3, <1>4, <1>5, <1>6, <1>7, <1>8, <1>9, <1>10 DEF Next,
    PostStep, RunStep, TeardownStep, StopStep, vars, RegisterSlot, Deliver,
    PostAnswered, PostTimeout, Respond, DrainFrame, InvokeSessionClosed,
    TransportDrain, JoinRun, Delete, Stop, HttpStop, ListenerJoined,
    StopReturned

\* A step keeps the types of the POSTs.
LEMMA PostTypesStep ==
  ASSUME Inv, [Next]_vars
  PROVE  PostTypes'
<1> USE DEF hostVars, wireVars, runVars, postVars
<1>1. ASSUME NEW p \in Posts, NEW i \in BOOLEAN,
            Post(p, i)
     PROVE PostTypes'
  BY <1>1 DEF Post, Inv, PostTypes
<1>2. ASSUME NEW p \in Posts, RegisterSlot(p) PROVE PostTypes'
  BY <1>2 DEF RegisterSlot, SlotFor, Inv, PostTypes
<1>3. ASSUME NEW p \in Posts, Deliver(p) PROVE PostTypes'
  BY <1>3 DEF Deliver, Dispatch, Delivered, Inv, PostTypes
<1>4. ASSUME NEW p \in Posts, PostAnswered(p) PROVE PostTypes'
  BY <1>4 DEF PostAnswered, Inv, PostTypes
<1>5. ASSUME NEW p \in Posts, PostTimeout(p) PROVE PostTypes'
  BY <1>5 DEF PostTimeout, Inv, PostTypes
<1>6. ASSUME NEW p \in Posts, Respond(p) PROVE PostTypes'
  BY <1>6 DEF Respond, SlotFor, Inv, PostTypes
<1>7. ASSUME NEW s \in Sessions, TransportDrain(s) PROVE PostTypes'
  BY <1>7 DEF TransportDrain, Inv, PostTypes
<1>8. CASE UNCHANGED <<frame, ppc, fut, ans, reply>>
  BY <1>8 DEF Inv, PostTypes
<1> QED
  BY <1>1, <1>2, <1>3, <1>4, <1>5, <1>6, <1>7, <1>8 DEF Next, PostStep,
    RunStep, TeardownStep, StopStep, vars, Construct, SessionStart,
    TransportStart, DrainFrame, Started, RunWakes, RunEnds,
    InvokeSessionClosed, TransportClose, TransportOnClose, JoinRun, Delete,
    Stop, HttpStop, ListenerJoined, StopReturned

\* A step keeps the types of the slots and workers.
LEMMA MapTypesStep ==
  ASSUME Inv, [Next]_vars
  PROVE  MapTypes'
<1> USE DEF hostVars, wireVars, runVars, postVars
<1>1. ASSUME NEW p \in Posts, RegisterSlot(p) PROVE MapTypes'
  BY <1>1, SessionOfAssumption DEF RegisterSlot, Inv, MapTypes
<1>2. ASSUME NEW p \in Posts, Deliver(p) PROVE MapTypes'
  BY <1>2, SessionOfAssumption DEF Deliver, Dispatch, Delivered, Inv,
    MapTypes, Queues
<1>3. ASSUME NEW p \in Posts, Respond(p) PROVE MapTypes'
  BY <1>3, SessionOfAssumption DEF Respond, SlotFor, Inv, MapTypes, Queues
<1>4. ASSUME NEW s \in Sessions, DrainFrame(s) PROVE MapTypes'
  BY <1>4, SessionOfAssumption DEF DrainFrame, Dispatch, Inv, MapTypes,
    Queues
<1>5. ASSUME NEW s \in Sessions, TransportDrain(s) PROVE MapTypes'
  BY <1>5, SessionOfAssumption DEF TransportDrain, Inv, MapTypes, Queues
<1>6. CASE UNCHANGED <<slots, working>>
  BY <1>6, SessionOfAssumption DEF Inv, MapTypes, Queues
<1> QED
  BY <1>1, <1>2, <1>3, <1>4, <1>5, <1>6 DEF Next, PostStep, RunStep,
    TeardownStep, StopStep, vars, Post, PostAnswered, PostTimeout, Construct,
    SessionStart, TransportStart, Started, RunWakes, RunEnds,
    InvokeSessionClosed, TransportClose, TransportOnClose, JoinRun, Delete,
    Stop, HttpStop, ListenerJoined, StopReturned

\* No step starts a second teardown of a session.
LEMMA TeardownInv ==
  ASSUME Inv, [Next]_vars
  PROVE  Teardown'
<1> USE DEF hostVars, wireVars, runVars, postVars
<1>1. ASSUME NEW p \in Posts, NEW i \in BOOLEAN,
            Post(p, i)
     PROVE Teardown'
  BY <1>1, SessionOfAssumption DEF Post, Inv, Teardown, HostTypes,
    SessionTypes
<1>2. ASSUME NEW s \in Sessions, Construct(s) PROVE Teardown'
  BY <1>2, SessionOfAssumption DEF Construct, Inv, Teardown, HostTypes,
    SessionTypes
<1>3. ASSUME NEW s \in Sessions, SessionStart(s) PROVE Teardown'
  BY <1>3, SessionOfAssumption DEF SessionStart, Inv, Teardown, HostTypes,
    SessionTypes
<1>4. ASSUME NEW s \in Sessions, TransportStart(s) PROVE Teardown'
  BY <1>4, SessionOfAssumption DEF TransportStart, Inv, Teardown, HostTypes,
    SessionTypes
<1>5. ASSUME NEW s \in Sessions, Started(s) PROVE Teardown'
  BY <1>5, SessionOfAssumption DEF Started, Inv, Teardown, HostTypes,
    SessionTypes
<1>6. ASSUME NEW s \in Sessions, RunWakes(s) PROVE Teardown'
  BY <1>6, SessionOfAssumption DEF RunWakes, Inv, Teardown, HostTypes,
    SessionTypes
<1>7. ASSUME NEW s \in Sessions, RunEnds(s) PROVE Teardown'
  BY <1>7, SessionOfAssumption DEF RunEnds, WorkingAt, Inv, Teardown,
    HostTypes, SessionTypes
<1>8. ASSUME NEW s \in Sessions, InvokeSessionClosed(s) PROVE Teardown'
  BY <1>8, SessionOfAssumption DEF InvokeSessionClosed, Inv, Teardown,
    HostTypes, SessionTypes
<1>9. ASSUME NEW s \in Sessions, TransportClose(s) PROVE Teardown'
  BY <1>9, SessionOfAssumption DEF TransportClose, Inv, Teardown, HostTypes,
    SessionTypes
<1>10. ASSUME NEW s \in Sessions, TransportDrain(s) PROVE Teardown'
  BY <1>10, SessionOfAssumption DEF TransportDrain, Inv, Teardown, HostTypes,
    SessionTypes
<1>11. ASSUME NEW s \in Sessions, TransportOnClose(s) PROVE Teardown'
  BY <1>11, SessionOfAssumption DEF TransportOnClose, Inv, Teardown,
    HostTypes, SessionTypes
<1>12. ASSUME NEW s \in Sessions, JoinRun(s) PROVE Teardown'
  BY <1>12, SessionOfAssumption DEF JoinRun, Inv, Teardown, HostTypes,
    SessionTypes
<1>13. ASSUME NEW s \in Sessions, Delete(s) PROVE Teardown'
  BY <1>13, SessionOfAssumption DEF Delete, Inv, Teardown, HostTypes,
    SessionTypes
<1>14. ASSUME Stop PROVE Teardown'
  BY <1>14, SessionOfAssumption DEF Stop, Inv, Teardown, HostTypes,
    SessionTypes
<1>15. CASE UNCHANGED <<sessions, hooks, td, tClosed, run>>
  BY <1>15, SessionOfAssumption DEF Inv, Teardown, HostTypes, SessionTypes
<1> QED
  BY <1>1, <1>2, <1>3, <1>4, <1>5, <1>6, <1>7, <1>8, <1>9, <1>10, <1>11,
    <1>12, <1>13, <1>14, <1>15 DEF Next, PostStep, RunStep, TeardownStep,
    StopStep, vars, RegisterSlot, Deliver, PostAnswered, PostTimeout,
    Respond, DrainFrame, HttpStop, ListenerJoined, StopReturned

\* A step opens the gate only when the handlers are registered.
LEMMA GatesStep ==
  ASSUME Inv, [Next]_vars
  PROVE  Gates'
<1> USE DEF hostVars, wireVars, runVars, postVars
<1>1. ASSUME NEW p \in Posts, NEW i \in BOOLEAN,
            Post(p, i)
     PROVE Gates'
  BY <1>1, SessionOfAssumption DEF Post, Inv, Gates, SessionTypes
<1>2. ASSUME NEW s \in Sessions, Construct(s) PROVE Gates'
  BY <1>2, SessionOfAssumption DEF Construct, Inv, Gates, SessionTypes
<1>3. ASSUME NEW s \in Sessions, SessionStart(s) PROVE Gates'
  BY <1>3, SessionOfAssumption DEF SessionStart, Inv, Gates, SessionTypes
<1>4. ASSUME NEW s \in Sessions, TransportStart(s) PROVE Gates'
  BY <1>4, SessionOfAssumption DEF TransportStart, Inv, Gates, SessionTypes
<1>5. ASSUME NEW s \in Sessions, Started(s) PROVE Gates'
  BY <1>5, SessionOfAssumption DEF Started, Inv, Gates, SessionTypes
<1>6. ASSUME NEW s \in Sessions, RunWakes(s) PROVE Gates'
  BY <1>6, SessionOfAssumption DEF RunWakes, Inv, Gates, SessionTypes
<1>7. ASSUME NEW s \in Sessions, RunEnds(s) PROVE Gates'
  BY <1>7, SessionOfAssumption DEF RunEnds, WorkingAt, Inv, Gates,
    SessionTypes
<1>8. CASE UNCHANGED <<gate, run>>
  BY <1>8, SessionOfAssumption DEF Inv, Gates, SessionTypes
<1> QED
  BY <1>1, <1>2, <1>3, <1>4, <1>5, <1>6, <1>7, <1>8 DEF Next, PostStep,
    RunStep, TeardownStep, StopStep, vars, RegisterSlot, Deliver,
    PostAnswered, PostTimeout, Respond, DrainFrame, InvokeSessionClosed,
    TransportClose, TransportDrain, TransportOnClose, JoinRun, Delete, Stop,
    HttpStop, ListenerJoined, StopReturned

\* A step queues a frame at its own session.
LEMMA QueuesStep ==
  ASSUME Inv, [Next]_vars
  PROVE  Queues'
<1> USE DEF hostVars, wireVars, runVars, postVars
<1>1. ASSUME NEW p \in Posts, Deliver(p) PROVE Queues'
  <2> DEFINE s == SessionOf[p]
  <2>1. s \in Sessions /\ p \in Own(s)
    BY SessionOfAssumption DEF Own
  <2>2. CASE UNCHANGED buffered
    BY <1>1, <2>2 DEF Deliver, Inv, Queues
  <2>3. CASE buffered' = [buffered EXCEPT ![s] = Append(@, p)]
    <3>1. /\ Append(buffered[s], p) \in Seq(Own(s))
          /\ Append(buffered[s], p) \in Seq(Posts)
      BY <2>1 DEF Inv, Queues
    <3> QED
      BY <1>1, <2>1, <2>3, <3>1 DEF Deliver, Inv, Queues
  <2> QED
    BY <1>1, <2>2, <2>3 DEF Deliver
<1>2. ASSUME NEW s \in Sessions, TransportStart(s) PROVE Queues'
  BY <1>2, SessionOfAssumption DEF TransportStart, Inv, Queues, Own
<1>3. ASSUME NEW s \in Sessions, DrainFrame(s) PROVE Queues'
  BY <1>3, SessionOfAssumption DEF DrainFrame, Dispatch, Inv, Queues, Own
<1>4. CASE UNCHANGED <<buffered, backlog>>
  BY <1>4, SessionOfAssumption DEF Inv, Queues, Own
<1> QED
  BY <1>1, <1>2, <1>3, <1>4 DEF Next, PostStep, RunStep, TeardownStep,
    StopStep, vars, Post, RegisterSlot, PostAnswered, PostTimeout, Respond,
    Construct, SessionStart, Started, RunWakes, RunEnds, InvokeSessionClosed,
    TransportClose, TransportDrain, TransportOnClose, JoinRun, Delete, Stop,
    HttpStop, ListenerJoined, StopReturned

\* A step dispatches frames only to a session that is ready.
LEMMA DispatchStep ==
  ASSUME Inv, [Next]_vars
  PROVE  DispatchedWhenReady'
<1> USE DEF hostVars, wireVars, runVars, postVars
<1>1. ASSUME NEW p \in Posts, NEW i \in BOOLEAN,
            Post(p, i)
     PROVE DispatchedWhenReady'
  BY <1>1, SessionOfAssumption DEF Post, Inv, DispatchedWhenReady, Gates,
    SessionTypes, MapTypes
<1>2. ASSUME NEW p \in Posts, Deliver(p) PROVE DispatchedWhenReady'
  BY <1>2, SessionOfAssumption DEF Deliver, Dispatch, Delivered, Inv,
    DispatchedWhenReady, Gates, SessionTypes, MapTypes
<1>3. ASSUME NEW p \in Posts, Respond(p) PROVE DispatchedWhenReady'
  BY <1>3, SessionOfAssumption DEF Respond, SlotFor, Inv,
    DispatchedWhenReady, Gates, SessionTypes, MapTypes
<1>4. ASSUME NEW s \in Sessions, Construct(s) PROVE DispatchedWhenReady'
  BY <1>4, SessionOfAssumption DEF Construct, Inv, DispatchedWhenReady,
    Gates, SessionTypes, MapTypes
<1>5. ASSUME NEW s \in Sessions, SessionStart(s) PROVE DispatchedWhenReady'
  BY <1>5, SessionOfAssumption DEF SessionStart, Inv, DispatchedWhenReady,
    Gates, SessionTypes, MapTypes
<1>6. ASSUME NEW s \in Sessions, TransportStart(s) PROVE DispatchedWhenReady'
  BY <1>6, SessionOfAssumption DEF TransportStart, Inv, DispatchedWhenReady,
    Gates, SessionTypes, MapTypes
<1>7. ASSUME NEW s \in Sessions, DrainFrame(s) PROVE DispatchedWhenReady'
  <2> DEFINE p == Head(backlog[s])
  <2>1. p \in Own(s)
    BY <1>7 DEF DrainFrame, Inv, Queues
  <2>2. p \in Posts /\ SessionOf[p] = s
    BY <2>1 DEF Own
  <2>3. working' \in {working, working \cup {p}}
    BY <1>7 DEF DrainFrame, Dispatch
  <2> QED
    BY <1>7, <2>2, <2>3 DEF DrainFrame, Inv, DispatchedWhenReady
<1>8. ASSUME NEW s \in Sessions, Started(s) PROVE DispatchedWhenReady'
  BY <1>8, SessionOfAssumption DEF Started, Inv, DispatchedWhenReady, Gates,
    SessionTypes, MapTypes
<1>9. ASSUME NEW s \in Sessions, RunWakes(s) PROVE DispatchedWhenReady'
  BY <1>9, SessionOfAssumption DEF RunWakes, Inv, DispatchedWhenReady, Gates,
    SessionTypes, MapTypes
<1>10. ASSUME NEW s \in Sessions, RunEnds(s) PROVE DispatchedWhenReady'
  BY <1>10, SessionOfAssumption DEF RunEnds, WorkingAt, Inv,
    DispatchedWhenReady, Gates, SessionTypes, MapTypes
<1>11. CASE UNCHANGED <<run, working>>
  BY <1>11, SessionOfAssumption DEF Inv, DispatchedWhenReady, Gates,
    SessionTypes, MapTypes
<1> QED
  BY <1>1, <1>2, <1>3, <1>4, <1>5, <1>6, <1>7, <1>8, <1>9, <1>10, <1>11 DEF
    Next, PostStep, RunStep, TeardownStep, StopStep, vars, RegisterSlot,
    PostAnswered, PostTimeout, InvokeSessionClosed, TransportClose,
    TransportDrain, TransportOnClose, JoinRun, Delete, Stop, HttpStop,
    ListenerJoined, StopReturned

\* A step takes a slot when it sets its promise.
LEMMA SlotsStep ==
  ASSUME Inv, [Next]_vars
  PROVE  Slots'
<1> USE DEF hostVars, wireVars, runVars, postVars
<1>1. ASSUME NEW p \in Posts, NEW i \in BOOLEAN,
            Post(p, i)
     PROVE Slots'
  BY <1>1, SessionOfAssumption DEF Post, Inv, Slots, PostTypes, MapTypes
<1>2. ASSUME NEW p \in Posts, RegisterSlot(p) PROVE Slots'
  <2> DEFINE s == SessionOf[p]
  <2>1. s \in Sessions
    BY SessionOfAssumption
  <2>2. CASE /\ slots' = [slots EXCEPT ![s] = @ \cup {p}]
             /\ fut' = [fut EXCEPT ![p] = "none"]
    BY <1>2, <2>1, <2>2 DEF RegisterSlot, Inv, Slots, PostTypes, MapTypes
  <2>3. CASE fut' = [fut EXCEPT ![p] = "broken"] /\ UNCHANGED slots
    <3>1. \A x \in Sessions : p \notin slots[x]
      BY <1>2 DEF RegisterSlot, Inv, Slots
    <3> QED
      BY <1>2, <2>3, <3>1 DEF RegisterSlot, Inv, Slots, PostTypes, MapTypes
  <2> QED
    BY <1>2, <2>2, <2>3 DEF RegisterSlot
<1>3. ASSUME NEW p \in Posts, Deliver(p) PROVE Slots'
  BY <1>3, SessionOfAssumption DEF Deliver, Dispatch, Delivered, Inv, Slots,
    PostTypes, MapTypes
<1>4. ASSUME NEW p \in Posts, PostAnswered(p) PROVE Slots'
  BY <1>4, SessionOfAssumption DEF PostAnswered, Inv, Slots, PostTypes,
    MapTypes
<1>5. ASSUME NEW p \in Posts, PostTimeout(p) PROVE Slots'
  BY <1>5, SessionOfAssumption DEF PostTimeout, Inv, Slots, PostTypes,
    MapTypes
<1>6. ASSUME NEW p \in Posts, Respond(p) PROVE Slots'
  BY <1>6, SessionOfAssumption DEF Respond, SlotFor, Inv, Slots, PostTypes,
    MapTypes
<1>7. ASSUME NEW s \in Sessions, TransportDrain(s) PROVE Slots'
  BY <1>7, SessionOfAssumption DEF TransportDrain, Inv, Slots, PostTypes,
    MapTypes
<1>8. CASE UNCHANGED <<slots, ppc, fut>>
  BY <1>8, SessionOfAssumption DEF Inv, Slots, PostTypes, MapTypes
<1> QED
  BY <1>1, <1>2, <1>3, <1>4, <1>5, <1>6, <1>7, <1>8 DEF Next, PostStep,
    RunStep, TeardownStep, StopStep, vars, Construct, SessionStart,
    TransportStart, DrainFrame, Started, RunWakes, RunEnds,
    InvokeSessionClosed, TransportClose, TransportOnClose, JoinRun, Delete,
    Stop, HttpStop, ListenerJoined, StopReturned

------------------------------------------------------------------------------
LEMMA InitInv == Init => Inv
<1> SUFFICES ASSUME Init PROVE Inv
  OBVIOUS
<1>1. HostTypes /\ SessionTypes /\ PostTypes /\ MapTypes
  BY DEF Init, HostTypes, SessionTypes, PostTypes, MapTypes
<1>2. Teardown /\ Gates /\ DispatchedWhenReady /\ Slots
  BY SessionOfAssumption DEF Init, Teardown, Gates, DispatchedWhenReady, Slots
<1>3. Queues
  BY DEF Init, Queues
<1> QED
  BY <1>1, <1>2, <1>3 DEF Inv

LEMMA StepInv == Inv /\ [Next]_vars => Inv'
<1> SUFFICES ASSUME Inv, [Next]_vars PROVE Inv'
  OBVIOUS
<1>1. HostTypes' /\ SessionTypes' /\ PostTypes' /\ MapTypes'
  BY HostTypesStep, SessionTypesStep, PostTypesStep, MapTypesStep
<1>2. Teardown' /\ Gates' /\ DispatchedWhenReady' /\ Slots' /\ Queues'
  BY TeardownInv, GatesStep, DispatchStep, SlotsStep, QueuesStep
<1> QED
  BY <1>1, <1>2 DEF Inv

\* The inductive invariant holds throughout.
THEOREM Invariance == Spec => []Inv
BY InitInv, StepInv, PTL DEF Spec

\* Every variable of the host keeps its type.
THEOREM TypeCorrect == Spec => []TypeOK
<1>1. Inv => TypeOK
  BY DEF Inv, TypeOK, HostTypes, SessionTypes, PostTypes, MapTypes, Queues
<1> QED
  BY <1>1, Invariance, PTL

\* on_session_closed is called at most once for a session, and before its
\* transport closes, however DELETEs and stop() race.
THEOREM HookOnce == Spec => []HookOnceBeforeClose
<1>1. Inv => HookOnceBeforeClose
  <2> SUFFICES ASSUME Inv, NEW s \in Sessions
               PROVE  hooks[s] <= 1 /\ (tClosed[s] => hooks[s] = 1)
    BY DEF HookOnceBeforeClose
  <2>1. hooks[s] = IF td[s] \in {"none", "notify"} THEN 0 ELSE 1
    BY DEF Inv, Teardown
  <2>2. tClosed[s] => td[s] \notin {"none", "notify"}
    BY DEF Inv, Teardown
  <2> QED
    BY <2>1, <2>2
<1> QED
  BY <1>1, Invariance, PTL

\* Handlers are registered before the first frame is dispatched, and no worker
\* outlives the Session.
THEOREM ReadyBeforeDispatch == Spec => []DispatchedWhenReady
<1>1. Inv => DispatchedWhenReady
  BY DEF Inv
<1> QED
  BY <1>1, Invariance, PTL

\* A POST that waits has its slot in the map.
THEOREM Reachable == Spec => []AwaiterReachable
<1>1. Inv => AwaiterReachable
  BY DEF Inv, Slots, AwaiterReachable
<1> QED
  BY <1>1, Invariance, PTL

\* The response, the teardown and the loss of a taken id exclude each other: a
\* promise that is set is never set again.
THEOREM SetOnce == Spec => PromiseSetOnce
<1>1. Inv /\ [Next]_vars =>
        [\A p \in Posts : fut[p] \notin {"absent", "none"} =>
           fut'[p] = fut[p] /\ ans'[p] = ans[p]]_vars
  <2> SUFFICES ASSUME Inv, Next, NEW q \in Posts,
                      fut[q] \notin {"absent", "none"}
               PROVE  fut'[q] = fut[q] /\ ans'[q] = ans[q]
    OBVIOUS
  <2> USE DEF hostVars, wireVars, runVars, postVars
  <2>1. ASSUME NEW p \in Posts, RegisterSlot(p)
        PROVE  fut'[q] = fut[q] /\ ans'[q] = ans[q]
    BY <2>1 DEF RegisterSlot, Inv, Slots, PostTypes
  <2>2. ASSUME NEW p \in Posts, Respond(p)
        PROVE  fut'[q] = fut[q] /\ ans'[q] = ans[q]
    <3>1. SessionOf[p] \in Sessions
      BY SessionOfAssumption
    <3>2. q \notin SlotFor(SessionOf[p], Response(frame[p]))
      BY <3>1 DEF SlotFor, Inv, Slots
    <3> QED
      BY <2>2, <3>2 DEF Respond
  <2>3. ASSUME NEW s \in Sessions, TransportDrain(s)
        PROVE  fut'[q] = fut[q] /\ ans'[q] = ans[q]
    BY <2>3 DEF TransportDrain, Inv, Slots
  <2>4. CASE UNCHANGED <<fut, ans>>
    BY <2>4
  <2> QED
    BY <2>1, <2>2, <2>3, <2>4 DEF Next, PostStep, RunStep, TeardownStep,
       StopStep, Post, Deliver, PostAnswered, PostTimeout, Construct,
       SessionStart, TransportStart, DrainFrame, Started, RunWakes, RunEnds,
       InvokeSessionClosed, TransportClose, TransportOnClose, JoinRun, Delete,
       Stop, HttpStop, ListenerJoined, StopReturned
<1> QED
  BY <1>1, Invariance, PTL DEF Spec, PromiseSetOnce

------------------------------------------------------------------------------
(* The frames *)

\* An answer finds no slot but that of a POST with its id.
LEMMA SlotOfSameId ==
  ASSUME NEW s \in Sessions, NEW f, NEW q \in SlotFor(s, Response(f))
  PROVE  RequestIdOf(frame[q]) = RequestIdOf(f)
<1>1. CanonicalId(frame[q]) = CanonicalId(Response(f))
  BY DEF SlotFor
<1>2. CASE f.form = "string"
  <2>1. CanonicalId(Response(f)) = <<"s:", f.id>>
    BY <1>2 DEF CanonicalId, Response, RequestIdOf
  <2> QED
    BY <1>1, <1>2, <2>1 DEF CanonicalId, RequestIdOf
<1>3. CASE f.form # "string"
  <2>1. CanonicalId(Response(f)) = <<"i:", f.id>>
    BY <1>3 DEF CanonicalId, Response, RequestIdOf
  <2> QED
    BY <1>1, <1>3, <2>1 DEF CanonicalId, RequestIdOf
<1> QED
  BY <1>2, <1>3

LEMMA KindStep ==
  ASSUME Inv, AnsweredInKind, [Next]_vars
  PROVE  AnsweredInKind'
<1> USE DEF hostVars, wireVars, runVars, postVars
<1>1. frame' = frame
  BY DEF Next, vars, Post, PostStep, RunStep, TeardownStep, StopStep,
    RegisterSlot, Deliver, PostAnswered, PostTimeout, Respond, Construct,
    SessionStart, TransportStart, DrainFrame, Started, RunWakes, RunEnds,
    InvokeSessionClosed, TransportClose, TransportDrain, TransportOnClose,
    JoinRun, Delete, Stop, HttpStop, ListenerJoined, StopReturned
<1>2. ASSUME NEW p \in Posts, Respond(p) PROVE AnsweredInKind'
  <2> SUFFICES ASSUME NEW q \in Posts, NEW r \in ans'[q]
               PROVE  RequestIdOf(frame[r]) = RequestIdOf(frame[q])
    BY <1>1 DEF AnsweredInKind
  <2>1. SessionOf[p] \in Sessions
    BY SessionOfAssumption
  <2>2. CASE q \in SlotFor(SessionOf[p], Response(frame[p]))
    <3>1. RequestIdOf(frame[q]) = RequestIdOf(frame[p])
      BY <2>1, <2>2, SlotOfSameId
    <3>2. ans'[q] \in {{p}, ans[q]}
      BY <1>2 DEF Respond
    <3> QED
      BY <3>1, <3>2 DEF AnsweredInKind
  <2>3. CASE q \notin SlotFor(SessionOf[p], Response(frame[p]))
    <3>1. ans'[q] = ans[q]
      BY <1>2, <2>3 DEF Respond
    <3> QED
      BY <3>1 DEF AnsweredInKind
  <2> QED
    BY <2>2, <2>3
<1>3. CASE UNCHANGED ans
  BY <1>1, <1>3 DEF AnsweredInKind
<1> QED
  BY <1>2, <1>3 DEF Next, vars, Post, PostStep, RunStep, TeardownStep,
    StopStep, RegisterSlot, Deliver, PostAnswered, PostTimeout, Construct,
    SessionStart, TransportStart, DrainFrame, Started, RunWakes, RunEnds,
    InvokeSessionClosed, TransportClose, TransportDrain, TransportOnClose,
    JoinRun, Delete, Stop, HttpStop, ListenerJoined, StopReturned

\* A POST is never answered with the response to a request of another id, and
\* in particular the integer 5 and the string "5" are not mixed up.
THEOREM OwnAnswer == Spec => []AnsweredInKind
<1>1. Init => AnsweredInKind
  BY DEF Init, AnsweredInKind
<1> QED
  BY <1>1, KindStep, Invariance, PTL DEF Spec

\* A POST has a future exactly if it carries a request, as the host sees it.
Unawaited ==
  \A p \in Posts :
    /\ (ppc[p] = "deliver" /\ fut[p] = "absent") \/ reply[p] = "202"
         => ~IsRequest(frame[p])
    /\ (ppc[p] = "deliver" /\ fut[p] # "absent") \/ ppc[p] \in {"slot", "await"}
         => IsRequest(frame[p])

\* What the Session takes for a request, the host does; and of the frames that
\* the Session can read, only these.
LEMMA RequestIsRequest ==
  ASSUME NEW f
  PROVE  /\ IsJsonRpcRequest(f) => IsRequest(f)
         /\ IsRequest(f) /\ Parses(f) => IsJsonRpcRequest(f)
BY DEF IsJsonRpcRequest, IsRequest, HasRequestId, Parses, IsJsonRpcNotification,
  IsJsonRpcResponse

LEMMA UnawaitedStep ==
  ASSUME Inv, Unawaited, [Next]_vars
  PROVE  Unawaited'
<1> USE DEF hostVars, wireVars, runVars, postVars
<1>1. ASSUME NEW p \in Posts, NEW i \in BOOLEAN, Post(p, i)
      PROVE Unawaited'
  BY <1>1 DEF Post, Unawaited, Inv, PostTypes, Slots
<1>2. ASSUME NEW p \in Posts, RegisterSlot(p) PROVE Unawaited'
  BY <1>2 DEF RegisterSlot, Unawaited, Inv, PostTypes, Slots
<1>3. ASSUME NEW p \in Posts, Deliver(p) PROVE Unawaited'
  BY <1>3 DEF Deliver, Delivered, Unawaited, Inv, PostTypes
<1>4. ASSUME NEW p \in Posts, PostAnswered(p) \/ PostTimeout(p)
      PROVE Unawaited'
  BY <1>4 DEF PostAnswered, PostTimeout, Unawaited, Inv, PostTypes
<1>5. ASSUME NEW p \in Posts, Respond(p) PROVE Unawaited'
  BY <1>5, SessionOfAssumption DEF Respond, SlotFor, Unawaited, Inv, PostTypes,
    Slots
<1>6. ASSUME NEW s \in Sessions, TransportDrain(s) PROVE Unawaited'
  BY <1>6 DEF TransportDrain, Unawaited, Inv, PostTypes, Slots
<1>7. CASE UNCHANGED <<frame, ppc, fut, reply>>
  BY <1>7 DEF Unawaited
<1> QED
  BY <1>1, <1>2, <1>3, <1>4, <1>5, <1>6, <1>7 DEF Next, PostStep,
    RunStep, TeardownStep, StopStep, vars, Construct, SessionStart,
    TransportStart, DrainFrame, Started, RunWakes, RunEnds,
    InvokeSessionClosed, TransportClose, TransportOnClose, JoinRun, Delete,
    Stop, HttpStop, ListenerJoined, StopReturned

\* A frame that a handler gets as a request is never answered 202, and no POST
\* waits for the answer to a frame that the Session reads as something else.
THEOREM SameReading == Spec => []ReadAlike
<1>1. Init => Unawaited
  BY DEF Init, Unawaited
<1>2. Unawaited => ReadAlike
  BY RequestIsRequest DEF Unawaited, ReadAlike
<1> QED
  BY <1>1, <1>2, UnawaitedStep, Invariance, PTL DEF Spec
=============================================================================
