--------------------------- MODULE TaskStoreProofs ---------------------------
(***************************************************************************)
(* Theorems about TaskStore, for any finite set of tasks, any waiters and     *)
(* any cap.                                                                  *)
(*                                                                         *)
(* A task's entry follows the thread that made it: it exists once create()   *)
(* has run, its worker once worker_started() has, and whoever moves it out   *)
(* of "working" is the only thread left with a terminal notification to      *)
(* send.                                                                    *)
(***************************************************************************)
EXTENDS TaskStore, FiniteSetTheorems, TLAPS

\* How far a task is, as its handler, its worker and its canceller see it.
Life(t) ==
  /\ hpc[t] \in {"idle", "admitted", "refused"} <=> status[t] = "none"
  /\ hpc[t] # "replied" => wk[t] = "off"
  /\ wk[t] \in {"notify", "announce", "finish", "done"} => status[t] \in Terminal
  /\ cpc[t] # "idle" => status[t] = "cancelled"
  /\ cancelled[t] => status[t] = "cancelled"
  /\ result[t] <=> status[t] = "completed"
  /\ ~(wk[t] \in {"notify", "announce"} /\ cpc[t] # "idle")

\* A terminal notification follows the transition and ends the announcing.
Notes(t) ==
  \A i \in 1 .. Len(notes[t]) : notes[t][i] \in Terminal =>
    /\ notes[t][i] = status[t]
    /\ wk[t] \notin {"notify", "announce"} /\ cpc[t] = "idle"
    /\ \A j \in 1 .. Len(notes[t]) : notes[t][j] \in Terminal => i = j

\* workers_inflight_ is the number of live workers.
Counted == inflight = Cardinality(LiveWorkers)

\* The session's handlers are gone when ~Server shuts the store down.
ShutDown ==
  /\ spc # "up" => \A t \in Tasks : hpc[t] \in {"idle", "replied", "refused"}
  /\ spc = "down" => LiveWorkers = {}

\* tasks/result never finds a completed task without its payload.
Answered == \A w \in Waiters : answer[w] # "no payload"

\* The types of everything but the counter, whose type needs Counted.
Types ==
  /\ status \in [Tasks -> Terminal \cup {"none", "working"}]
  /\ result \in [Tasks -> BOOLEAN] /\ cancelled \in [Tasks -> BOOLEAN]
  /\ hpc \in [Tasks -> {"idle", "admitted", "announce", "start", "replied",
                        "refused"}]
  /\ wk \in [Tasks -> {"off", "run", "notify", "announce", "finish", "done"}]
  /\ cpc \in [Tasks -> {"idle", "notify", "announce"}]
WaiterTypes ==
  /\ qpc \in [Waiters -> {"idle", "check", "blocked", "done"}]
  /\ target \in [Waiters -> SUBSET Tasks]
  /\ answer \in [Waiters -> Answers \cup {"none"}]
RestTypes ==
  /\ shutting \in BOOLEAN
  /\ spc \in {"up", "notify", "wait", "down"}
NoteTypes == notes \in [Tasks -> Seq(Terminal \cup {"working"})]

Inv ==
  /\ Types /\ WaiterTypes /\ RestTypes /\ NoteTypes
  /\ \A t \in Tasks : Life(t) /\ Notes(t)
  /\ Counted /\ ShutDown /\ Answered

------------------------------------------------------------------------------
\* A step keeps the types of the entries and of the threads.
LEMMA TypesStep ==
  ASSUME Inv, [Next]_vars
  PROVE  Types'
<1> USE DEF storeVars, waiterVars
<1>1. ASSUME NEW t \in Tasks, CallTool(t) PROVE Types'
  BY <1>1 DEF CallTool, Serving, AtCap, Inv, Types, Terminal
<1>2. ASSUME NEW t \in Tasks, Create(t) PROVE Types'
  BY <1>2 DEF Create, Touch, Inv, Types, Terminal
<1>3. ASSUME NEW t \in Tasks, CreateAnnounce(t) PROVE Types'
  BY <1>3 DEF CreateAnnounce, Announce, Inv, Types, Terminal
<1>4. ASSUME NEW t \in Tasks, WorkerStarted(t) PROVE Types'
  BY <1>4 DEF WorkerStarted, Inv, Types, Terminal
<1>5. ASSUME NEW t \in Tasks, Complete(t) PROVE Types'
  <2> Types
    BY DEF Inv
  <2>1. UNCHANGED <<cancelled, hpc, cpc>>
    BY <1>5 DEF Complete
  <2>2. wk' \in [Tasks -> {"off", "run", "notify", "announce", "finish", "done"}]
    BY <1>5 DEF Complete, Types
  <2>3. status' \in [Tasks -> Terminal \cup {"none", "working"}]
    BY <1>5 DEF Complete, Touch, Types, Terminal
  <2>4. result' \in [Tasks -> BOOLEAN]
    BY <1>5, Zenon DEF Complete, Types
  <2> QED
    BY <2>1, <2>2, <2>3, <2>4 DEF Types
<1>6. ASSUME NEW t \in Tasks, Fail(t) PROVE Types'
  BY <1>6 DEF Fail, Touch, Exists, IsTerminal, Inv, Types, Terminal
<1>7. ASSUME NEW t \in Tasks, WorkerNotify(t) PROVE Types'
  BY <1>7 DEF WorkerNotify, NotifyAll, Inv, Types, Terminal
<1>8. ASSUME NEW t \in Tasks, WorkerAnnounce(t) PROVE Types'
  BY <1>8 DEF WorkerAnnounce, Announce, Inv, Types, Terminal
<1>9. ASSUME NEW t \in Tasks, WorkerFinished(t) PROVE Types'
  BY <1>9 DEF WorkerFinished, Inv, Types, Terminal
<1>10. ASSUME NEW t \in Tasks, Cancel(t) PROVE Types'
  BY <1>10 DEF Cancel, Serving, Exists, IsTerminal, Touch, Inv, Types,
    Terminal
<1>11. ASSUME NEW t \in Tasks, CancelNotify(t) PROVE Types'
  BY <1>11 DEF CancelNotify, NotifyAll, Inv, Types, Terminal
<1>12. ASSUME NEW t \in Tasks, CancelAnnounce(t) PROVE Types'
  BY <1>12 DEF CancelAnnounce, Announce, Inv, Types, Terminal
<1>13. CASE UNCHANGED <<status, result, cancelled, hpc, wk, cpc>>
  BY <1>13 DEF Inv, Types, Terminal
<1> QED
  BY <1>1, <1>2, <1>3, <1>4, <1>5, <1>6, <1>7, <1>8, <1>9, <1>10, <1>11,
    <1>12, <1>13 DEF Next, HandlerStep, WorkerStep, CancelStep, vars,
    GetTaskResult, WaitResult, WaitTimeout, Shutdown,
    ShutdownNotify, ShutdownWait

\* A step keeps the types of the waiters.
LEMMA WaiterTypesStep ==
  ASSUME Inv, [Next]_vars
  PROVE  WaiterTypes'
<1> USE DEF storeVars, waiterVars
<1>1. ASSUME NEW t \in Tasks, WorkerNotify(t) PROVE WaiterTypes'
  BY <1>1 DEF WorkerNotify, NotifyAll, Inv, WaiterTypes, Answers
<1>2. ASSUME NEW t \in Tasks, CancelNotify(t) PROVE WaiterTypes'
  BY <1>2 DEF CancelNotify, NotifyAll, Inv, WaiterTypes, Answers
<1>3. ASSUME NEW w \in Waiters, NEW t \in Tasks, GetTaskResult(w, t)
     PROVE  WaiterTypes'
  BY <1>3 DEF GetTaskResult, Inv, WaiterTypes, Answers
<1>4. ASSUME NEW w \in Waiters, WaitResult(w) PROVE WaiterTypes'
  BY <1>4 DEF WaitResult, AnswerFor, Inv, WaiterTypes, Answers
<1>5. ASSUME NEW w \in Waiters, WaitTimeout(w) PROVE WaiterTypes'
  BY <1>5 DEF WaitTimeout, AnswerFor, Inv, WaiterTypes, Answers
<1>6. ASSUME ShutdownNotify PROVE WaiterTypes'
  BY <1>6 DEF ShutdownNotify, NotifyAll, Inv, WaiterTypes, Answers
<1>7. CASE UNCHANGED <<qpc, target, answer>>
  BY <1>7 DEF Inv, WaiterTypes, Answers
<1> QED
  BY <1>1, <1>2, <1>3, <1>4, <1>5, <1>6, <1>7 DEF Next, HandlerStep,
    WorkerStep, CancelStep, vars, CallTool, Create, CreateAnnounce,
    WorkerStarted, Complete, Fail, WorkerAnnounce, WorkerFinished, Cancel,
    CancelAnnounce, Shutdown, ShutdownWait

\* A step keeps the types of the shutdown.
LEMMA RestTypesStep ==
  ASSUME Inv, [Next]_vars
  PROVE  RestTypes'
<1> USE DEF storeVars, waiterVars
<1>1. ASSUME Shutdown PROVE RestTypes'
  BY <1>1 DEF Shutdown, HandlersReturned, Inv, RestTypes
<1>2. ASSUME ShutdownNotify PROVE RestTypes'
  BY <1>2 DEF ShutdownNotify, NotifyAll, Inv, RestTypes
<1>3. ASSUME ShutdownWait PROVE RestTypes'
  BY <1>3 DEF ShutdownWait, Inv, RestTypes
<1>4. CASE UNCHANGED <<shutting, spc>>
  BY <1>4 DEF Inv, RestTypes
<1> QED
  BY <1>1, <1>2, <1>3, <1>4 DEF Next, HandlerStep, WorkerStep,
    CancelStep, vars, CallTool, Create, CreateAnnounce, WorkerStarted,
    Complete, Fail, WorkerNotify, WorkerAnnounce, WorkerFinished, Cancel,
    CancelNotify, CancelAnnounce, GetTaskResult, WaitResult, WaitTimeout

\* A step keeps the type of the notifications.
LEMMA NoteTypesStep ==
  ASSUME Inv, [Next]_vars
  PROVE  NoteTypes'
<1> USE DEF storeVars, waiterVars
<1>1. ASSUME NEW t \in Tasks, CreateAnnounce(t) PROVE NoteTypes'
  BY <1>1 DEF CreateAnnounce, Announce, Inv, NoteTypes, Terminal
<1>2. ASSUME NEW t \in Tasks, WorkerAnnounce(t) PROVE NoteTypes'
  <2>1. status[t] \in Terminal
    BY <1>2 DEF WorkerAnnounce, Inv, Life
  <2> QED
    BY <1>2, <2>1 DEF WorkerAnnounce, Announce, Inv, NoteTypes, Terminal
<1>3. ASSUME NEW t \in Tasks, CancelAnnounce(t) PROVE NoteTypes'
  BY <1>3 DEF CancelAnnounce, Announce, Inv, NoteTypes, Terminal
<1>4. CASE UNCHANGED <<notes>>
  BY <1>4 DEF Inv, NoteTypes, Terminal
<1> QED
  BY <1>1, <1>2, <1>3, <1>4 DEF Next, HandlerStep, WorkerStep, CancelStep,
    vars, CallTool, Create, WorkerStarted, Complete, Fail, WorkerNotify,
    WorkerFinished, Cancel, CancelNotify, GetTaskResult,
    WaitResult, WaitTimeout, Shutdown, ShutdownNotify, ShutdownWait

\* A step takes every task from one consistent stage to the next.
LEMMA LifeStep ==
  ASSUME Inv, [Next]_vars
  PROVE  (\A u \in Tasks : Life(u))'
<1> USE DEF storeVars, waiterVars
<1>1. ASSUME NEW t \in Tasks, CallTool(t) PROVE (\A u \in Tasks : Life(u))'
  <2> SUFFICES ASSUME NEW u \in Tasks PROVE Life(u)'
    OBVIOUS
  <2>1. Life(u) /\ Life(t) /\ Types
    BY DEF Inv
  <2>2. CASE u = t
    BY <1>1, <2>1, <2>2 DEF CallTool, Serving, AtCap, Life, Types, Terminal
  <2>3. CASE u # t
    BY <1>1, <2>1, <2>3 DEF CallTool, Serving, AtCap, Life, Types
  <2> QED BY <2>2, <2>3
<1>2. ASSUME NEW t \in Tasks, Create(t) PROVE (\A u \in Tasks : Life(u))'
  <2> SUFFICES ASSUME NEW u \in Tasks PROVE Life(u)'
    OBVIOUS
  <2>1. Life(u) /\ Life(t) /\ Types
    BY DEF Inv
  <2>2. CASE u = t
    BY <1>2, <2>1, <2>2 DEF Create, Touch, Life, Types, Terminal
  <2>3. CASE u # t
    BY <1>2, <2>1, <2>3 DEF Create, Touch, Life, Types
  <2> QED BY <2>2, <2>3
<1>3. ASSUME NEW t \in Tasks, CreateAnnounce(t)
     PROVE  (\A u \in Tasks : Life(u))'
  <2> SUFFICES ASSUME NEW u \in Tasks PROVE Life(u)'
    OBVIOUS
  <2>1. Life(u) /\ Life(t) /\ Types
    BY DEF Inv
  <2>2. CASE u = t
    BY <1>3, <2>1, <2>2 DEF CreateAnnounce, Announce, Life, Types, Terminal
  <2>3. CASE u # t
    BY <1>3, <2>1, <2>3 DEF CreateAnnounce, Announce, Life, Types
  <2> QED BY <2>2, <2>3
<1>4. ASSUME NEW t \in Tasks, WorkerStarted(t)
     PROVE  (\A u \in Tasks : Life(u))'
  <2> SUFFICES ASSUME NEW u \in Tasks PROVE Life(u)'
    OBVIOUS
  <2>1. Life(u) /\ Life(t) /\ Types
    BY DEF Inv
  <2>2. CASE u = t
    BY <1>4, <2>1, <2>2 DEF WorkerStarted, Life, Types, Terminal
  <2>3. CASE u # t
    BY <1>4, <2>1, <2>3 DEF WorkerStarted, Life, Types
  <2> QED BY <2>2, <2>3
<1>5. ASSUME NEW t \in Tasks, Complete(t) PROVE (\A u \in Tasks : Life(u))'
  <2> SUFFICES ASSUME NEW u \in Tasks PROVE Life(u)'
    OBVIOUS
  <2>1. Life(u) /\ Life(t) /\ Types
    BY DEF Inv
  <2>2. CASE u = t
    BY <1>5, <2>1, <2>2 DEF Complete, Touch, Exists, IsTerminal, Life, Types,
      Terminal
  <2>3. CASE u # t
    BY <1>5, <2>1, <2>3 DEF Complete, Touch, Exists, IsTerminal, Life, Types
  <2> QED BY <2>2, <2>3
<1>6. ASSUME NEW t \in Tasks, Fail(t) PROVE (\A u \in Tasks : Life(u))'
  <2> SUFFICES ASSUME NEW u \in Tasks PROVE Life(u)'
    OBVIOUS
  <2>1. Life(u) /\ Life(t) /\ Types
    BY DEF Inv
  <2>2. CASE u = t
    BY <1>6, <2>1, <2>2 DEF Fail, Touch, Exists, IsTerminal, Life, Types,
      Terminal
  <2>3. CASE u # t
    BY <1>6, <2>1, <2>3 DEF Fail, Touch, Exists, IsTerminal, Life, Types
  <2> QED BY <2>2, <2>3
<1>7. ASSUME NEW t \in Tasks, WorkerNotify(t)
     PROVE  (\A u \in Tasks : Life(u))'
  <2> SUFFICES ASSUME NEW u \in Tasks PROVE Life(u)'
    OBVIOUS
  <2>1. Life(u) /\ Life(t) /\ Types
    BY DEF Inv
  <2>2. CASE u = t
    BY <1>7, <2>1, <2>2 DEF WorkerNotify, NotifyAll, Life, Types, Terminal
  <2>3. CASE u # t
    BY <1>7, <2>1, <2>3 DEF WorkerNotify, NotifyAll, Life, Types
  <2> QED BY <2>2, <2>3
<1>8. ASSUME NEW t \in Tasks, WorkerAnnounce(t)
     PROVE  (\A u \in Tasks : Life(u))'
  <2> SUFFICES ASSUME NEW u \in Tasks PROVE Life(u)'
    OBVIOUS
  <2>1. Life(u) /\ Life(t) /\ Types
    BY DEF Inv
  <2>2. CASE u = t
    BY <1>8, <2>1, <2>2 DEF WorkerAnnounce, Announce, Life, Types, Terminal
  <2>3. CASE u # t
    BY <1>8, <2>1, <2>3 DEF WorkerAnnounce, Announce, Life, Types
  <2> QED BY <2>2, <2>3
<1>9. ASSUME NEW t \in Tasks, WorkerFinished(t)
     PROVE  (\A u \in Tasks : Life(u))'
  <2> SUFFICES ASSUME NEW u \in Tasks PROVE Life(u)'
    OBVIOUS
  <2>1. Life(u) /\ Life(t) /\ Types
    BY DEF Inv
  <2>2. CASE u = t
    BY <1>9, <2>1, <2>2 DEF WorkerFinished, Life, Types, Terminal
  <2>3. CASE u # t
    BY <1>9, <2>1, <2>3 DEF WorkerFinished, Life, Types
  <2> QED BY <2>2, <2>3
<1>10. ASSUME NEW t \in Tasks, Cancel(t) PROVE (\A u \in Tasks : Life(u))'
  <2> SUFFICES ASSUME NEW u \in Tasks PROVE Life(u)'
    OBVIOUS
  <2>1. Life(u) /\ Life(t) /\ Types
    BY DEF Inv
  <2>2. CASE u = t
    BY <1>10, <2>1, <2>2 DEF Cancel, Serving, Exists, IsTerminal, Touch, Life,
      Types, Terminal
  <2>3. CASE u # t
    BY <1>10, <2>1, <2>3 DEF Cancel, Serving, Exists, IsTerminal, Touch, Life,
      Types
  <2> QED BY <2>2, <2>3
<1>11. ASSUME NEW t \in Tasks, CancelNotify(t)
     PROVE  (\A u \in Tasks : Life(u))'
  <2> SUFFICES ASSUME NEW u \in Tasks PROVE Life(u)'
    OBVIOUS
  <2>1. Life(u) /\ Life(t) /\ Types
    BY DEF Inv
  <2>2. CASE u = t
    BY <1>11, <2>1, <2>2 DEF CancelNotify, NotifyAll, Life, Types, Terminal
  <2>3. CASE u # t
    BY <1>11, <2>1, <2>3 DEF CancelNotify, NotifyAll, Life, Types
  <2> QED BY <2>2, <2>3
<1>12. ASSUME NEW t \in Tasks, CancelAnnounce(t)
     PROVE  (\A u \in Tasks : Life(u))'
  <2> SUFFICES ASSUME NEW u \in Tasks PROVE Life(u)'
    OBVIOUS
  <2>1. Life(u) /\ Life(t) /\ Types
    BY DEF Inv
  <2>2. CASE u = t
    BY <1>12, <2>1, <2>2 DEF CancelAnnounce, Announce, Life, Types, Terminal
  <2>3. CASE u # t
    BY <1>12, <2>1, <2>3 DEF CancelAnnounce, Announce, Life, Types
  <2> QED BY <2>2, <2>3
<1>13. CASE UNCHANGED <<status, result, cancelled, hpc, wk, cpc>>
  BY <1>13 DEF Inv, Life
<1> QED
  BY <1>1, <1>2, <1>3, <1>4, <1>5, <1>6, <1>7, <1>8, <1>9, <1>10, <1>11,
    <1>12, <1>13 DEF Next, HandlerStep, WorkerStep, CancelStep, vars,
    GetTaskResult, WaitResult, WaitTimeout, Shutdown,
    ShutdownNotify, ShutdownWait

\* A step announces a terminal status at most once, after it is reached.
LEMMA NotesStep ==
  ASSUME Inv, [Next]_vars
  PROVE  (\A u \in Tasks : Notes(u))'
<1> USE DEF storeVars, waiterVars
<1>1. ASSUME NEW t \in Tasks, Create(t) PROVE (\A u \in Tasks : Notes(u))'
  <2> SUFFICES ASSUME NEW u \in Tasks PROVE Notes(u)'
    OBVIOUS
  <2>1. Life(u) /\ Life(t) /\ Notes(u) /\ Types
    BY DEF Inv
  <2> QED
    BY <1>1, <2>1 DEF Create, Touch, Notes, Life, Types, Terminal
<1>2. ASSUME NEW t \in Tasks, CreateAnnounce(t)
     PROVE  (\A u \in Tasks : Notes(u))'
  <2> SUFFICES ASSUME NEW u \in Tasks PROVE Notes(u)'
    OBVIOUS
  <2>1. Life(u) /\ Life(t) /\ Notes(u) /\ Types /\ NoteTypes
    BY DEF Inv
  <2>2. CASE u # t
    <3>1. notes'[u] = notes[u]
      BY <1>2, <2>1, <2>2 DEF CreateAnnounce, Announce, NoteTypes
    <3> QED
      BY <1>2, <2>1, <2>2, <3>1 DEF CreateAnnounce, Notes, Types
  <2>3. CASE u = t
    <3>1. /\ notes[t] \in Seq(Terminal \cup {"working"})
          /\ notes'[t] = Append(notes[t], "working")
          /\ UNCHANGED status
      BY <1>2, <2>1 DEF CreateAnnounce, Announce, NoteTypes
    <3>2. /\ Len(notes'[t]) = Len(notes[t]) + 1
          /\ notes'[t][Len(notes[t]) + 1] = "working"
          /\ \A i \in 1 .. Len(notes[t]) : notes'[t][i] = notes[t][i]
      BY <3>1
    <3> QED
      BY <1>2, <2>1, <2>3, <3>1, <3>2 DEF CreateAnnounce, Notes, Life, Types, Terminal
  <2> QED BY <2>2, <2>3
<1>3. ASSUME NEW t \in Tasks, WorkerStarted(t)
     PROVE  (\A u \in Tasks : Notes(u))'
  <2> SUFFICES ASSUME NEW u \in Tasks PROVE Notes(u)'
    OBVIOUS
  <2>1. Life(u) /\ Life(t) /\ Notes(u) /\ Types
    BY DEF Inv
  <2> QED
    BY <1>3, <2>1 DEF WorkerStarted, Notes, Life, Types, Terminal
<1>4. ASSUME NEW t \in Tasks, Complete(t) PROVE (\A u \in Tasks : Notes(u))'
  <2> SUFFICES ASSUME NEW u \in Tasks PROVE Notes(u)'
    OBVIOUS
  <2>1. Life(u) /\ Life(t) /\ Notes(u) /\ Types
    BY DEF Inv
  <2> QED
    BY <1>4, <2>1 DEF Complete, Touch, Exists, IsTerminal, Notes, Life, Types,
      Terminal
<1>5. ASSUME NEW t \in Tasks, Fail(t) PROVE (\A u \in Tasks : Notes(u))'
  <2> SUFFICES ASSUME NEW u \in Tasks PROVE Notes(u)'
    OBVIOUS
  <2>1. Life(u) /\ Life(t) /\ Notes(u) /\ Types
    BY DEF Inv
  <2> QED
    BY <1>5, <2>1 DEF Fail, Touch, Exists, IsTerminal, Notes, Life, Types,
      Terminal
<1>6. ASSUME NEW t \in Tasks, WorkerNotify(t)
     PROVE  (\A u \in Tasks : Notes(u))'
  <2> SUFFICES ASSUME NEW u \in Tasks PROVE Notes(u)'
    OBVIOUS
  <2>1. Life(u) /\ Life(t) /\ Notes(u) /\ Types
    BY DEF Inv
  <2> QED
    BY <1>6, <2>1 DEF WorkerNotify, NotifyAll, Notes, Life, Types, Terminal
<1>7. ASSUME NEW t \in Tasks, WorkerAnnounce(t)
     PROVE  (\A u \in Tasks : Notes(u))'
  <2> SUFFICES ASSUME NEW u \in Tasks PROVE Notes(u)'
    OBVIOUS
  <2>1. Life(u) /\ Life(t) /\ Notes(u) /\ Types /\ NoteTypes
    BY DEF Inv
  <2>2. CASE u # t
    <3>1. notes'[u] = notes[u]
      BY <1>7, <2>1, <2>2 DEF WorkerAnnounce, Announce, NoteTypes
    <3> QED
      BY <1>7, <2>1, <2>2, <3>1 DEF WorkerAnnounce, Notes, Types
  <2>3. CASE u = t
    <3>1. /\ notes[t] \in Seq(Terminal \cup {"working"})
          /\ notes'[t] = Append(notes[t], status[t])
          /\ UNCHANGED status
      BY <1>7, <2>1 DEF WorkerAnnounce, Announce, NoteTypes
    <3>2. /\ Len(notes'[t]) = Len(notes[t]) + 1
          /\ notes'[t][Len(notes[t]) + 1] = status[t]
          /\ \A i \in 1 .. Len(notes[t]) : notes'[t][i] = notes[t][i]
      BY <3>1
    <3> QED
      BY <1>7, <2>1, <2>3, <3>1, <3>2 DEF WorkerAnnounce, Notes, Life, Types, Terminal
  <2> QED BY <2>2, <2>3
<1>8. ASSUME NEW t \in Tasks, WorkerFinished(t)
     PROVE  (\A u \in Tasks : Notes(u))'
  <2> SUFFICES ASSUME NEW u \in Tasks PROVE Notes(u)'
    OBVIOUS
  <2>1. Life(u) /\ Life(t) /\ Notes(u) /\ Types
    BY DEF Inv
  <2> QED
    BY <1>8, <2>1 DEF WorkerFinished, Notes, Life, Types, Terminal
<1>9. ASSUME NEW t \in Tasks, Cancel(t) PROVE (\A u \in Tasks : Notes(u))'
  <2> SUFFICES ASSUME NEW u \in Tasks PROVE Notes(u)'
    OBVIOUS
  <2>1. Life(u) /\ Life(t) /\ Notes(u) /\ Types
    BY DEF Inv
  <2> QED
    BY <1>9, <2>1 DEF Cancel, Serving, Exists, IsTerminal, Touch, Notes, Life,
      Types, Terminal
<1>10. ASSUME NEW t \in Tasks, CancelNotify(t)
     PROVE  (\A u \in Tasks : Notes(u))'
  <2> SUFFICES ASSUME NEW u \in Tasks PROVE Notes(u)'
    OBVIOUS
  <2>1. Life(u) /\ Life(t) /\ Notes(u) /\ Types
    BY DEF Inv
  <2> QED
    BY <1>10, <2>1 DEF CancelNotify, NotifyAll, Notes, Life, Types, Terminal
<1>11. ASSUME NEW t \in Tasks, CancelAnnounce(t)
     PROVE  (\A u \in Tasks : Notes(u))'
  <2> SUFFICES ASSUME NEW u \in Tasks PROVE Notes(u)'
    OBVIOUS
  <2>1. Life(u) /\ Life(t) /\ Notes(u) /\ Types /\ NoteTypes
    BY DEF Inv
  <2>2. CASE u # t
    <3>1. notes'[u] = notes[u]
      BY <1>11, <2>1, <2>2 DEF CancelAnnounce, Announce, NoteTypes
    <3> QED
      BY <1>11, <2>1, <2>2, <3>1 DEF CancelAnnounce, Notes, Types
  <2>3. CASE u = t
    <3>1. /\ notes[t] \in Seq(Terminal \cup {"working"})
          /\ notes'[t] = Append(notes[t], "cancelled")
          /\ UNCHANGED status
      BY <1>11, <2>1 DEF CancelAnnounce, Announce, NoteTypes
    <3>2. /\ Len(notes'[t]) = Len(notes[t]) + 1
          /\ notes'[t][Len(notes[t]) + 1] = "cancelled"
          /\ \A i \in 1 .. Len(notes[t]) : notes'[t][i] = notes[t][i]
      BY <3>1
    <3> QED
      BY <1>11, <2>1, <2>3, <3>1, <3>2 DEF CancelAnnounce, Notes, Life, Types, Terminal
  <2> QED BY <2>2, <2>3
<1>12. CASE UNCHANGED <<notes, status, wk, cpc>>
  BY <1>12 DEF Inv, Notes
<1> QED
  BY <1>1, <1>2, <1>3, <1>4, <1>5, <1>6, <1>7, <1>8, <1>9, <1>10, <1>11, <1>12
    DEF Next, HandlerStep, WorkerStep, CancelStep, vars, CallTool, 
    GetTaskResult, WaitResult, WaitTimeout, Shutdown, ShutdownNotify,
    ShutdownWait

\* There are finitely many workers.
LEMMA LiveFinite == IsFiniteSet(LiveWorkers)
BY TasksAssumption, FS_Subset DEF LiveWorkers

\* A step that starts or ends a worker counts it.
LEMMA CountedStep ==
  ASSUME Inv, [Next]_vars
  PROVE  Counted'
<1> USE DEF storeVars, waiterVars
<1>1. ASSUME NEW t \in Tasks, WorkerStarted(t) PROVE Counted'
  <2>1. /\ LiveWorkers' = LiveWorkers \cup {t} /\ t \notin LiveWorkers
        /\ inflight' = inflight + 1
    BY <1>1 DEF WorkerStarted, LiveWorkers, Inv, Types, Life
  <2>2. Cardinality(LiveWorkers \cup {t}) = Cardinality(LiveWorkers) + 1
    BY <2>1, LiveFinite, FS_AddElement
  <2> QED
    BY <2>1, <2>2 DEF Counted, Inv
<1>2. ASSUME NEW t \in Tasks, Complete(t) PROVE Counted'
  <2>1. LiveWorkers' = LiveWorkers /\ UNCHANGED inflight
    BY <1>2 DEF Complete, LiveWorkers, Inv, Types
  <2> QED
    BY <2>1 DEF Counted, Inv
<1>3. ASSUME NEW t \in Tasks, Fail(t) PROVE Counted'
  <2>1. LiveWorkers' = LiveWorkers /\ UNCHANGED inflight
    BY <1>3 DEF Fail, LiveWorkers, Inv, Types
  <2> QED
    BY <2>1 DEF Counted, Inv
<1>4. ASSUME NEW t \in Tasks, WorkerNotify(t) PROVE Counted'
  <2>1. LiveWorkers' = LiveWorkers /\ UNCHANGED inflight
    BY <1>4 DEF WorkerNotify, LiveWorkers, Inv, Types
  <2> QED
    BY <2>1 DEF Counted, Inv
<1>5. ASSUME NEW t \in Tasks, WorkerAnnounce(t) PROVE Counted'
  <2>1. LiveWorkers' = LiveWorkers /\ UNCHANGED inflight
    BY <1>5 DEF WorkerAnnounce, LiveWorkers, Inv, Types
  <2> QED
    BY <2>1 DEF Counted, Inv
<1>6. ASSUME NEW t \in Tasks, WorkerFinished(t) PROVE Counted'
  <2>1. /\ LiveWorkers' = LiveWorkers \ {t} /\ t \in LiveWorkers
        /\ inflight' = inflight - 1
    BY <1>6 DEF WorkerFinished, LiveWorkers, Inv, Types
  <2>2. Cardinality(LiveWorkers \ {t}) = Cardinality(LiveWorkers) - 1
    BY <2>1, LiveFinite, FS_RemoveElement
  <2> QED
    BY <2>1, <2>2 DEF Counted, Inv
<1>7. CASE UNCHANGED <<inflight, wk>>
  BY <1>7 DEF Inv, Counted, LiveWorkers
<1> QED
  BY <1>1, <1>2, <1>3, <1>4, <1>5, <1>6, <1>7 DEF Next, HandlerStep,
    WorkerStep, CancelStep, vars, CallTool, Create, CreateAnnounce, Cancel,
    CancelNotify, CancelAnnounce, GetTaskResult, WaitResult,
    WaitTimeout, Shutdown, ShutdownNotify, ShutdownWait

\* No worker starts once the store is being shut down.
LEMMA ShutDownStep ==
  ASSUME Inv, [Next]_vars
  PROVE  ShutDown'
<1> USE DEF storeVars, waiterVars
<1>1. ASSUME NEW t \in Tasks, CallTool(t) PROVE ShutDown'
  BY <1>1 DEF CallTool, Serving, AtCap, Inv, Types, ShutDown, LiveWorkers
<1>2. ASSUME NEW t \in Tasks, Create(t) PROVE ShutDown'
  BY <1>2 DEF Create, Touch, Inv, Types, ShutDown, LiveWorkers
<1>3. ASSUME NEW t \in Tasks, CreateAnnounce(t) PROVE ShutDown'
  BY <1>3 DEF CreateAnnounce, Announce, Inv, Types, ShutDown, LiveWorkers
<1>4. ASSUME NEW t \in Tasks, WorkerStarted(t) PROVE ShutDown'
  BY <1>4 DEF WorkerStarted, Inv, Types, ShutDown, LiveWorkers
<1>5. ASSUME NEW t \in Tasks, Complete(t) PROVE ShutDown'
  BY <1>5 DEF Complete, Touch, Exists, IsTerminal, Inv, Types, ShutDown,
    LiveWorkers
<1>6. ASSUME NEW t \in Tasks, Fail(t) PROVE ShutDown'
  BY <1>6 DEF Fail, Touch, Exists, IsTerminal, Inv, Types, ShutDown,
    LiveWorkers
<1>7. ASSUME NEW t \in Tasks, WorkerNotify(t) PROVE ShutDown'
  BY <1>7 DEF WorkerNotify, NotifyAll, Inv, Types, ShutDown, LiveWorkers
<1>8. ASSUME NEW t \in Tasks, WorkerAnnounce(t) PROVE ShutDown'
  BY <1>8 DEF WorkerAnnounce, Announce, Inv, Types, ShutDown, LiveWorkers
<1>9. ASSUME NEW t \in Tasks, WorkerFinished(t) PROVE ShutDown'
  BY <1>9 DEF WorkerFinished, Inv, Types, ShutDown, LiveWorkers
<1>10. ASSUME Shutdown PROVE ShutDown'
  BY <1>10 DEF Shutdown, HandlersReturned, Inv, Types, ShutDown, LiveWorkers
<1>11. ASSUME ShutdownNotify PROVE ShutDown'
  BY <1>11 DEF ShutdownNotify, NotifyAll, Inv, Types, ShutDown, LiveWorkers
<1>12. ASSUME ShutdownWait PROVE ShutDown'
  <2>1. LiveWorkers = {}
    BY <1>12, LiveFinite, FS_EmptySet DEF ShutdownWait, Inv, Counted
  <2> QED
    BY <1>12, <2>1 DEF ShutdownWait, Inv, ShutDown, LiveWorkers
<1>13. CASE UNCHANGED <<spc, hpc, wk>>
  BY <1>13 DEF Inv, Types, ShutDown, LiveWorkers
<1> QED
  BY <1>1, <1>2, <1>3, <1>4, <1>5, <1>6, <1>7, <1>8, <1>9, <1>10, <1>11,
    <1>12, <1>13 DEF Next, HandlerStep, WorkerStep, CancelStep, vars, Cancel,
    CancelNotify, CancelAnnounce, GetTaskResult, WaitResult,
    WaitTimeout

\* An entry that is completed has its payload.
LEMMA NoEmptyAnswer ==
  ASSUME Inv, NEW t \in Tasks
  PROVE  AnswerFor(t) # "no payload"
<1>1. Life(t)
  BY DEF Inv
<1> QED
  BY <1>1 DEF AnswerFor, Life

\* A step answers tasks/result from a consistent entry.
LEMMA AnsweredStep ==
  ASSUME Inv, [Next]_vars
  PROVE  Answered'
<1> USE DEF storeVars, waiterVars
<1>1. ASSUME NEW w \in Waiters, WaitResult(w) PROVE Answered'
  <2>1. \A t \in Tasks : AnswerFor(t) # "no payload"
    BY NoEmptyAnswer
  <2>2. PICK t \in target[w] :
          answer' = [answer EXCEPT ![w] = AnswerFor(t)] \/ UNCHANGED answer
    BY <1>1 DEF WaitResult
  <2>3. t \in Tasks
    BY DEF Inv, WaiterTypes
  <2> QED
    BY <2>1, <2>2, <2>3 DEF Inv, WaiterTypes, Answered
<1>2. ASSUME NEW w \in Waiters, WaitTimeout(w) PROVE Answered'
  <2>1. \A t \in Tasks : AnswerFor(t) # "no payload"
    BY NoEmptyAnswer
  <2>2. PICK t \in target[w] :
          answer' = [answer EXCEPT ![w] = IF ResultReady(t) THEN AnswerFor(t)
                                                            ELSE "not yet"]
    BY <1>2 DEF WaitTimeout
  <2>3. t \in Tasks
    BY DEF Inv, WaiterTypes
  <2> QED
    BY <2>1, <2>2, <2>3 DEF Inv, WaiterTypes, Answered
<1>3. CASE UNCHANGED <<answer>>
  BY <1>3 DEF Inv, Answered
<1> QED
  BY <1>1, <1>2, <1>3 DEF Next, HandlerStep, WorkerStep, CancelStep, vars,
    CallTool, Create, CreateAnnounce, WorkerStarted, Complete, Fail,
    WorkerNotify, WorkerAnnounce, WorkerFinished, Cancel, CancelNotify,
    CancelAnnounce, GetTaskResult, Shutdown, ShutdownNotify,
    ShutdownWait

------------------------------------------------------------------------------
LEMMA InitInv == Init => Inv
<1> SUFFICES ASSUME Init PROVE Inv
  OBVIOUS
<1>1. Types /\ WaiterTypes
  BY DEF Init, Types, WaiterTypes
<1>2. RestTypes
  BY DEF Init, RestTypes
<1>3. NoteTypes
  BY DEF Init, NoteTypes
<1>4. \A t \in Tasks : Life(t) /\ Notes(t)
  BY DEF Init, Life, Notes, Terminal
<1>5. LiveWorkers = {}
  BY DEF Init, LiveWorkers
<1>6. Counted /\ ShutDown
  BY <1>5, FS_EmptySet DEF Init, Counted, ShutDown
<1>7. Answered
  BY DEF Init, Answered
<1> QED
  BY <1>1, <1>2, <1>3, <1>4, <1>6, <1>7 DEF Inv

LEMMA StepInv == Inv /\ [Next]_vars => Inv'
<1> SUFFICES ASSUME Inv, [Next]_vars PROVE Inv'
  OBVIOUS
<1>1. Types' /\ WaiterTypes' /\ RestTypes' /\ NoteTypes'
  BY TypesStep, WaiterTypesStep, RestTypesStep, NoteTypesStep
<1>2. (\A t \in Tasks : Life(t))' /\ (\A t \in Tasks : Notes(t))'
  BY LifeStep, NotesStep
<1>3. Counted' /\ ShutDown' /\ Answered'
  BY CountedStep, ShutDownStep, AnsweredStep
<1> QED
  BY <1>1, <1>2, <1>3 DEF Inv

\* The inductive invariant holds throughout.
THEOREM Invariance == Spec => []Inv
BY InitInv, StepInv, PTL DEF Spec

\* Every variable keeps its type; in particular workers_inflight_ is never
\* negative.
THEOREM TypeCorrect == Spec => []TypeOK
<1>1. Inv => TypeOK
  <2> SUFFICES ASSUME Inv PROVE TypeOK
    OBVIOUS
  <2>1. inflight \in Nat
    BY LiveFinite, FS_CardinalityType DEF Inv, Counted
  <2> QED
    BY <2>1 DEF Inv, TypeOK, Types, WaiterTypes, RestTypes, NoteTypes
<1> QED
  BY <1>1, Invariance, PTL

\* complete(), fail() and cancel() race for a task and one of them wins for
\* good: a terminal status and its payload never change again.
THEOREM Final == Spec => TerminalIsFinal
<1>1. Inv /\ [Next]_vars =>
        [\A t \in Tasks : IsTerminal(t) =>
           status'[t] = status[t] /\ result'[t] = result[t]]_vars
  <2> SUFFICES ASSUME Inv, Next, NEW u \in Tasks, IsTerminal(u)
               PROVE  status'[u] = status[u] /\ result'[u] = result[u]
    BY DEF IsTerminal
  <2>1. ASSUME NEW t \in Tasks, Create(t)
        PROVE  status'[u] = status[u] /\ result'[u] = result[u]
    BY <2>1 DEF Create, Touch, IsTerminal, Terminal, Inv, Life, Types
  <2>2. ASSUME NEW t \in Tasks, Complete(t)
        PROVE  status'[u] = status[u] /\ result'[u] = result[u]
    BY <2>2 DEF Complete, Touch, IsTerminal, Inv, Types
  <2>3. ASSUME NEW t \in Tasks, Fail(t)
        PROVE  status'[u] = status[u] /\ result'[u] = result[u]
    BY <2>3 DEF Fail, Touch, IsTerminal, Inv, Types
  <2>4. ASSUME NEW t \in Tasks, Cancel(t)
        PROVE  status'[u] = status[u] /\ result'[u] = result[u]
    BY <2>4 DEF Cancel, Touch, IsTerminal, Inv, Types
  <2>5. CASE UNCHANGED <<status, result>>
    BY <2>5
  <2> QED
    BY <2>1, <2>2, <2>3, <2>4, <2>5 DEF Next, HandlerStep, WorkerStep,
       CancelStep, storeVars, CallTool, CreateAnnounce, WorkerStarted,
       WorkerNotify, WorkerAnnounce, WorkerFinished, CancelNotify,
       CancelAnnounce, GetTaskResult, WaitResult, WaitTimeout,
       Shutdown, ShutdownNotify, ShutdownWait
<1> QED
  BY <1>1, Invariance, PTL DEF Spec, TerminalIsFinal

\* The client is told once how a task ended, and told the truth.
THEOREM AnnouncedOnce == Spec => []OneTerminalNote
<1>1. Inv => OneTerminalNote
  BY DEF Inv, Notes, OneTerminalNote
<1> QED
  BY <1>1, Invariance, PTL

\* A cancelled task yields no result, and no completed task lacks its payload.
THEOREM CancellationWins == Spec => []CancelWins
<1>1. Inv => CancelWins
  BY DEF Inv, Life, Types, Answered, CancelWins
<1> QED
  BY <1>1, Invariance, PTL

\* shutdown() returns only when no worker uses the store any more.
THEOREM NoDanglingWorker == Spec => []StoreOutlivesWorkers
<1>1. Inv => StoreOutlivesWorkers
  BY DEF Inv, Counted, ShutDown, StoreOutlivesWorkers
<1> QED
  BY <1>1, Invariance, PTL
=============================================================================
