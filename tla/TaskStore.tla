------------------------------ MODULE TaskStore ------------------------------
(***************************************************************************)
(* detail::TaskStore and the handlers of Server that use it                *)
(* (src/src/server.cpp): task-augmented tools/call, tasks/cancel,            *)
(* tasks/result, the detached task workers, and the shutdown in ~Server.     *)
(*                                                                         *)
(* A task is named by the request that creates it (mint_task_id gives every  *)
(* task its own id).  What runs under mu_ or workers_mu_ is one step; the    *)
(* cv_.notify_all() and the status listener, which the code calls after      *)
(* unlocking, are steps of their own, so their order is not the order of     *)
(* the transitions they announce.                                           *)
(***************************************************************************)
EXTENDS Integers, FiniteSets, Sequences

CONSTANTS
  Tasks,         \* task-augmented tools/call requests, and the tasks they make
  Waiters,       \* tasks/result requests
  MaxConcurrent  \* tasks_max_concurrent_, 0 = unlimited

ASSUME TasksAssumption == IsFiniteSet(Tasks)
ASSUME MaxConcurrentAssumption == MaxConcurrent \in Nat

VARIABLES
  \* TaskStore
  status,    \* status of the entry of a task, "none" when there is no entry
  result,    \* the entry has a result payload
  cancelled, \* the cancellation flag of the entry
  inflight,  \* workers_inflight_
  shutting,  \* shutting_down_
  \* threads
  hpc,       \* handle_call_tool, one per task
  wk,        \* the task worker
  cpc,       \* handle_cancel_task
  qpc,       \* handle_get_task_result
  target,    \* the task a waiter asks for
  answer,    \* what handle_get_task_result answered
  spc,       \* ~Server
  \* the client's side
  notes      \* calls of the status listener, per task: each sends a
             \* notifications/tasks/status while the session lives

storeVars  == <<status, result, cancelled>>
waiterVars == <<qpc, target, answer>>
vars == <<storeVars, inflight, shutting, hpc, wk, cpc, waiterVars, spc, notes>>

Terminal == {"completed", "failed", "cancelled"}
Answers == {"result", "no payload", "failed", "cancelled", "shutting down",
            "not found", "not yet"}

TypeOK ==
  /\ status \in [Tasks -> Terminal \cup {"none", "working"}]
  /\ result \in [Tasks -> BOOLEAN] /\ cancelled \in [Tasks -> BOOLEAN]
  /\ inflight \in Nat /\ shutting \in BOOLEAN
  /\ hpc \in [Tasks -> {"idle", "admitted", "announce", "start", "replied",
                        "refused"}]
  /\ wk \in [Tasks -> {"off", "run", "notify", "announce", "finish", "done"}]
  /\ cpc \in [Tasks -> {"idle", "notify", "announce"}]
  /\ qpc \in [Waiters -> {"idle", "check", "blocked", "done"}]
  /\ target \in [Waiters -> SUBSET Tasks]
  /\ answer \in [Waiters -> Answers \cup {"none"}]
  /\ spc \in {"up", "notify", "wait", "down"}
  /\ notes \in [Tasks -> Seq(Terminal \cup {"working"})]

Init ==
  /\ status = [t \in Tasks |-> "none"]
  /\ result = [t \in Tasks |-> FALSE]
  /\ cancelled = [t \in Tasks |-> FALSE]
  /\ inflight = 0 /\ shutting = FALSE
  /\ hpc = [t \in Tasks |-> "idle"]
  /\ wk = [t \in Tasks |-> "off"]
  /\ cpc = [t \in Tasks |-> "idle"]
  /\ qpc = [w \in Waiters |-> "idle"]
  /\ target = [w \in Waiters |-> {}]
  /\ answer = [w \in Waiters |-> "none"]
  /\ spc = "up"
  /\ notes = [t \in Tasks |-> <<>>]

------------------------------------------------------------------------------
(* Helpers *)

Exists(t) == status[t] # "none"
IsTerminal(t) == status[t] \in Terminal

\* touch_locked
Touch(t, s) == status' = [status EXCEPT ![t] = s]

\* cv_.notify_all(): waiters look at their predicate again.
NotifyAll == qpc' = [w \in Waiters |-> IF qpc[w] = "blocked" THEN "check"
                                                             ELSE qpc[w]]

\* The status listener: one notifications/tasks/status.
Announce(t, s) == notes' = [notes EXCEPT ![t] = Append(@, s)]

\* Task workers that are counted: worker_started() to worker_finished().
LiveWorkers == {t \in Tasks : wk[t] \in {"run", "notify", "announce", "finish"}}

\* A request is served: the session's workers run only while the server is up.
Serving == spc = "up"

------------------------------------------------------------------------------
(* handle_call_tool, the task branch *)

\* The cap: the count is read, and the lock released, before anything else.
AtCap == MaxConcurrent > 0 /\ inflight >= MaxConcurrent

CallTool(t) ==
  /\ Serving /\ hpc[t] = "idle"
  /\ hpc' = [hpc EXCEPT ![t] = IF AtCap THEN "refused" ELSE "admitted"]
  /\ UNCHANGED <<storeVars, inflight, shutting, wk, cpc, waiterVars, spc, notes>>

\* TaskStore::create up to the unlock ...
Create(t) ==
  /\ hpc[t] = "admitted"
  /\ Touch(t, "working")
  /\ hpc' = [hpc EXCEPT ![t] = "announce"]
  /\ UNCHANGED <<result, cancelled, inflight, shutting, wk, cpc,
                 waiterVars, spc, notes>>

\* ... and its listener.
CreateAnnounce(t) ==
  /\ hpc[t] = "announce"
  /\ Announce(t, "working")
  /\ hpc' = [hpc EXCEPT ![t] = "start"]
  /\ UNCHANGED <<storeVars, inflight, shutting, wk, cpc, waiterVars, spc>>

\* worker_started(), the detached thread, and the CreateTaskResult reply.
WorkerStarted(t) ==
  /\ hpc[t] = "start"
  /\ inflight' = inflight + 1
  /\ wk' = [wk EXCEPT ![t] = "run"]
  /\ hpc' = [hpc EXCEPT ![t] = "replied"]
  /\ UNCHANGED <<storeVars, shutting, cpc, waiterVars, spc, notes>>

------------------------------------------------------------------------------
(* The task worker *)

\* The tool handler returns: TaskStore::complete up to the unlock.  A terminal
\* task is left alone; a task that is only flagged becomes cancelled.
Complete(t) ==
  /\ wk[t] = "run"
  /\ IF ~Exists(t) \/ IsTerminal(t)
       THEN /\ wk' = [wk EXCEPT ![t] = "finish"]
            /\ UNCHANGED <<status, result>>
       ELSE /\ wk' = [wk EXCEPT ![t] = "notify"]
            /\ Touch(t, IF cancelled[t] THEN "cancelled" ELSE "completed")
            /\ result' = [result EXCEPT ![t] = @ \/ ~cancelled[t]]
  /\ UNCHANGED <<cancelled, inflight, shutting, hpc, cpc, waiterVars, spc,
                 notes>>

\* The tool handler throws: TaskStore::fail up to the unlock.
Fail(t) ==
  /\ wk[t] = "run"
  /\ IF ~Exists(t) \/ IsTerminal(t)
       THEN /\ wk' = [wk EXCEPT ![t] = "finish"]
            /\ UNCHANGED status
       ELSE /\ wk' = [wk EXCEPT ![t] = "notify"]
            /\ Touch(t, "failed")
  /\ UNCHANGED <<result, cancelled, inflight, shutting, hpc, cpc,
                 waiterVars, spc, notes>>

\* Mutant: the worker does not notify cv_.
WorkerForgetsWaiters(t) ==
  /\ wk[t] = "notify"
  /\ UNCHANGED qpc
  /\ wk' = [wk EXCEPT ![t] = "announce"]
  /\ UNCHANGED <<storeVars, inflight, shutting, hpc, cpc, target, answer, spc,
                 notes>>

\* Both then notify cv_ ...
WorkerNotify(t) ==
  /\ wk[t] = "notify"
  /\ NotifyAll
  /\ wk' = [wk EXCEPT ![t] = "announce"]
  /\ UNCHANGED <<storeVars, inflight, shutting, hpc, cpc, target, answer, spc,
                 notes>>

\* ... and call the listener with the projection of the transition.  A
\* terminal status does not change any more, so that is the current one.
WorkerAnnounce(t) ==
  /\ wk[t] = "announce"
  /\ Announce(t, status[t])
  /\ wk' = [wk EXCEPT ![t] = "finish"]
  /\ UNCHANGED <<storeVars, inflight, shutting, hpc, cpc, waiterVars, spc>>

\* Mutant: the worker returns without worker_finished().
WorkerNeverCounted(t) ==
  /\ wk[t] = "finish"
  /\ UNCHANGED inflight
  /\ wk' = [wk EXCEPT ![t] = "done"]
  /\ UNCHANGED <<storeVars, shutting, hpc, cpc, waiterVars, spc, notes>>

\* worker_finished(): count down and notify under workers_mu_.
WorkerFinished(t) ==
  /\ wk[t] = "finish"
  /\ inflight' = inflight - 1
  /\ wk' = [wk EXCEPT ![t] = "done"]
  /\ UNCHANGED <<storeVars, shutting, hpc, cpc, waiterVars, spc, notes>>

------------------------------------------------------------------------------
(* handle_cancel_task *)

\* Mutant: cancelling a terminal task announces it again.
CancelAgain(t) ==
  /\ Serving /\ cpc[t] = "idle" /\ Exists(t)
  /\ IF IsTerminal(t)
       THEN /\ cpc' = [cpc EXCEPT ![t] = "notify"]
            /\ UNCHANGED <<status, cancelled>>
       ELSE /\ cancelled' = [cancelled EXCEPT ![t] = TRUE]
            /\ Touch(t, "cancelled")
            /\ cpc' = [cpc EXCEPT ![t] = "notify"]
  /\ UNCHANGED <<result, inflight, shutting, hpc, wk, waiterVars, spc,
                 notes>>

\* TaskStore::cancel up to the unlock.  The client may know the id from the
\* reply, from a notification or from tasks/list.  Cancelling a terminal task
\* changes nothing and announces nothing.
Cancel(t) ==
  /\ Serving /\ cpc[t] = "idle" /\ Exists(t)
  /\ IF IsTerminal(t)
       THEN UNCHANGED <<status, cancelled, cpc>>
       ELSE /\ cancelled' = [cancelled EXCEPT ![t] = TRUE]
            /\ Touch(t, "cancelled")
            /\ cpc' = [cpc EXCEPT ![t] = "notify"]
  /\ UNCHANGED <<result, inflight, shutting, hpc, wk, waiterVars, spc,
                 notes>>

CancelNotify(t) ==
  /\ cpc[t] = "notify"
  /\ NotifyAll
  /\ cpc' = [cpc EXCEPT ![t] = "announce"]
  /\ UNCHANGED <<storeVars, inflight, shutting, hpc, wk, target, answer, spc,
                 notes>>

CancelAnnounce(t) ==
  /\ cpc[t] = "announce"
  /\ Announce(t, "cancelled")
  /\ cpc' = [cpc EXCEPT ![t] = "idle"]
  /\ UNCHANGED <<storeVars, inflight, shutting, hpc, wk, waiterVars, spc>>

------------------------------------------------------------------------------
(* handle_get_task_result *)

GetTaskResult(w, t) ==
  /\ Serving /\ qpc[w] = "idle"
  /\ qpc' = [qpc EXCEPT ![w] = "check"]
  /\ target' = [target EXCEPT ![w] = {t}]
  /\ UNCHANGED <<storeVars, inflight, shutting, hpc, wk, cpc, answer, spc, notes>>

\* The predicate of cv_.wait_for.
ResultReady(t) == ~Exists(t) \/ IsTerminal(t) \/ shutting

\* What wait_result returns or throws once the predicate holds.
AnswerFor(t) ==
  CASE ~Exists(t)              -> "not found"
    [] status[t] = "completed" -> IF result[t] THEN "result" ELSE "no payload"
    [] status[t] = "failed"    -> "failed"
    [] status[t] = "cancelled" -> "cancelled"
    [] OTHER                   -> "shutting down"

\* wait_result under mu_: return, or go to sleep until notified.
WaitResult(w) ==
  /\ qpc[w] = "check"
  /\ \E t \in target[w] :
       \/ /\ ResultReady(t)
          /\ qpc' = [qpc EXCEPT ![w] = "done"]
          /\ answer' = [answer EXCEPT ![w] = AnswerFor(t)]
       \/ /\ ~ResultReady(t)
          /\ qpc' = [qpc EXCEPT ![w] = "blocked"]
          /\ UNCHANGED answer
  /\ UNCHANGED <<storeVars, inflight, shutting, hpc, wk, cpc, target, spc, notes>>

\* The 25 s budget is over: the predicate is evaluated once more.
WaitTimeout(w) ==
  /\ qpc[w] = "blocked"
  /\ \E t \in target[w] :
       answer' = [answer EXCEPT ![w] = IF ResultReady(t) THEN AnswerFor(t)
                                                         ELSE "not yet"]
  /\ qpc' = [qpc EXCEPT ![w] = "done"]
  /\ UNCHANGED <<storeVars, inflight, shutting, hpc, wk, cpc, target, spc, notes>>

------------------------------------------------------------------------------
(* ~Server, after run() has returned: Session::close() has waited for the     *)
(* handlers that run on session workers, not for the task workers.           *)

HandlersReturned ==
  /\ \A t \in Tasks : hpc[t] \in {"idle", "replied", "refused"} /\ cpc[t] = "idle"
  /\ \A w \in Waiters : qpc[w] \in {"idle", "done"}

\* TaskStore::shutdown: raise the flag ...
Shutdown ==
  /\ spc = "up" /\ HandlersReturned
  /\ shutting' = TRUE
  /\ spc' = "notify"
  /\ UNCHANGED <<storeVars, inflight, hpc, wk, cpc, waiterVars, notes>>

ShutdownNotify ==
  /\ spc = "notify"
  /\ NotifyAll
  /\ spc' = "wait"
  /\ UNCHANGED <<storeVars, inflight, shutting, hpc, wk, cpc, target, answer,
                 notes>>

\* Mutant: shutdown() does not wait for the workers.
ShutdownAtOnce ==
  /\ spc = "wait"
  /\ spc' = "down"
  /\ UNCHANGED <<storeVars, inflight, shutting, hpc, wk, cpc, waiterVars, notes>>

\* ... and wait for workers_inflight_ == 0; then the store is destroyed.
ShutdownWait ==
  /\ spc = "wait"
  /\ inflight = 0
  /\ spc' = "down"
  /\ UNCHANGED <<storeVars, inflight, shutting, hpc, wk, cpc, waiterVars, notes>>

------------------------------------------------------------------------------
HandlerStep(t) == Create(t) \/ CreateAnnounce(t) \/ WorkerStarted(t)
WorkerStep(t) == \/ Complete(t) \/ Fail(t) \/ WorkerNotify(t)
                 \/ WorkerAnnounce(t) \/ WorkerFinished(t)
CancelStep(t) == CancelNotify(t) \/ CancelAnnounce(t)

Next ==
  \/ \E t \in Tasks : \/ CallTool(t) \/ HandlerStep(t) \/ WorkerStep(t)
                      \/ Cancel(t) \/ CancelStep(t)
  \/ \E w \in Waiters : \/ WaitResult(w) \/ WaitTimeout(w)
                        \/ \E t \in Tasks : GetTaskResult(w, t)
  \/ Shutdown \/ ShutdownNotify \/ ShutdownWait

Spec == Init /\ [][Next]_vars

\* Threads run, tool handlers return, time passes.  The wait budget is left
\* out: a waiter must be woken, not saved by its timeout.
Fairness ==
  /\ \A t \in Tasks : /\ WF_vars(HandlerStep(t)) /\ WF_vars(WorkerStep(t))
                      /\ WF_vars(CancelStep(t))
  /\ \A w \in Waiters : WF_vars(WaitResult(w))
  /\ WF_vars(ShutdownNotify) /\ WF_vars(ShutdownWait)

FairSpec == Spec /\ Fairness

------------------------------------------------------------------------------
(* Properties *)

\* complete(), fail(), cancel() and shutdown() race for the same task: the
\* first transition out of "working" is the only one, and the payload is
\* frozen with it ("terminal states have no further transitions").
TerminalIsFinal ==
  [][\A t \in Tasks : IsTerminal(t) =>
       status'[t] = status[t] /\ result'[t] = result[t]]_vars

\* The client gets at most one terminal notification per task, and it says what
\* the store says.
OneTerminalNote ==
  \A t \in Tasks :
    \A i, j \in 1 .. Len(notes[t]) :
      notes[t][i] \in Terminal /\ notes[t][j] \in Terminal
        => i = j /\ notes[t][i] = status[t]

\* A task that was told to be cancelled never yields a result, and one whose
\* tasks/result says completed has its payload ("Shouldn't happen").
CancelWins ==
  /\ \A t \in Tasks : cancelled[t] => status[t] = "cancelled" /\ ~result[t]
  /\ \A w \in Waiters : answer[w] # "no payload"

\* workers_inflight_ counts the workers that still use the store, so shutdown()
\* does not let the store go under one of them.
StoreOutlivesWorkers ==
  /\ inflight = Cardinality(LiveWorkers)
  /\ spc = "down" => LiveWorkers = {}

\* A tasks/result waiter is woken by the end of its task: a transition between
\* its check and its sleep is not missed.
WaitersWake ==
  \A w \in Waiters, t \in Tasks :
    (qpc[w] \in {"check", "blocked"} /\ target[w] = {t} /\ IsTerminal(t))
      ~> (qpc[w] = "done")

\* The shutdown in ~Server ends.
ShutdownEnds == (spc = "notify") ~> (spc = "down")
=============================================================================
