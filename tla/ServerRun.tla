------------------------------- MODULE ServerRun -------------------------------
(***************************************************************************)
(* mcp::Server (src/src/server.cpp) from one run() to the next: run() on its   *)
(* thread, stop() on any other, the request handlers on the session's          *)
(* workers, and the session's on_closed hook.                                *)
(*                                                                         *)
(* The Session is what run() knows of it: open or not, with a hook that is     *)
(* called some time after it has closed, and a close() that waits for the      *)
(* handlers and for that hook.  (Requests that arrive after close() has        *)
(* counted its workers are in module Session.)                               *)
(***************************************************************************)
EXTENDS Naturals

CONSTANTS
  Requests,     \* requests of clients
  Capabilities, \* what clients may advertise
  NoCapabilities,
  MaxRuns       \* bound on the calls of run()

ASSUME NoCapabilitiesAssumption == NoCapabilities \notin Capabilities
ASSUME MaxRunsAssumption == MaxRuns \in Nat

VARIABLES
  rpc,          \* the thread that calls run()
  conn,         \* runs begun; the number of the present connection
  initialized,  \* initialized_
  caps,         \* client_capabilities_
  session,      \* session_: its connection, or 0
  stopReq,      \* stop_requested_
  open,         \* Session::is_open()
  hook,         \* the session has still to call on_closed
  hpc,          \* the handler of a request
  kind,         \* "initialize", or "other" for any request that needs one
  at,           \* the connection of a request
  offer,        \* the capabilities in an initialize
  reply         \* the outcome of a request

runVars == <<rpc, conn, session, stopReq>>
sessionVars == <<open, hook>>
stateVars == <<initialized, caps>>
requestVars == <<hpc, kind, at, offer, reply>>
vars == <<runVars, sessionVars, stateVars, requestVars>>

Active == {"gate", "claim", "record", "describe", "serve"}

TypeOK ==
  /\ rpc \in {"idle", "stop flag", "bind", "start", "check", "asleep", "close",
              "drain", "unbind"}
  /\ conn \in 0 .. MaxRuns /\ session \in 0 .. MaxRuns
  /\ initialized \in BOOLEAN /\ stopReq \in BOOLEAN
  /\ open \in BOOLEAN /\ hook \in BOOLEAN
  /\ caps \in Capabilities \cup {NoCapabilities}
  /\ hpc \in [Requests -> Active \cup {"new", "done"}]
  /\ kind \in [Requests -> {"initialize", "other"}]
  /\ at \in [Requests -> 0 .. MaxRuns]
  /\ offer \in [Requests -> Capabilities]
  /\ reply \in [Requests -> {"none", "ok", "already", "not initialized"}]

Init ==
  /\ rpc = "idle" /\ conn = 0 /\ session = 0 /\ stopReq = FALSE
  /\ open = FALSE /\ hook = FALSE
  /\ initialized = FALSE /\ caps = NoCapabilities
  /\ hpc = [r \in Requests |-> "new"]
  /\ kind \in [Requests -> {"initialize", "other"}]
  /\ at = [r \in Requests |-> 0]
  /\ offer \in [Requests -> Capabilities]
  /\ reply = [r \in Requests |-> "none"]

------------------------------------------------------------------------------
(* run() and stop() *)

\* Mutant: what an earlier client has initialized stays so.
RunKeepsInitialized ==
  /\ rpc = "idle" /\ conn < MaxRuns
  /\ conn' = conn + 1
  /\ rpc' = "stop flag"
  /\ UNCHANGED <<session, stopReq, sessionVars, stateVars, requestVars>>

\* run() clears what it keeps from an earlier run: the one flag ...
RunBegin ==
  /\ rpc = "idle" /\ conn < MaxRuns
  /\ conn' = conn + 1
  /\ initialized' = FALSE
  /\ rpc' = "stop flag"
  /\ UNCHANGED <<session, stopReq, sessionVars, caps, requestVars>>

\* ... and the other, with a stop() that came too early.
RunResetStop ==
  /\ rpc = "stop flag"
  /\ stopReq' = FALSE
  /\ rpc' = "bind"
  /\ UNCHANGED <<conn, session, sessionVars, stateVars, requestVars>>

\* The new Session becomes session_; its handlers and its hook are registered.
RunBind ==
  /\ rpc = "bind"
  /\ session' = conn
  /\ rpc' = "start"
  /\ UNCHANGED <<conn, stopReq, sessionVars, stateVars, requestVars>>

RunStart ==
  /\ rpc = "start"
  /\ open' = TRUE
  /\ rpc' = "check"
  /\ UNCHANGED <<conn, session, stopReq, hook, stateVars, requestVars>>

\* The predicate of stop_cv_, under stop_mu_.
RunWait ==
  /\ rpc = "check"
  /\ rpc' = IF stopReq \/ ~open THEN "close" ELSE "asleep"
  /\ UNCHANGED <<conn, session, stopReq, sessionVars, stateVars, requestVars>>

\* stop_cv_.notify_all()
NotifyRun == rpc' = IF rpc = "asleep" THEN "check" ELSE rpc

Stop ==
  /\ stopReq' = TRUE
  /\ NotifyRun
  /\ UNCHANGED <<conn, session, sessionVars, stateVars, requestVars>>

\* Session::close: from here on it is not open.
RunClose ==
  /\ rpc = "close"
  /\ open' = FALSE
  /\ rpc' = "drain"
  /\ UNCHANGED <<conn, session, stopReq, hook, stateVars, requestVars>>

\* Mutant: close() returns while handlers run.
DrainForgetsHandlers ==
  /\ rpc = "drain" /\ ~hook
  /\ rpc' = "unbind"
  /\ UNCHANGED <<conn, session, stopReq, sessionVars, stateVars, requestVars>>

\* It waits for its workers, and joins the read thread, which may be in the
\* hook.  (Over HTTP the hook comes from another thread, but there a Server is
\* run only once.)
RunDrain ==
  /\ rpc = "drain" /\ ~hook
  /\ \A r \in Requests : hpc[r] \notin Active
  /\ rpc' = "unbind"
  /\ UNCHANGED <<conn, session, stopReq, sessionVars, stateVars, requestVars>>

RunUnbind ==
  /\ rpc = "unbind"
  /\ session' = 0
  /\ rpc' = "idle"
  /\ UNCHANGED <<conn, stopReq, sessionVars, stateVars, requestVars>>

------------------------------------------------------------------------------
(* The session *)

\* The peer goes away.
SessionEnds ==
  /\ open
  /\ open' = FALSE /\ hook' = TRUE
  /\ UNCHANGED <<runVars, stateVars, requestVars>>

\* Mutant: the hook takes the lock and notifies nobody.
OnClosedQuietly ==
  /\ hook
  /\ hook' = FALSE
  /\ UNCHANGED <<runVars, open, stateVars, requestVars>>

\* The on_closed hook of run().
OnClosed ==
  /\ hook
  /\ hook' = FALSE
  /\ NotifyRun
  /\ UNCHANGED <<conn, session, stopReq, open, stateVars, requestVars>>

\* A request gets a worker.
Arrive(r) ==
  /\ open /\ hpc[r] = "new"
  /\ at' = [at EXCEPT ![r] = conn]
  /\ hpc' = [hpc EXCEPT ![r] = IF kind[r] = "initialize" THEN "claim" ELSE "gate"]
  /\ UNCHANGED <<runVars, sessionVars, stateVars, kind, offer, reply>>

------------------------------------------------------------------------------
(* Handlers *)

\* handle_initialize: the first one claims initialized_.
Claim(r) ==
  /\ hpc[r] = "claim"
  /\ \/ /\ ~initialized
        /\ initialized' = TRUE
        /\ hpc' = [hpc EXCEPT ![r] = "record"]
        /\ UNCHANGED reply
     \/ /\ initialized
        /\ hpc' = [hpc EXCEPT ![r] = "done"]
        /\ reply' = [reply EXCEPT ![r] = "already"]
        /\ UNCHANGED initialized
  /\ UNCHANGED <<runVars, sessionVars, caps, kind, at, offer>>

\* It records what its client can do ...
Record(r) ==
  /\ hpc[r] = "record"
  /\ caps' = offer[r]
  /\ hpc' = [hpc EXCEPT ![r] = "describe"]
  /\ UNCHANGED <<runVars, sessionVars, initialized, kind, at, offer, reply>>

\* ... and replies with what the server offers.
Describe(r) ==
  /\ hpc[r] = "describe"
  /\ hpc' = [hpc EXCEPT ![r] = "done"]
  /\ reply' = [reply EXCEPT ![r] = "ok"]
  /\ UNCHANGED <<runVars, sessionVars, stateVars, kind, at, offer>>

\* Every other handler, but ping and logging/setLevel, looks at initialized_
\* first.
Gate(r) ==
  /\ hpc[r] = "gate"
  /\ \/ /\ initialized
        /\ hpc' = [hpc EXCEPT ![r] = "serve"]
        /\ UNCHANGED reply
     \/ /\ ~initialized
        /\ hpc' = [hpc EXCEPT ![r] = "done"]
        /\ reply' = [reply EXCEPT ![r] = "not initialized"]
  /\ UNCHANGED <<runVars, sessionVars, stateVars, kind, at, offer>>

\* It does its work, in which it may use session_, and replies.
Serve(r) ==
  /\ hpc[r] = "serve"
  /\ hpc' = [hpc EXCEPT ![r] = "done"]
  /\ reply' = [reply EXCEPT ![r] = "ok"]
  /\ UNCHANGED <<runVars, sessionVars, stateVars, kind, at, offer>>

------------------------------------------------------------------------------
RunStep == \/ RunResetStop \/ RunBind \/ RunStart \/ RunWait \/ RunClose
           \/ RunDrain \/ RunUnbind
HandlerStep(r) ==
  Claim(r) \/ Record(r) \/ Describe(r) \/ Gate(r) \/ Serve(r)

Next ==
  \/ RunBegin \/ RunStep \/ Stop \/ SessionEnds \/ OnClosed
  \/ \E r \in Requests : Arrive(r) \/ HandlerStep(r)

Spec == Init /\ [][Next]_vars

\* Threads run and handlers return; nobody need call stop() or go away.
FairSpec ==
  /\ Spec /\ WF_vars(RunStep) /\ WF_vars(OnClosed)
  /\ \A r \in Requests : WF_vars(HandlerStep(r))

------------------------------------------------------------------------------
(* Properties *)

\* The initialize that r is, was accepted.
Accepted(r) ==
  /\ kind[r] = "initialize"
  /\ hpc[r] \in {"record", "describe"} \/ reply[r] = "ok"

\* A connection is initialized at most once, however many initialize requests
\* the session's workers handle side by side.
InitializedOnce ==
  \A q, r \in Requests : Accepted(q) /\ Accepted(r) /\ at[q] = at[r] => q = r

\* A request is served only after an initialize of its own connection; what an
\* earlier client of the same Server did does not count.
ServedAfterInitialize ==
  \A r \in Requests : hpc[r] = "serve" =>
    \E q \in Requests : Accepted(q) /\ at[q] = at[r]

\* Once initialize is answered, client_capabilities() are those of the client
\* that is connected.
CapabilitiesOfClient ==
  \A r \in Requests :
    (Accepted(r) /\ reply[r] = "ok" /\ at[r] = conn) => (caps = offer[r])

\* A handler finds the session its request came from in session_.
HandlersHaveSession ==
  \A r \in Requests : hpc[r] \in Active => session = at[r] /\ at[r] # 0

\* run() returns after stop() and after the end of the connection, whenever
\* they come.
RunReturns ==
  (rpc \in {"check", "asleep"} /\ (stopReq \/ ~open)) ~> (rpc = "idle")
=============================================================================
