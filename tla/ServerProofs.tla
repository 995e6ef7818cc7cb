----------------------------- MODULE ServerProofs -----------------------------
(***************************************************************************)
(* Theorems about the server: ServerRun, for any requests, capabilities and    *)
(* number of runs, and Registry, for lists of any length, any page size and    *)
(* any width of the sums.                                                    *)
(*                                                                         *)
(* What happens in a connection stays in it: run() starts with initialized_   *)
(* cleared and leaves when its handlers have, so initialized_ is exactly      *)
(* that an initialize of the present connection has been accepted.           *)
(*                                                                         *)
(* A client that follows the cursors has been given what comes before the      *)
(* last one, each item once, for a list keeps its order but for a new key.     *)
(***************************************************************************)
EXTENDS ServerRun, Registry, FiniteSetTheorems, TLAPS

------------------------------------------------------------------------------
(* Server::run() and its handlers *)

\* The runs are numbered as they begin, and requests have the number of theirs.
Numbers ==
  /\ \A r \in Requests : at[r] <= conn
  /\ rpc # "idle" => conn > 0
  /\ rpc \in {"start", "check", "asleep", "close", "drain", "unbind"}
       => session = conn
  /\ open => rpc \in {"check", "asleep", "close"}

\* Handlers run while run() has their session.
Running == {"check", "asleep", "close", "drain"}
HandlerOK(r) ==
  /\ hpc[r] = "new" => reply[r] = "none"
  /\ hpc[r] \in Active => at[r] = conn /\ reply[r] = "none" /\ rpc \in Running
  /\ hpc[r] \in {"claim", "record", "describe"} => kind[r] = "initialize"
  /\ hpc[r] \in {"gate", "serve"} => kind[r] = "other"
  /\ Accepted(r) => at[r] > 0
Handlers == \A r \in Requests : HandlerOK(r)

\* initialized_ is that the present connection has been initialized.
Initialized ==
  initialized <=> \E q \in Requests : Accepted(q) /\ at[q] = conn

\* The capabilities are those of the initialize that was accepted.
Recorded ==
  \A r \in Requests :
    (Accepted(r) /\ at[r] = conn /\ hpc[r] # "record") => (caps = offer[r])

Inv ==
  /\ TypeOK /\ Numbers /\ Handlers
  /\ Initialized /\ InitializedOnce /\ ServedAfterInitialize /\ Recorded

------------------------------------------------------------------------------
\* The numbers are numbers.
LEMMA Numbering ==
  ASSUME Inv
  PROVE  conn \in Nat /\ \A r \in Requests : at[r] \in Nat
<1>1. conn \in 0 .. MaxRuns /\ \A r \in Requests : at[r] \in 0 .. MaxRuns
  BY DEF Inv, TypeOK
<1> QED
  BY <1>1, MaxRunsAssumption

\* A step keeps the types.
LEMMA TypeStep ==
  ASSUME Inv, [Next]_vars
  PROVE  TypeOK'
<1> USE DEF runVars, sessionVars, stateVars, requestVars
<1>1. ASSUME RunBegin PROVE TypeOK'
  <2>1. conn < MaxRuns
    BY <1>1 DEF RunBegin
  <2>2. conn + 1 \in 0 .. MaxRuns
    BY <2>1, Numbering, MaxRunsAssumption
  <2> QED
    BY <1>1, <2>2 DEF RunBegin, Inv, TypeOK
<1>2. ASSUME RunResetStop PROVE TypeOK'
  BY <1>2 DEF RunResetStop, Inv, TypeOK, Active, Numbers, vars
<1>3. ASSUME RunBind PROVE TypeOK'
  BY <1>3 DEF RunBind, Inv, TypeOK, Active, Numbers, vars
<1>4. ASSUME RunStart PROVE TypeOK'
  BY <1>4 DEF RunStart, Inv, TypeOK, Active, Numbers, vars
<1>5. ASSUME RunWait PROVE TypeOK'
  BY <1>5 DEF RunWait, Inv, TypeOK, Active, Numbers, vars
<1>6. ASSUME RunClose PROVE TypeOK'
  BY <1>6 DEF RunClose, Inv, TypeOK, Active, Numbers, vars
<1>7. ASSUME RunDrain PROVE TypeOK'
  BY <1>7 DEF RunDrain, Inv, TypeOK, Active, Numbers, vars
<1>8. ASSUME RunUnbind PROVE TypeOK'
  <2>1. 0 \in 0 .. MaxRuns
    BY MaxRunsAssumption
  <2> QED
    BY <1>8, <2>1 DEF RunUnbind, Inv, TypeOK
<1>9. ASSUME Stop PROVE TypeOK'
  BY <1>9 DEF Stop, NotifyRun, Inv, TypeOK, Active, Numbers, vars
<1>10. ASSUME SessionEnds PROVE TypeOK'
  BY <1>10 DEF SessionEnds, Inv, TypeOK, Active, Numbers, vars
<1>11. ASSUME OnClosed PROVE TypeOK'
  BY <1>11 DEF OnClosed, NotifyRun, Inv, TypeOK, Active, Numbers, vars
<1>12. ASSUME NEW r \in Requests, Arrive(r) PROVE TypeOK'
  BY <1>12 DEF Arrive, Inv, TypeOK, Active, Numbers, vars
<1>13. ASSUME NEW r \in Requests, Claim(r) PROVE TypeOK'
  BY <1>13 DEF Claim, Inv, TypeOK, Active, Numbers, vars
<1>14. ASSUME NEW r \in Requests, Record(r) PROVE TypeOK'
  BY <1>14 DEF Record, Inv, TypeOK, Active, Numbers, vars
<1>15. ASSUME NEW r \in Requests, Describe(r) PROVE TypeOK'
  BY <1>15 DEF Describe, Inv, TypeOK, Active, Numbers, vars
<1>16. ASSUME NEW r \in Requests, Gate(r) PROVE TypeOK'
  BY <1>16 DEF Gate, Inv, TypeOK, Active, Numbers, vars
<1>17. ASSUME NEW r \in Requests, Serve(r) PROVE TypeOK'
  BY <1>17 DEF Serve, Inv, TypeOK, Active, Numbers, vars
<1>18. CASE UNCHANGED vars
  BY <1>18 DEF Inv, TypeOK, Active, Numbers, vars
<1> QED
  BY <1>1, <1>2, <1>3, <1>4, <1>5, <1>6, <1>7, <1>8, <1>9, <1>10, <1>11,
    <1>12, <1>13, <1>14, <1>15, <1>16, <1>17, <1>18 DEF Next, RunStep,
    HandlerStep, vars

\* A step keeps the numbers of connections.
LEMMA NumbersStep ==
  ASSUME Inv, [Next]_vars
  PROVE  Numbers'
<1> USE DEF runVars, sessionVars, stateVars, requestVars
<1>1. ASSUME RunBegin PROVE Numbers'
  <2>1. conn \in Nat /\ conn' = conn + 1
    BY <1>1, Numbering DEF RunBegin
  <2>2. \A r \in Requests : at[r] \in Nat /\ at'[r] = at[r]
    BY <1>1, Numbering DEF RunBegin
  <2>3. (\A r \in Requests : at[r] <= conn)' /\ conn' > 0
    BY <2>1, <2>2 DEF Inv, Numbers
  <2> QED
    BY <1>1, <2>3 DEF RunBegin, Inv, Numbers
<1>2. ASSUME RunResetStop PROVE Numbers'
  BY <1>2 DEF RunResetStop, Inv, TypeOK, Numbers
<1>3. ASSUME RunBind PROVE Numbers'
  BY <1>3 DEF RunBind, Inv, TypeOK, Numbers
<1>4. ASSUME RunStart PROVE Numbers'
  BY <1>4 DEF RunStart, Inv, TypeOK, Numbers
<1>5. ASSUME RunWait PROVE Numbers'
  BY <1>5 DEF RunWait, Inv, TypeOK, Numbers
<1>6. ASSUME RunClose PROVE Numbers'
  BY <1>6 DEF RunClose, Inv, TypeOK, Numbers
<1>7. ASSUME RunDrain PROVE Numbers'
  BY <1>7 DEF RunDrain, Inv, TypeOK, Numbers
<1>8. ASSUME RunUnbind PROVE Numbers'
  BY <1>8 DEF RunUnbind, Inv, TypeOK, Numbers
<1>9. ASSUME Stop PROVE Numbers'
  BY <1>9 DEF Stop, NotifyRun, Inv, TypeOK, Numbers
<1>10. ASSUME SessionEnds PROVE Numbers'
  BY <1>10 DEF SessionEnds, Inv, TypeOK, Numbers
<1>11. ASSUME OnClosed PROVE Numbers'
  BY <1>11 DEF OnClosed, NotifyRun, Inv, TypeOK, Numbers
<1>12. ASSUME NEW r \in Requests, Arrive(r) PROVE Numbers'
  <2>1. \A q \in Requests : at'[q] = at[q] \/ at'[q] = conn
    BY <1>12 DEF Arrive, Inv, TypeOK
  <2>2. conn' = conn /\ \A q \in Requests : at[q] <= conn
    BY <1>12 DEF Arrive, Inv, Numbers
  <2>3. (\A q \in Requests : at[q] <= conn)'
    BY <2>1, <2>2, Numbering
  <2> QED
    BY <1>12, <2>3 DEF Arrive, Inv, Numbers
<1>13. CASE UNCHANGED <<rpc, conn, session, open, at>>
  BY <1>13 DEF Inv, TypeOK, Numbers
<1> QED
  BY <1>1, <1>2, <1>3, <1>4, <1>5, <1>6, <1>7, <1>8, <1>9, <1>10, <1>11,
    <1>12, <1>13 DEF Next, RunStep, HandlerStep, vars, Claim, Record,
    Describe, Gate, Serve

\* A request no step of its handler touches stays in order, as long as its
\* connection goes on while it has a handler.
LEMMA HandlerStays ==
  ASSUME NEW q \in Requests, HandlerOK(q),
         hpc'[q] = hpc[q], at'[q] = at[q], reply'[q] = reply[q],
         kind'[q] = kind[q],
         hpc[q] \in Active => conn' = conn /\ rpc' \in Running
  PROVE  HandlerOK(q)'
BY DEF HandlerOK, Accepted

\* A step of run(), of the session or of its hook ends no connection that has
\* handlers.
LEMMA RunKeepsHandlers ==
  ASSUME Inv, RunBegin \/ RunStep \/ Stop \/ SessionEnds \/ OnClosed
  PROVE  Handlers'
<1> SUFFICES ASSUME NEW q \in Requests PROVE HandlerOK(q)'
  BY DEF Handlers
<1>1. UNCHANGED requestVars
  BY DEF RunStep, RunBegin, RunResetStop, RunBind, RunStart, RunWait, RunClose,
    RunDrain, RunUnbind, Stop, SessionEnds, OnClosed
<1>2. HandlerOK(q)
  BY DEF Inv, Handlers
<1>3. ASSUME hpc[q] \in Active PROVE conn' = conn /\ rpc' \in Running
  <2>1. rpc \in Running
    BY <1>2, <1>3 DEF HandlerOK
  <2>2. CASE RunBegin
    BY <2>1, <2>2 DEF RunBegin, Running
  <2>3. CASE RunStep
    BY <2>1, <2>3, <1>3 DEF RunStep, RunResetStop, RunBind, RunStart, RunWait,
      RunClose, RunDrain, RunUnbind, Running
  <2>4. CASE Stop \/ SessionEnds \/ OnClosed
    BY <2>1, <2>4 DEF Stop, SessionEnds, OnClosed, NotifyRun, Running, runVars
  <2> QED
    BY <2>2, <2>3, <2>4
<1> QED
  BY <1>1, <1>2, <1>3, HandlerStays DEF requestVars

\* A step leaves no handler behind.
LEMMA HandlersStep ==
  ASSUME Inv, [Next]_vars
  PROVE  Handlers'
<1> USE DEF runVars, sessionVars, stateVars, requestVars
<1> /\ \A q \in Requests : HandlerOK(q)
    /\ hpc \in [Requests -> Active \cup {"new", "done"}]
    /\ at \in [Requests -> 0 .. MaxRuns]
    /\ reply \in [Requests -> {"none", "ok", "already", "not initialized"}]
    /\ kind \in [Requests -> {"initialize", "other"}]
  BY DEF Inv, Handlers, TypeOK
<1>1. CASE RunBegin \/ RunStep \/ Stop \/ SessionEnds \/ OnClosed
  BY <1>1, RunKeepsHandlers
<1>2. ASSUME NEW r \in Requests, Arrive(r), NEW q \in Requests
     PROVE  HandlerOK(q)'
  <2>1. UNCHANGED <<conn, rpc, kind, reply>>
    BY <1>2 DEF Arrive
  <2>2. CASE q # r
    <3>1. hpc'[q] = hpc[q] /\ at'[q] = at[q]
      BY <1>2, <2>2 DEF Arrive
    <3> QED
      BY <2>1, <3>1, HandlerStays DEF HandlerOK
  <2>3. CASE q = r
    <3>1. /\ hpc[q] = "new" /\ at'[q] = conn
          /\ hpc'[q] = IF kind[q] = "initialize" THEN "claim" ELSE "gate"
      BY <1>2, <2>3 DEF Arrive
    <3>2. reply'[q] = "none" /\ kind'[q] \in {"initialize", "other"}
      BY <2>1, <3>1 DEF HandlerOK
    <3>3. rpc' \in Running
      BY <1>2, <2>1 DEF Arrive, Inv, Numbers, Running
    <3>4. ~Accepted(q)'
      BY <2>1, <3>1, <3>2 DEF Accepted
    <3> QED
      BY <2>1, <3>1, <3>2, <3>3, <3>4 DEF HandlerOK, Active
  <2> QED
    BY <2>2, <2>3
<1>3. ASSUME NEW r \in Requests, HandlerStep(r), NEW q \in Requests
     PROVE  HandlerOK(q)'
  <2>1. UNCHANGED <<conn, rpc, kind, at>>
    BY <1>3 DEF HandlerStep, Claim, Record, Describe, Gate, Serve
  <2>2. CASE q # r
    <3>1. hpc'[q] = hpc[q] /\ reply'[q] = reply[q]
      BY <1>3, <2>2 DEF HandlerStep, Claim, Record, Describe, Gate, Serve
    <3> QED
      BY <2>1, <3>1, HandlerStays DEF HandlerOK
  <2>3. CASE q = r
    <3>1. /\ hpc[q] \in Active
          /\ \/ reply'[q] = reply[q] /\ hpc'[q] \in {"record", "describe"}
                /\ hpc[q] \in {"claim", "record"}
             \/ reply'[q] = reply[q] /\ hpc[q] = "gate" /\ hpc'[q] = "serve"
             \/ reply'[q] # "none" /\ hpc'[q] = "done"
      BY <1>3, <2>3 DEF HandlerStep, Claim, Record, Describe, Gate, Serve, Active
    <3>2. at[q] = conn /\ conn > 0
      BY <3>1 DEF HandlerOK, Inv, Numbers, Running
    <3> QED
      BY <2>1, <3>1, <3>2 DEF HandlerOK, Active, Accepted
  <2> QED
    BY <2>2, <2>3
<1>4. CASE UNCHANGED vars
  <2> SUFFICES ASSUME NEW q \in Requests PROVE HandlerOK(q)'
    BY DEF Handlers
  <2> QED
    BY <1>4, HandlerStays DEF HandlerOK, vars
<1> QED
  BY <1>1, <1>2, <1>3, <1>4 DEF Next, Handlers

\* Only the initialize that claims initialized_ is accepted, once and for all;
\* no other request changes its connection once it has one.
LEMMA AcceptedStep ==
  ASSUME Inv, [Next]_vars
  PROVE  /\ \A q \in Requests : Accepted(q) =>
              Accepted(q)' /\ at'[q] = at[q] /\ offer'[q] = offer[q]
         /\ \A q \in Requests : Accepted(q)' /\ ~Accepted(q) =>
              /\ Claim(q) /\ ~initialized /\ initialized'
              /\ at[q] = conn /\ hpc'[q] = "record"
              /\ at' = at /\ conn' = conn /\ caps' = caps
              /\ \A r \in Requests \ {q} : Accepted(r)' => Accepted(r)
<1> USE DEF runVars, sessionVars, stateVars, requestVars
<1> DEFINE Keeps == \A q \in Requests : Accepted(q) =>
             Accepted(q)' /\ at'[q] = at[q] /\ offer'[q] = offer[q]
           None == \A q \in Requests : Accepted(q)' => Accepted(q)
<1>1. ASSUME NEW r \in Requests, Arrive(r) PROVE Keeps /\ None
  BY <1>1 DEF Arrive, Inv, TypeOK, Handlers, HandlerOK, Accepted
<1>2. ASSUME NEW r \in Requests, Record(r) PROVE Keeps /\ None
  BY <1>2 DEF Record, Inv, TypeOK, Handlers, HandlerOK, Accepted
<1>3. ASSUME NEW r \in Requests, Describe(r) PROVE Keeps /\ None
  BY <1>3 DEF Describe, Inv, TypeOK, Handlers, HandlerOK, Accepted
<1>4. ASSUME NEW r \in Requests, Gate(r) PROVE Keeps /\ None
  BY <1>4 DEF Gate, Inv, TypeOK, Handlers, HandlerOK, Accepted
<1>5. ASSUME NEW r \in Requests, Serve(r) PROVE Keeps /\ None
  BY <1>5 DEF Serve, Inv, TypeOK, Handlers, HandlerOK, Accepted
<1>6. CASE UNCHANGED <<hpc, kind, at, offer, reply>>
  BY <1>6 DEF Accepted
<1>7. ASSUME NEW r \in Requests, Claim(r), initialized PROVE Keeps /\ None
  BY <1>7 DEF Claim, Inv, TypeOK, Handlers, HandlerOK, Accepted
<1>8. ASSUME NEW r \in Requests, Claim(r), ~initialized
     PROVE  /\ Keeps /\ initialized' /\ at[r] = conn /\ hpc'[r] = "record"
            /\ at' = at /\ conn' = conn /\ caps' = caps
            /\ \A q \in Requests \ {r} : Accepted(q)' => Accepted(q)
  <2>1. Keeps
    BY <1>8 DEF Claim, Inv, TypeOK, Handlers, HandlerOK, Accepted
  <2>2. /\ initialized' /\ hpc'[r] = "record"
        /\ at' = at /\ conn' = conn /\ caps' = caps
    BY <1>8 DEF Claim, Inv, TypeOK
  <2>3. at[r] = conn
    BY <1>8 DEF Claim, Inv, Handlers, HandlerOK, Active
  <2>4. \A q \in Requests \ {r} : Accepted(q)' => Accepted(q)
    BY <1>8 DEF Claim, Inv, TypeOK, Accepted
  <2> QED
    BY <2>1, <2>2, <2>3, <2>4
<1>9. \/ \E r \in Requests : Claim(r)
      \/ Keeps /\ None
  BY <1>1, <1>2, <1>3, <1>4, <1>5, <1>6 DEF Next, RunStep, HandlerStep, vars,
     RunBegin, RunResetStop, RunBind, RunStart, RunWait, RunClose, RunDrain,
     RunUnbind, Stop, SessionEnds, OnClosed
<1>10. CASE Keeps /\ None
  BY <1>10
<1>11. ASSUME NEW r \in Requests, Claim(r), ~initialized,
              NEW q \in Requests, Accepted(q)', ~Accepted(q)
      PROVE  q = r
  BY <1>8, <1>11
<1> QED
  BY <1>7, <1>8, <1>9, <1>10, <1>11

\* A step sets initialized_ when it accepts an initialize.
LEMMA InitializedStep ==
  ASSUME Inv, [Next]_vars
  PROVE  Initialized'
<1> USE DEF runVars, sessionVars, stateVars, requestVars
<1>1. CASE RunBegin
  <2>1. conn \in Nat /\ conn' = conn + 1 /\ ~initialized'
    BY <1>1, Numbering DEF RunBegin
  <2>2. \A r \in Requests : at[r] \in Nat /\ at'[r] = at[r]
    BY <1>1, Numbering DEF RunBegin
  <2>3. \A r \in Requests : at'[r] # conn'
    BY <2>1, <2>2 DEF Inv, Numbers
  <2> QED
    BY <2>1, <2>3 DEF Initialized
<1>2. ASSUME NEW q \in Requests, Accepted(q)', ~Accepted(q)
     PROVE  Initialized'
  BY <1>2, AcceptedStep DEF Initialized
<1>3. CASE /\ ~RunBegin
           /\ \A q \in Requests : Accepted(q)' => Accepted(q)
  <2>1. conn' = conn
    BY <1>3 DEF Next, RunStep, HandlerStep, vars, RunResetStop, RunBind,
       RunStart, RunWait, RunClose, RunDrain, RunUnbind, Stop, SessionEnds,
       OnClosed, Arrive, Claim, Record, Describe, Gate, Serve
  <2>2. (\E q \in Requests : Accepted(q) /\ at[q] = conn)'
          <=> \E q \in Requests : Accepted(q) /\ at[q] = conn
    BY <1>3, <2>1, AcceptedStep
  <2>3. initialized' = initialized \/ (initialized' = TRUE /\ ~initialized
          /\ \E q \in Requests : Claim(q))
    BY <1>3 DEF Next, RunStep, HandlerStep, vars, RunResetStop, RunBind,
       RunStart, RunWait, RunClose, RunDrain, RunUnbind, Stop, SessionEnds,
       OnClosed, Arrive, Claim, Record, Describe, Gate, Serve, Inv, TypeOK
  <2>4. ASSUME NEW q \in Requests, Claim(q), ~initialized
       PROVE  FALSE
    <3>1. Accepted(q)'
      BY <2>4 DEF Claim, Inv, TypeOK, Handlers, HandlerOK, Accepted
    <3>2. ~Accepted(q)
      BY <2>4 DEF Claim, Inv, Handlers, HandlerOK, Active, Accepted
    <3> QED
      BY <1>3, <3>1, <3>2
  <2> QED
    BY <2>2, <2>3, <2>4 DEF Inv, Initialized
<1> QED
  BY <1>1, <1>2, <1>3

\* A step accepts no second initialize.
LEMMA OnceStep ==
  ASSUME Inv, [Next]_vars
  PROVE  InitializedOnce'
<1> SUFFICES ASSUME NEW q \in Requests, NEW r \in Requests,
                    Accepted(q)', Accepted(r)', at'[q] = at'[r]
             PROVE  q = r
  BY DEF InitializedOnce
<1>1. CASE Accepted(q) /\ Accepted(r)
  BY <1>1, AcceptedStep DEF Inv, InitializedOnce
<1>2. CASE ~Accepted(q)
  BY <1>2, AcceptedStep DEF Inv, Initialized
<1>3. CASE ~Accepted(r)
  BY <1>3, AcceptedStep DEF Inv, Initialized
<1> QED
  BY <1>1, <1>2, <1>3

\* A step serves no request before the connection is initialized.
LEMMA ServedStep ==
  ASSUME Inv, [Next]_vars
  PROVE  ServedAfterInitialize'
<1> USE DEF runVars, sessionVars, stateVars, requestVars
<1> SUFFICES ASSUME NEW r \in Requests, hpc'[r] = "serve"
             PROVE  \E q \in Requests : Accepted(q)' /\ at'[q] = at'[r]
  BY DEF ServedAfterInitialize
<1>1. \/ hpc[r] = "serve" /\ at'[r] = at[r]
      \/ hpc[r] = "gate" /\ initialized /\ at'[r] = at[r]
  <2> /\ hpc \in [Requests -> Active \cup {"new", "done"}]
      /\ at \in [Requests -> 0 .. MaxRuns]
    BY DEF Inv, TypeOK
  <2>1. CASE UNCHANGED requestVars
    BY <2>1
  <2>2. ASSUME NEW q \in Requests, Arrive(q)
       PROVE  hpc[r] = "serve" /\ at'[r] = at[r]
    BY <2>2 DEF Arrive
  <2>3. ASSUME NEW q \in Requests, Claim(q) \/ Record(q) \/ Describe(q) \/ Serve(q)
       PROVE  hpc[r] = "serve" /\ at'[r] = at[r]
    BY <2>3 DEF Claim, Record, Describe, Serve
  <2>4. ASSUME NEW q \in Requests, Gate(q)
       PROVE  \/ hpc[r] = "serve" /\ at'[r] = at[r]
              \/ hpc[r] = "gate" /\ initialized /\ at'[r] = at[r]
    BY <2>4 DEF Gate
  <2> QED
    BY <2>1, <2>2, <2>3, <2>4 DEF Next, RunStep, HandlerStep, vars, RunBegin,
      RunResetStop, RunBind, RunStart, RunWait, RunClose, RunDrain, RunUnbind,
      Stop, SessionEnds, OnClosed
<1>2. \E q \in Requests : Accepted(q) /\ at[q] = at[r]
  <2>1. CASE hpc[r] = "serve"
    BY <2>1 DEF Inv, ServedAfterInitialize
  <2>2. CASE hpc[r] = "gate" /\ initialized
    BY <2>2 DEF Inv, Initialized, Handlers, HandlerOK, Active
  <2> QED
    BY <1>1, <2>1, <2>2
<1> QED
  BY <1>1, <1>2, AcceptedStep

\* A step records the capabilities of its own client.
LEMMA RecordedStep ==
  ASSUME Inv, [Next]_vars
  PROVE  Recorded'
<1> USE DEF runVars, sessionVars, stateVars, requestVars
<1>1. ASSUME RunBegin PROVE Recorded'
  <2>1. conn \in Nat /\ conn' = conn + 1
    BY <1>1, Numbering DEF RunBegin
  <2>2. \A r \in Requests : at[r] \in Nat /\ at'[r] = at[r]
    BY <1>1, Numbering DEF RunBegin
  <2>3. \A r \in Requests : at'[r] # conn'
    BY <2>1, <2>2 DEF Inv, Numbers
  <2> QED
    BY <2>3 DEF Recorded
<1>2. CASE Next /\ ~RunBegin
  <2> SUFFICES ASSUME NEW q \in Requests, Accepted(q)', at'[q] = conn',
                      hpc'[q] # "record"
               PROVE  caps' = offer'[q]
    BY DEF Recorded
  <2>1. Accepted(q) /\ at'[q] = at[q] /\ offer'[q] = offer[q]
    BY AcceptedStep
  <2>2. conn' = conn
    BY <1>2 DEF Next, RunStep, HandlerStep, RunResetStop, RunBind, RunStart,
      RunWait, RunClose, RunDrain, RunUnbind, Stop, SessionEnds, OnClosed,
      Arrive, Claim, Record, Describe, Gate, Serve
  <2>3. at[q] = conn
    BY <2>1, <2>2
  <2>4. ASSUME NEW r \in Requests, Record(r) PROVE caps' = offer'[q]
    <3>1. hpc[r] = "record" /\ caps' = offer[r]
      BY <2>4 DEF Record
    <3>2. Accepted(r) /\ at[r] = conn
      BY <3>1 DEF Inv, Handlers, HandlerOK, Accepted, Active
    <3>3. q = r
      BY <2>1, <2>3, <3>2 DEF Inv, InitializedOnce
    <3> QED
      BY <2>1, <3>1, <3>3
  <2>5. ASSUME \A r \in Requests : ~Record(r) PROVE caps' = offer'[q]
    <3>1. caps' = caps
      BY <1>2, <2>5 DEF Next, RunStep, HandlerStep, RunResetStop, RunBind,
        RunStart, RunWait, RunClose, RunDrain, RunUnbind, Stop, SessionEnds,
        OnClosed, Arrive, Claim, Describe, Gate, Serve
    <3>2. hpc[q] # "record"
      <4>1. ASSUME NEW r \in Requests,
                   Claim(r) \/ Describe(r) \/ Gate(r) \/ Serve(r) \/ Arrive(r)
            PROVE  hpc[q] # "record"
        <5>1. CASE q = r
          BY <4>1, <5>1 DEF Claim, Describe, Gate, Serve, Arrive
        <5>2. CASE q # r
          <6>1. hpc'[q] = hpc[q]
            BY <4>1, <5>2 DEF Claim, Describe, Gate, Serve, Arrive, Inv, TypeOK
          <6> QED
            BY <6>1
        <5> QED
          BY <5>1, <5>2
      <4>2. CASE UNCHANGED hpc
        BY <4>2
      <4> QED
        BY <1>2, <2>5, <4>1, <4>2 DEF Next, RunStep, HandlerStep, RunResetStop,
          RunBind, RunStart, RunWait, RunClose, RunDrain, RunUnbind, Stop,
          SessionEnds, OnClosed
    <3> QED
      BY <2>1, <2>3, <3>1, <3>2 DEF Inv, Recorded
  <2> QED
    BY <2>4, <2>5
<1>3. CASE UNCHANGED vars
  BY <1>3 DEF vars, Inv, Recorded, Accepted
<1> QED
  BY <1>1, <1>2, <1>3

------------------------------------------------------------------------------
\* The invariant holds before the first run() ...
LEMMA InitInv == Init => Inv
<1> SUFFICES ASSUME Init PROVE Inv
  OBVIOUS
<1>1. TypeOK
  <2>1. 0 \in 0 .. MaxRuns
    BY MaxRunsAssumption
  <2> QED
    BY <2>1 DEF Init, TypeOK
<1>2. Numbers /\ Handlers
  BY DEF Init, Numbers, Handlers, HandlerOK, Accepted, Active
<1>3. \A r \in Requests : ~Accepted(r)
  BY DEF Init, Accepted
<1>4. Initialized /\ InitializedOnce /\ ServedAfterInitialize /\ Recorded
  BY <1>3 DEF Init, Initialized, InitializedOnce, ServedAfterInitialize,
     Recorded
<1> QED
  BY <1>1, <1>2, <1>4 DEF Inv

\* ... and every step of run(), stop(), of the session and of a handler keeps it.
LEMMA StepInv == Inv /\ [Next]_vars => Inv'
BY TypeStep, NumbersStep, HandlersStep, InitializedStep, OnceStep, ServedStep,
   RecordedStep DEF Inv

\* It holds throughout, over any number of runs.
THEOREM Invariance == Spec => []Inv
BY InitInv, StepInv, PTL DEF Spec

\* Every variable of the server keeps its type.
THEOREM TypeCorrect == Spec => []TypeOK
<1>1. Inv => TypeOK
  BY DEF Inv
<1> QED
  BY <1>1, Invariance, PTL

\* Of the initialize requests of a connection at most one is accepted.
THEOREM AtMostOneInitialize == Spec => []InitializedOnce
<1>1. Inv => InitializedOnce
  BY DEF Inv
<1> QED
  BY <1>1, Invariance, PTL

\* No request is served on the strength of an earlier client's initialize.
THEOREM ServedWhenInitialized == Spec => []ServedAfterInitialize
<1>1. Inv => ServedAfterInitialize
  BY DEF Inv
<1> QED
  BY <1>1, Invariance, PTL

\* After an initialize client_capabilities() are those of its client.
THEOREM OwnCapabilities == Spec => []CapabilitiesOfClient
<1>1. Inv => CapabilitiesOfClient
  BY DEF Inv, Handlers, HandlerOK, Recorded, CapabilitiesOfClient, Active
<1> QED
  BY <1>1, Invariance, PTL

\* run() keeps session_ until the last handler is done with it.
THEOREM SessionForHandlers == Spec => []HandlersHaveSession
<1>1. Inv => HandlersHaveSession
  <2> SUFFICES ASSUME Inv, NEW r \in Requests, hpc[r] \in Active
               PROVE  session = at[r] /\ at[r] # 0
    BY DEF HandlersHaveSession
  <2>1. at[r] = conn /\ rpc \in {"check", "asleep", "close", "drain"}
    BY DEF Inv, Handlers, HandlerOK, Running
  <2>2. session = conn /\ conn > 0
    BY <2>1 DEF Inv, Numbers
  <2> QED
    BY <2>1, <2>2
<1> QED
  BY <1>1, Invariance, PTL

------------------------------------------------------------------------------
(* What the server lists, and a client that reads it *)

\* A hash map has as many entries as keys; the places of a list are within its
\* size, and in a log they are those of the additions.
PlacesOK ==
  /\ \A l \in Maps : size[l] = Cardinality(Content(l))
  /\ \A l \in Lists, x \in Items : place[l][x] <= size[l]
  /\ \A l \in Logs, x \in Items : place[l][x] = IF x <= size[l] THEN x ELSE 0

\* What a reader knows, as long as the order has not changed under it: it has
\* been given the items up to its cursor, each once, and those that were there
\* when it began are still there.
ReadSoFar ==
  (reading \in Logs \/ ~mixed) =>
    \A x \in Items :
      /\ seen[x] = IF place[reading][x] \in 1 .. cursor THEN 1 ELSE 0
      /\ x \in begun => place[reading][x] # 0

\* A cursor that is not 0 was the end of a whole page, so that the next sum
\* stays below the width of the type.
ReaderOK ==
  /\ pc = "idle" => cursor = 0 /\ \A x \in Items : seen[x] = 0
  /\ pc = "paging" => /\ cursor <= size[reading]
                      /\ cursor > 0 => pageSize <= cursor
                      /\ ReadSoFar
  /\ AllSeenOnce
  /\ OwnCursorsServed

RegistryInv == RegistryTypeOK /\ PlacesOK /\ ReaderOK

------------------------------------------------------------------------------
(* Sums and pages *)

LEMMA Modulo ==
  ASSUME NEW n \in Nat, NEW a \in Nat, a < n
  PROVE  a % n = a
  OBVIOUS

\* A sum below Word does not wrap.
LEMMA NoWrap ==
  ASSUME NEW a \in Nat, NEW b \in Nat, a + b < Word
  PROVE  Sum(a, b) = a + b
  <1>1. a + b \in Nat /\ Word \in Nat
    BY WordAssumption
  <1> QED
    BY <1>1, Modulo DEF Sum

\* A sum of two words that reaches Word loses it.
LEMMA Wraps ==
  ASSUME NEW a \in 0 .. Word - 1, NEW b \in 0 .. Word - 1, a + b >= Word
  PROVE  Sum(a, b) = a + b - Word
  <1>1. Word \in Nat /\ a \in Nat /\ b \in Nat
    BY WordAssumption
  <1>2. a + b - Word \in Nat /\ a + b - Word < Word
    BY <1>1
  <1>3. (a + b) % Word = a + b - Word
    BY <1>1, <1>2, Z3T(30)
  <1> QED
    BY <1>3 DEF Sum

\* The two copies of the code, paginate() and TaskStore::list, cut the same page
\* from a list, also where the sum wraps around.
THEOREM PagesAgree ==
  ASSUME RegistryTypeOK, NEW n \in Nat, NEW offset \in 0 .. Word - 1
  PROVE  PageEnd(n, offset) = ListEnd(n, offset)
  <1>1. Word \in Nat /\ pageSize \in 0 .. Word - 1
    BY PageSizesAssumption, WordAssumption DEF RegistryTypeOK
  <1>2. Sum(offset, pageSize) \in Int
    <2>1. CASE offset + pageSize < Word
      BY <1>1, <2>1, NoWrap
    <2>2. CASE offset + pageSize >= Word
      BY <1>1, <2>2, Wraps
    <2> QED
      BY <1>1, <2>1, <2>2
  <1> QED
    BY <1>1, <1>2 DEF PageEnd, ListEnd

\* The end of a page, for either copy.
LEMMA EndIs ==
  ASSUME RegistryTypeOK, NEW l \in Lists, NEW offset \in 0 .. Word - 1
  PROVE  End(l, offset) =
           IF pageSize = 0 \/ Sum(offset, pageSize) >= size[l]
           THEN size[l] ELSE Sum(offset, pageSize)
  <1>1. size[l] \in Nat
    BY MaxItemsAssumption DEF RegistryTypeOK
  <1> QED
    BY <1>1, PagesAgree DEF End, PageEnd

\* What the reader is told of the page at its own cursor.
LEMMA OwnReply ==
  ASSUME RegistryInv, pc = "paging"
  PROVE  LET r == Reply(reading, Own) IN
         /\ r.is \in {"more", "last"}
         /\ r.is = "more" => /\ r.from = cursor + 1
                             /\ r.to = cursor + pageSize
                             /\ r.to > cursor
                             /\ r.to < size[reading]
         /\ r.is = "last" => \/ /\ r.from = cursor + 1
                                /\ r.to = size[reading]
                             \/ /\ r.from = 1 /\ r.to = 0
                                /\ cursor = size[reading]
  <1> DEFINE end == End(reading, cursor)
  <1>1. /\ reading \in Lists /\ MaxItems \in Nat /\ Word \in Nat
        /\ 2 * MaxItems < Word
        /\ size[reading] \in 0 .. MaxItems
        /\ cursor \in 0 .. MaxItems /\ cursor <= size[reading]
        /\ cursor > 0 => pageSize <= cursor
        /\ pageSize \in 0 .. Word - 1
    BY MaxItemsAssumption, WordAssumption, PageSizesAssumption
       DEF RegistryInv, RegistryTypeOK, ReaderOK
  <1>2. cursor \in 0 .. Word - 1 /\ cursor + pageSize < Word
    BY <1>1
  <1>3. Sum(cursor, pageSize) = cursor + pageSize
    BY <1>1, <1>2, NoWrap
  <1>4. end = IF pageSize = 0 \/ cursor + pageSize >= size[reading]
              THEN size[reading] ELSE cursor + pageSize
    BY <1>1, <1>2, <1>3, EndIs DEF RegistryInv
  <1>5. /\ Own.value = cursor
        /\ Valid(reading, Own)
    BY <1>1, <1>2 DEF Own, Valid
  <1>6. CASE cursor >= size[reading]
    <2>1. Reply(reading, Own) = [is |-> "last", from |-> 1, to |-> 0]
      BY <1>1, <1>5, <1>6 DEF Reply
    <2> QED
      BY <1>1, <1>6, <2>1
  <1>7. CASE cursor < size[reading]
    <2>1. Reply(reading, Own) =
            [is |-> IF end < cursor THEN "internal error"
                    ELSE IF end < size[reading] THEN "more" ELSE "last",
             from |-> cursor + 1, to |-> end]
      <3>1. end \in Nat /\ End(reading, Own.value) = end
        BY <1>1, <1>4, <1>5
      <3>2. ~(Own.value >= size[reading])
        BY <1>1, <1>5, <1>7
      <3> HIDE DEF end
      <3> QED
        BY <1>1, <1>5, <3>1, <3>2 DEF Reply
    <2>2. ~(end < cursor)
      BY <1>1, <1>4, <1>7
    <2>3. CASE end < size[reading]
      <3>1. Reply(reading, Own) = [is |-> "more", from |-> cursor + 1, to |-> end]
        BY <2>1, <2>2, <2>3
      <3> QED
        BY <1>1, <1>4, <1>7, <2>3, <3>1
    <2>4. CASE ~(end < size[reading])
      <3>1. Reply(reading, Own) = [is |-> "last", from |-> cursor + 1, to |-> end]
        BY <2>1, <2>2, <2>4
      <3> QED
        BY <1>1, <1>4, <1>7, <2>4, <3>1
    <2> QED
      BY <2>3, <2>4
  <1> QED
    BY <1>1, <1>6, <1>7

------------------------------------------------------------------------------
(* The invariant *)

LEMMA InvInit ==
  ASSUME RegistryInit
  PROVE  RegistryInv
  <1>1. RegistryTypeOK
    <2>1. 0 \in 0 .. MaxItems
      BY MaxItemsAssumption
    <2>2. [x \in Items |-> 0] \in [Items -> 0 .. MaxItems]
      BY <2>1
    <2>3. place \in [Lists -> [Items -> 0 .. MaxItems]]
      BY <2>2 DEF RegistryInit
    <2> QED
      BY <2>1, <2>3 DEF RegistryInit, RegistryTypeOK
  <1>2. PlacesOK
    <2>1. \A l \in Maps : size[l] = Cardinality(Content(l))
      <3> SUFFICES ASSUME NEW l \in Maps
                   PROVE  size[l] = Cardinality(Content(l))
        OBVIOUS
      <3>1. l \in Lists
        BY DEF Lists
      <3>2. Content(l) = {}
        BY <3>1 DEF RegistryInit, Content
      <3> QED
        BY <3>1, <3>2, FS_EmptySet DEF RegistryInit
    <2>2. \A l \in Lists, x \in Items : place[l][x] = 0 /\ size[l] = 0
      BY DEF RegistryInit
    <2>3. \A x \in Items : ~(x <= 0)
      BY MaxItemsAssumption DEF Items
    <2> QED
      BY <2>1, <2>2, <2>3 DEF PlacesOK, Lists
  <1>3. ReaderOK
    BY DEF RegistryInit, ReaderOK, AllSeenOnce, OwnCursorsServed
  <1> QED
    BY <1>1, <1>2, <1>3 DEF RegistryInv

\* A new key leaves room for it: there are no more keys than items.
LEMMA RoomForNewKey ==
  ASSUME RegistryInv, NEW l \in Maps, NEW x \in Items, x \notin Content(l)
  PROVE  /\ size[l] + 1 <= MaxItems
         /\ Cardinality(Content(l) \cup {x}) = size[l] + 1
  <1>1. IsFiniteSet(Items) /\ Cardinality(Items) = MaxItems
    BY FS_Interval, MaxItemsAssumption DEF Items
  <1>2. Content(l) \subseteq Items
    BY DEF Content
  <1>3. IsFiniteSet(Content(l))
    BY <1>1, <1>2, FS_Subset
  <1>4. Cardinality(Content(l) \cup {x}) = size[l] + 1
    <2>1. size[l] = Cardinality(Content(l))
      BY DEF RegistryInv, PlacesOK
    <2>2. Cardinality(Content(l) \cup {x}) = Cardinality(Content(l)) + 1
      BY <1>3, FS_AddElement
    <2> QED
      BY <2>1, <2>2
  <1>5. Cardinality(Content(l) \cup {x}) <= Cardinality(Items)
    BY <1>1, <1>2, FS_Subset
  <1> QED
    BY <1>1, <1>4, <1>5

LEMMA RegisterKeepsInv ==
  ASSUME RegistryInv, NEW l \in Maps, NEW x \in Items, Register(l, x)
  PROVE  RegistryInv'
  <1>1. CASE x \in Content(l) /\ UNCHANGED <<size, place, mixed>>
    BY <1>1 DEF RegistryInv, Register, readerVars, RegistryTypeOK, PlacesOK, Content, ReaderOK,
            ReadSoFar, AllSeenOnce, OwnCursorsServed
  <1>2. CASE x \notin Content(l)
    <2>1. PICK f \in Orders(Content(l) \cup {x}, size[l] + 1) :
            place' = [place EXCEPT ![l] = f]
      BY <1>2 DEF Register
    <2>2. /\ size' = [size EXCEPT ![l] = @ + 1]
          /\ mixed' = (mixed \/ l = reading)
          /\ UNCHANGED <<pageSize, readerVars>>
      BY <1>2 DEF Register
    <2>3. /\ f \in [Items -> 0 .. size[l] + 1]
          /\ \A y \in Items : f[y] # 0 <=> y \in Content(l) \cup {x}
      BY <2>1 DEF Orders
    <2>4. /\ size[l] + 1 <= MaxItems
          /\ Cardinality(Content(l) \cup {x}) = size[l] + 1
      BY <1>2, RoomForNewKey
    <2>5. l \in Lists /\ size[l] \in Nat /\ l \notin Logs
      BY MaxItemsAssumption, ListsAssumption DEF RegistryInv, RegistryTypeOK, Lists
    <2>6. RegistryTypeOK'
      <3>1. size' \in [Lists -> 0 .. MaxItems]
        BY <2>2, <2>4, <2>5, MaxItemsAssumption DEF RegistryInv, RegistryTypeOK
      <3>2. f \in [Items -> 0 .. MaxItems]
        BY <2>3, <2>4, <2>5, MaxItemsAssumption
      <3>3. place' \in [Lists -> [Items -> 0 .. MaxItems]]
        BY <2>1, <2>5, <3>2 DEF RegistryInv, RegistryTypeOK
      <3>4. mixed' \in BOOLEAN
        BY <2>2 DEF RegistryInv, RegistryTypeOK
      <3> QED
        BY <2>2, <3>1, <3>3, <3>4 DEF RegistryInv, RegistryTypeOK, readerVars
    <2>7. PlacesOK'
      <3>1. place'[l] = f /\ size'[l] = size[l] + 1
        BY <2>1, <2>2, <2>5 DEF RegistryInv, RegistryTypeOK
      <3>2. \A k \in Lists : k # l => place'[k] = place[k] /\ size'[k] = size[k]
        BY <2>1, <2>2 DEF RegistryInv, RegistryTypeOK
      <3>3. Content(l)' = Content(l) \cup {x}
        BY <2>3, <3>1 DEF Content
      <3>4. \A k \in Maps : size'[k] = Cardinality(Content(k)')
        <4> SUFFICES ASSUME NEW k \in Maps
                     PROVE  size'[k] = Cardinality(Content(k)')
          OBVIOUS
        <4>1. CASE k = l
          BY <2>4, <3>1, <3>3, <4>1
        <4>2. CASE k # l
          <5>1. Content(k)' = Content(k)
            BY <3>2, <4>2 DEF Content, Lists
          <5> QED
            BY <3>2, <4>2, <5>1 DEF RegistryInv, PlacesOK, Lists
        <4> QED
          BY <4>1, <4>2
      <3>5. \A k \in Lists, y \in Items : place'[k][y] <= size'[k]
        BY <2>3, <2>5, <3>1, <3>2 DEF RegistryInv, PlacesOK
      <3>6. \A k \in Logs, y \in Items :
              place'[k][y] = IF y <= size'[k] THEN y ELSE 0
        BY <2>5, <3>2 DEF RegistryInv, PlacesOK, Lists
      <3> QED
        BY <3>4, <3>5, <3>6 DEF PlacesOK
    <2>8. ReaderOK'
      <3>1. l = reading => mixed' /\ reading \notin Logs
        BY <2>2, <2>5
      <3>2. l # reading => /\ mixed' = mixed
                          /\ place'[reading] = place[reading]
                          /\ size'[reading] = size[reading]
        BY <2>1, <2>2 DEF RegistryInv, RegistryTypeOK
      <3>3. /\ cursor \in Nat /\ size[reading] \in Nat
            /\ size'[reading] \in Nat /\ size'[reading] >= size[reading]
        BY <2>2, <2>5, <3>2, MaxItemsAssumption DEF RegistryInv, RegistryTypeOK
      <3>4. pc = "paging" => cursor <= size'[reading]
        <4>1. pc = "paging" => cursor <= size[reading]
          BY DEF RegistryInv, ReaderOK
        <4> QED
          BY <3>3, <4>1
      <3> QED
        BY <2>2, <3>1, <3>2, <3>4
           DEF RegistryInv, readerVars, ReaderOK, ReadSoFar, AllSeenOnce, OwnCursorsServed
    <2> QED
      BY <2>6, <2>7, <2>8 DEF RegistryInv
  <1> QED
    BY <1>1, <1>2 DEF Register

LEMMA AddKeepsInv ==
  ASSUME RegistryInv, NEW l \in Logs, Add(l)
  PROVE  RegistryInv'
  <1> DEFINE n == size[l] + 1
  <1>1. /\ l \in Lists /\ l \notin Maps
        /\ size[l] \in 0 .. MaxItems /\ MaxItems \in Nat
        /\ n \in Items /\ n <= MaxItems
    <2>1. l \in Lists /\ l \notin Maps
      BY ListsAssumption DEF Lists
    <2>2. size[l] \in 0 .. MaxItems /\ MaxItems \in Nat
      BY <2>1, MaxItemsAssumption DEF RegistryInv, RegistryTypeOK
    <2>3. size[l] < MaxItems
      BY DEF Add
    <2> QED
      BY <2>1, <2>2, <2>3 DEF Items
  <1>2. /\ size' = [size EXCEPT ![l] = n]
        /\ place' = [place EXCEPT ![l] = [place[l] EXCEPT ![n] = n]]
        /\ UNCHANGED <<pageSize, mixed, readerVars>>
    BY DEF Add
  <1>3. /\ size'[l] = n
        /\ place'[l] = [place[l] EXCEPT ![n] = n]
        /\ \A k \in Lists : k # l => place'[k] = place[k] /\ size'[k] = size[k]
    BY <1>1, <1>2 DEF RegistryInv, RegistryTypeOK
  <1>4. /\ place'[l][n] = n /\ place[l][n] = 0
        /\ \A x \in Items : x # n => place'[l][x] = place[l][x]
    BY <1>1, <1>3 DEF RegistryInv, RegistryTypeOK, PlacesOK
  <1>5. RegistryTypeOK'
    <2>1. size' \in [Lists -> 0 .. MaxItems]
      BY <1>1, <1>2 DEF RegistryInv, RegistryTypeOK
    <2>2. [place[l] EXCEPT ![n] = n] \in [Items -> 0 .. MaxItems]
      BY <1>1 DEF RegistryInv, RegistryTypeOK
    <2>3. place' \in [Lists -> [Items -> 0 .. MaxItems]]
      BY <1>1, <1>2, <2>2 DEF RegistryInv, RegistryTypeOK
    <2> QED
      BY <1>2, <2>1, <2>3 DEF RegistryInv, RegistryTypeOK, readerVars
  <1>6. PlacesOK'
    <2>1. \A k \in Maps : size'[k] = Cardinality(Content(k)')
      <3> SUFFICES ASSUME NEW k \in Maps
                   PROVE  size'[k] = Cardinality(Content(k)')
        OBVIOUS
      <3>1. k \in Lists /\ k # l
        BY <1>1 DEF Lists
      <3>2. Content(k)' = Content(k)
        BY <1>3, <3>1 DEF Content
      <3> QED
        BY <1>3, <3>1, <3>2 DEF RegistryInv, PlacesOK
    <2>2. \A k \in Logs, x \in Items :
            place'[k][x] = IF x <= size'[k] THEN x ELSE 0
      <3> SUFFICES ASSUME NEW k \in Logs, NEW x \in Items
                   PROVE  place'[k][x] = IF x <= size'[k] THEN x ELSE 0
        OBVIOUS
      <3>1. k \in Lists /\ place[k][x] = (IF x <= size[k] THEN x ELSE 0)
        BY DEF RegistryInv, PlacesOK, Lists
      <3>2. CASE k # l
        BY <1>3, <3>1, <3>2
      <3>3. CASE k = l /\ x = n
        BY <1>1, <1>3, <1>4, <3>3
      <3>4. CASE k = l /\ x # n
        <4>1. place'[l][x] = place[l][x] /\ size'[l] = size[l] + 1
          BY <1>3, <1>4, <3>4
        <4>2. x \in Nat /\ size[l] \in Nat
          BY <1>1 DEF Items
        <4> QED
          BY <3>1, <3>4, <4>1, <4>2
      <3> QED
        BY <3>2, <3>3, <3>4
    <2>3. \A k \in Lists, x \in Items : place'[k][x] <= size'[k]
      <3> SUFFICES ASSUME NEW k \in Lists, NEW x \in Items
                   PROVE  place'[k][x] <= size'[k]
        OBVIOUS
      <3>1. place[k][x] <= size[k]
        BY DEF RegistryInv, PlacesOK
      <3>2. CASE k # l
        BY <1>3, <3>1, <3>2
      <3>3. CASE k = l /\ x = n
        BY <1>1, <1>3, <1>4, <3>3
      <3>4. CASE k = l /\ x # n
        <4>1. place'[l][x] = place[l][x] /\ size'[l] = size[l] + 1
          BY <1>3, <1>4, <3>4
        <4>2. place[l][x] \in Nat /\ size[l] \in Nat
          BY <1>1 DEF RegistryInv, RegistryTypeOK
        <4> QED
          BY <3>1, <3>4, <4>1, <4>2
      <3> QED
        BY <3>2, <3>3, <3>4
    <2> QED
      BY <2>1, <2>2, <2>3 DEF PlacesOK
  <1>7. ReaderOK'
    <2>1. size[reading] \in Nat /\ size'[reading] \in Nat
          /\ size'[reading] >= size[reading] /\ cursor \in Nat
      BY <1>1, <1>3 DEF RegistryInv, RegistryTypeOK
    <2>2. pc = "paging" => cursor <= size'[reading]
      BY <2>1 DEF RegistryInv, ReaderOK
    <2>3. ASSUME pc = "paging"
          PROVE  ReadSoFar'
      <3> SUFFICES ASSUME reading \in Logs \/ ~mixed, NEW x \in Items
                   PROVE  /\ seen[x] = IF place'[reading][x] \in 1 .. cursor
                                       THEN 1 ELSE 0
                          /\ x \in begun => place'[reading][x] # 0
        BY <1>2 DEF ReadSoFar, readerVars
      <3>1. /\ seen[x] = IF place[reading][x] \in 1 .. cursor THEN 1 ELSE 0
            /\ x \in begun => place[reading][x] # 0
        BY <2>3 DEF RegistryInv, ReaderOK, ReadSoFar
      <3>2. CASE reading # l \/ x # n
        <4>1. place'[reading][x] = place[reading][x]
          BY <1>3, <1>4, <3>2 DEF RegistryInv, RegistryTypeOK
        <4> QED
          BY <3>1, <4>1
      <3>3. CASE reading = l /\ x = n
        <4>1. cursor <= size[l] /\ n > cursor
          BY <1>1, <2>1, <2>3, <3>3 DEF RegistryInv, ReaderOK
        <4> QED
          BY <1>1, <1>4, <2>1, <3>1, <3>3, <4>1
      <3> QED
        BY <3>2, <3>3
    <2> QED
      BY <1>2, <2>2, <2>3
         DEF RegistryInv, readerVars, ReaderOK, AllSeenOnce, OwnCursorsServed
  <1> QED
    BY <1>5, <1>6, <1>7 DEF RegistryInv

LEMMA BeginKeepsInv ==
  ASSUME RegistryInv, NEW l \in Lists, Begin(l)
  PROVE  RegistryInv'
  <1>1. /\ pc = "idle" /\ pc' = "paging" /\ reading' = l
        /\ begun' = Content(l) /\ mixed' = FALSE
        /\ UNCHANGED <<size, place, pageSize, cursor, seen>>
    BY DEF Begin
  <1>2. cursor = 0 /\ (\A x \in Items : seen[x] = 0) /\ size[l] \in Nat
    BY <1>1, MaxItemsAssumption DEF RegistryInv, RegistryTypeOK, ReaderOK
  <1>3. RegistryTypeOK' /\ PlacesOK'
    <2>1. Content(l) \subseteq Items
      BY DEF Content
    <2>2. RegistryTypeOK'
      BY <1>1, <2>1 DEF RegistryInv, RegistryTypeOK
    <2>3. PlacesOK'
      BY <1>1 DEF RegistryInv, PlacesOK, Content
    <2> QED
      BY <2>2, <2>3
  <1>4. ReadSoFar'
    <2>1. \A x \in Items : ~(place[l][x] \in 1 .. 0)
      OBVIOUS
    <2> QED
      BY <1>1, <1>2, <2>1 DEF ReadSoFar, Content
  <1>5. ReaderOK'
    BY <1>1, <1>2, <1>4 DEF ReaderOK, AllSeenOnce, OwnCursorsServed
  <1> QED
    BY <1>3, <1>5 DEF RegistryInv

LEMMA NextPageKeepsInv ==
  ASSUME RegistryInv, NextPage
  PROVE  RegistryInv'
  <1> DEFINE r == Reply(reading, Own)
  <1>1. /\ pc = "paging"
        /\ pc' = IF r.is = "more" THEN "paging"
                 ELSE IF r.is = "last" THEN "done" ELSE "failed"
        /\ cursor' = IF r.is = "more" THEN r.to ELSE cursor
        /\ seen' = [x \in Items |->
                     seen[x] + IF place[reading][x] \in r.from .. r.to
                               THEN 1 ELSE 0]
        /\ UNCHANGED <<size, place, pageSize, mixed, reading, begun>>
    BY DEF NextPage
  <1>2. /\ r.is \in {"more", "last"}
        /\ r.is = "more" => /\ r.from = cursor + 1
                            /\ r.to = cursor + pageSize
                            /\ r.to > cursor
                            /\ r.to < size[reading]
        /\ r.is = "last" => \/ /\ r.from = cursor + 1
                               /\ r.to = size[reading]
                            \/ /\ r.from = 1 /\ r.to = 0
                               /\ cursor = size[reading]
    BY <1>1, OwnReply
  <1> HIDE DEF r
  <1>3. /\ size[reading] \in 0 .. MaxItems /\ MaxItems \in Nat
        /\ cursor \in Nat /\ cursor <= size[reading]
        /\ pageSize \in Nat /\ reading \in Lists
    BY <1>1, MaxItemsAssumption, PageSizesAssumption, WordAssumption
       DEF RegistryInv, RegistryTypeOK, ReaderOK
  <1>4. RegistryTypeOK'
    <2>1. seen' \in [Items -> Nat]
      BY <1>1 DEF RegistryInv, RegistryTypeOK
    <2>2. cursor' \in 0 .. MaxItems
      BY <1>1, <1>2, <1>3
    <2> QED
      BY <1>1, <1>2, <2>1, <2>2 DEF RegistryInv, RegistryTypeOK
  <1>5. PlacesOK'
    BY <1>1 DEF RegistryInv, PlacesOK, Content
  <1>6. ASSUME reading \in Logs \/ ~mixed, NEW x \in Items
        PROVE  /\ seen[x] = IF place[reading][x] \in 1 .. cursor THEN 1 ELSE 0
               /\ x \in begun => place[reading][x] # 0
               /\ place[reading][x] \in Nat
               /\ place[reading][x] <= size[reading]
               /\ seen'[x] = seen[x] + IF place[reading][x] \in r.from .. r.to
                                       THEN 1 ELSE 0
    <2>1. ReadSoFar
      BY <1>1 DEF RegistryInv, ReaderOK
    <2>2. place[reading][x] \in 0 .. MaxItems
      BY <1>3 DEF RegistryInv, RegistryTypeOK
    <2> QED
      BY <1>1, <1>3, <1>6, <2>1, <2>2 DEF ReadSoFar, RegistryInv, PlacesOK
  <1>7. CASE r.is = "more"
    <2>1. pc' = "paging" /\ cursor' = cursor + pageSize /\ cursor' <= size[reading]
          /\ pageSize <= cursor'
      BY <1>1, <1>2, <1>3, <1>7
    <2>2. ReadSoFar'
      <3> SUFFICES ASSUME reading \in Logs \/ ~mixed, NEW x \in Items
                   PROVE  /\ seen'[x] = IF place[reading][x] \in 1 .. cursor'
                                        THEN 1 ELSE 0
                          /\ x \in begun => place[reading][x] # 0
        BY <1>1 DEF ReadSoFar
      <3> DEFINE y == place[reading][x]
      <3>1. y \in Nat /\ r.from = cursor + 1 /\ r.to = cursor'
        BY <1>2, <1>6, <1>7, <2>1
      <3>2. y \in 1 .. cursor' <=> y \in 1 .. cursor \/ y \in r.from .. r.to
        BY <1>2, <1>3, <1>7, <2>1, <3>1
      <3>3. ~(y \in 1 .. cursor /\ y \in r.from .. r.to)
        BY <1>3, <3>1
      <3> HIDE DEF y
      <3> QED
        BY <1>6, <3>2, <3>3 DEF y
    <2> QED
      BY <1>1, <1>4, <1>5, <2>1, <2>2
         DEF RegistryInv, ReaderOK, AllSeenOnce, OwnCursorsServed
  <1>8. CASE r.is = "last"
    <2>1. pc' = "done"
      BY <1>1, <1>8
    <2>2. ASSUME reading \in Logs \/ ~mixed, NEW x \in begun
          PROVE  seen'[x] = 1
      <3> DEFINE y == place[reading][x]
      <3>1. x \in Items
        BY DEF RegistryInv, RegistryTypeOK
      <3>2. y \in Nat /\ y # 0 /\ y <= size[reading]
        BY <1>6, <2>2, <3>1
      <3>3. CASE r.from = cursor + 1 /\ r.to = size[reading]
        <4>1. y \in 1 .. cursor <=> ~(y \in r.from .. r.to)
          BY <1>3, <3>2, <3>3
        <4> HIDE DEF y
        <4> QED
          BY <1>6, <2>2, <3>1, <4>1 DEF y
      <3>4. CASE r.from = 1 /\ r.to = 0 /\ cursor = size[reading]
        <4>1. y \in 1 .. cursor /\ ~(y \in r.from .. r.to)
          BY <1>3, <3>2, <3>4
        <4> HIDE DEF y
        <4> QED
          BY <1>6, <2>2, <3>1, <4>1 DEF y
      <3> QED
        BY <1>2, <1>8, <3>3, <3>4
    <2>3. AllSeenOnce'
      BY <1>1, <2>2 DEF AllSeenOnce
    <2> QED
      BY <1>1, <1>4, <1>5, <2>1, <2>3 DEF RegistryInv, ReaderOK, OwnCursorsServed
  <1> QED
    BY <1>2, <1>7, <1>8

LEMMA StepKeepsInv ==
  ASSUME RegistryInv, [RegistryNext]_registryVars
  PROVE  RegistryInv'
  <1>1. CASE UNCHANGED registryVars
    BY <1>1 DEF registryVars, readerVars, RegistryInv, RegistryTypeOK, PlacesOK, Content, ReaderOK,
            ReadSoFar, AllSeenOnce, OwnCursorsServed
  <1>2. CASE RegistryNext
    BY <1>2, RegisterKeepsInv, AddKeepsInv, BeginKeepsInv, NextPageKeepsInv
       DEF RegistryNext
  <1> QED
    BY <1>1, <1>2

LEMMA InvHolds == RegistrySpec => []RegistryInv
  BY InvInit, StepKeepsInv, PTL DEF RegistrySpec

------------------------------------------------------------------------------
(* Theorems *)

\* The variables keep their types; in particular a hash map never holds more
\* items than there are keys.
THEOREM RegistryTypeCorrect == RegistrySpec => []RegistryTypeOK
  <1>1. RegistryInv => RegistryTypeOK
    BY DEF RegistryInv
  <1> QED
    BY <1>1, InvHolds, PTL

\* A client that follows next_cursor is given every item that was there when it
\* began exactly once.
THEOREM SeenOnce == RegistrySpec => []AllSeenOnce
  <1>1. RegistryInv => AllSeenOnce
    BY DEF RegistryInv, ReaderOK
  <1> QED
    BY <1>1, InvHolds, PTL

\* A client that follows next_cursor is never refused, whatever page size the
\* application has set: no sum wraps around for its cursors.
THEOREM OwnServed == RegistrySpec => []OwnCursorsServed
  <1>1. RegistryInv => OwnCursorsServed
    BY DEF RegistryInv, ReaderOK
  <1> QED
    BY <1>1, InvHolds, PTL

\* Whatever cursor a client makes up, a page is a part of the list of at most
\* page_size_ items, and an error is returned only for a malformed cursor or a
\* sum that wraps around.
THEOREM PagesSound == RegistrySpec => []PagesWithinList
  <1>1. ASSUME RegistryTypeOK
        PROVE  PagesWithinList
    <2>0. SUFFICES ASSUME NEW l \in Lists, NEW c \in Cursors,
                          NEW r, r = Reply(l, c)
                   PROVE  Within(l, c, r)
      BY DEF PagesWithinList
    <2> USE DEF Within
    <2> DEFINE v == c.value
               n == size[l]
               end == End(l, v)
    <2>1. /\ n \in Nat /\ n <= MaxItems /\ MaxItems \in Nat /\ Word \in Nat
          /\ 2 * MaxItems < Word /\ pageSize \in 0 .. Word - 1 /\ v \in Nat
      BY <1>1, MaxItemsAssumption, WordAssumption, PageSizesAssumption
         DEF RegistryTypeOK, Cursors
    <2>2. CASE ~Valid(l, c)
      <3>1. r = [is |-> "invalid params", from |-> 0, to |-> 0]
        BY <2>0, <2>2 DEF Reply
      <3> QED
        BY <2>2, <3>1
    <2>3. CASE Valid(l, c) /\ v >= n
      <3>1. r = [is |-> "last", from |-> 1, to |-> 0]
        BY <2>0, <2>1, <2>3 DEF Reply
      <3> QED
        BY <2>1, <3>1
    <2>4. CASE Valid(l, c) /\ v < n
      <3>1. v \in 0 .. Word - 1
        BY <2>1, <2>4
      <3>2. end = IF pageSize = 0 \/ Sum(v, pageSize) >= n
                  THEN n ELSE Sum(v, pageSize)
        BY <1>1, <3>1, EndIs
      <3>3. v + pageSize < Word => Sum(v, pageSize) = v + pageSize
        BY <2>1, <3>1, NoWrap
      <3>4. v + pageSize >= Word => Sum(v, pageSize) = v + pageSize - Word
        BY <2>1, <3>1, Wraps
      <3>5. end \in Nat
        BY <2>1, <3>1, <3>2, <3>3, <3>4
      <3>6. r = [is |-> IF end < v THEN "internal error"
                                  ELSE IF end < n THEN "more" ELSE "last",
                           from |-> v + 1, to |-> end]
        <4>1. ~(v >= n)
          BY <2>1, <2>4
        <4> HIDE DEF end, n
        <4> QED
          BY <2>0, <2>4, <4>1 DEF Reply, end, n
      <3> HIDE DEF end, v, n
      <3>7. CASE end < v
        <4>1. v + pageSize >= Word
          BY <2>1, <2>4, <3>2, <3>3, <3>7
        <4>2. r.is = "internal error"
          BY <3>6, <3>7
        <4> QED
          BY <4>1, <4>2 DEF v
      <3>8. CASE ~(end < v) /\ end < n
        <4>1. r = [is |-> "more", from |-> v + 1, to |-> end]
          BY <3>6, <3>8
        <4>2. pageSize # 0 /\ end = v + pageSize
          BY <2>1, <2>4, <3>1, <3>2, <3>3, <3>4, <3>5, <3>8
        <4>3. v + 1 .. end \subseteq 1 .. n /\ end > v
          BY <2>1, <3>5, <3>8, <4>2
        <4> QED
          BY <2>1, <4>1, <4>2, <4>3 DEF v, n
      <3>9. CASE ~(end < v) /\ ~(end < n)
        <4>1. r = [is |-> "last", from |-> v + 1, to |-> end]
          BY <3>6, <3>9
        <4>2. end = n
          BY <2>1, <3>2, <3>3, <3>4, <3>9
        <4>3. pageSize # 0 => n - v <= pageSize
          BY <2>1, <2>4, <3>1, <3>2, <3>3, <3>4, <3>9, <4>2
        <4> QED
          BY <2>1, <4>1, <4>2, <4>3 DEF v, n
      <3> QED
        BY <3>7, <3>8, <3>9
    <2>5. v >= n \/ v < n
      BY <2>1
    <2> QED
      BY <2>2, <2>3, <2>4, <2>5, Zenon
  <1>2. RegistryTypeOK => PagesWithinList
    BY <1>1
  <1> QED
    BY <1>2, RegistryTypeCorrect, PTL
=============================================================================
