-------------------------------- MODULE Client --------------------------------
(***************************************************************************)
(* mcp::Client (src/src/client.cpp): the facade over one Session at a time.   *)
(* One thread connects, some disconnect, one registers handlers, and every   *)
(* thread initializes and issues requests.  The Session is what the facade    *)
(* knows of it: its life, its handler table, and that close() rejects what is *)
(* pending.  It is closed, at the latest, with its last reference.           *)
(***************************************************************************)
EXTENDS Naturals

CONSTANTS
  Threads,        \* application threads
  Connector,      \* the one that calls connect()
  Disconnectors,  \* those that call disconnect()
  Initializers,   \* those that call initialize()
  Registrar,      \* the one that sets handlers
  Methods,        \* requests of the server that come with a capability
  Notes,          \* notifications of the server
  MaxSessions     \* bound on the calls of connect()

ASSUME ThreadsAssumption ==
  /\ Connector \in Threads /\ Registrar \in Threads
  /\ Disconnectors \subseteq Threads /\ Initializers \subseteq Threads
ASSUME NotesAssumption == Methods \cap Notes = {}
ASSUME MaxSessionsAssumption == MaxSessions \in Nat

Sessions == 1 .. MaxSessions

VARIABLES
  connected,    \* connected_
  current,      \* session_, or 0
  made,         \* sessions constructed
  life,         \* of each Session
  table,        \* what a Session has handlers for
  kept,         \* the request handlers the Client keeps
  override,     \* capabilities_override_: the engaged fields
  server,       \* server_: the session whose InitializeResult it is, or 0
  pc, then,     \* where a thread is, and where disconnect() returns to
  mine,         \* its copy of session_; the session it waits for
  setting,      \* the handler that is being set or cleared
  job,          \* the async part of its initialize(): step, session, capabilities
  peer,         \* what the peer of a session has had of the handshake
  offered       \* the capabilities it was told

clientVars == <<connected, made, server>>
handlerVars == <<table, kept, override, setting>>
peerVars == <<peer, offered>>
refVars == <<current, pc, mine, job, life>>
facadeVars == <<clientVars, then, handlerVars, peerVars, refVars>>

Disconnecting == {"swap", "take", "close", "reset"}
Connecting == {"make", "acquire", "start", "flag"}
NoSetting == <<>>
NoJob == [step |-> "none", at |-> 0, caps |-> {}]

ClientTypeOK ==
  /\ connected \in BOOLEAN
  /\ current \in 0 .. made /\ made \in 0 .. MaxSessions /\ server \in 0 .. made
  /\ life \in [Sessions -> {"none", "new", "open", "gone", "closed"}]
  /\ table \in [Sessions -> SUBSET (Methods \cup Notes)]
  /\ kept \subseteq Methods /\ override \subseteq Methods
  /\ pc \in [Threads -> Disconnecting \cup Connecting
              \cup {"idle", "derive", "send", "tell", "waiting", "keep", "register"}]
  /\ then \in [Threads -> {"idle", "make"}]
  /\ mine \in [Threads -> 0 .. made]
  /\ setting \in ((Methods \cup Notes) \X BOOLEAN) \cup {NoSetting}
  /\ job \in [Threads -> [step : {"none", "send", "sent", "answered", "note",
                                  "ok", "failed"},
                          at : 0 .. made, caps : SUBSET Methods]]
  /\ peer \in [Sessions -> {"fresh", "asked", "ready"}]
  /\ offered \in [Sessions -> SUBSET Methods]

ClientInit ==
  /\ connected = FALSE /\ current = 0 /\ made = 0 /\ server = 0
  /\ life = [k \in Sessions |-> "none"]
  /\ table = [k \in Sessions |-> {}]
  /\ kept = {} /\ override = {}
  /\ pc = [t \in Threads |-> "idle"] /\ then = [t \in Threads |-> "idle"]
  /\ mine = [t \in Threads |-> 0]
  /\ setting = NoSetting
  /\ job = [t \in Threads |-> NoJob]
  /\ peer = [k \in Sessions |-> "fresh"]
  /\ offered = [k \in Sessions |-> {}]

------------------------------------------------------------------------------
(* References to sessions *)

\* A step leaves the threads at p with copies m, session_ at c, the jobs at j
\* and the sessions in l.  A session nobody refers to any more is closed, and
\* one that has ended has rejected what was pending.
Refer(c, p, m, j, l) ==
  LET held(k) == \/ c = k
                 \/ \E t \in Threads : \/ m[t] = k /\ p[t] # "waiting"
                                       \/ j[t].at = k
      after == [k \in Sessions |->
                 IF l[k] \in {"new", "open", "gone"} /\ ~held(k)
                 THEN "closed" ELSE l[k]]
      over(k) == after[k] \in {"gone", "closed"}
  IN /\ current' = c
     /\ life' = after
     /\ pc' = [t \in Threads |->
                IF p[t] = "waiting" /\ over(m[t]) THEN "idle" ELSE p[t]]
     /\ mine' = [t \in Threads |->
                IF p[t] = "waiting" /\ over(m[t]) THEN 0 ELSE m[t]]
     /\ job' = [t \in Threads |->
                IF j[t].step = "sent" /\ over(j[t].at)
                THEN [j[t] EXCEPT !.step = "failed"] ELSE j[t]]

\* Thread t takes a copy of session_ and goes on at l.
AcquireSession(t, l) ==
  /\ mine' = [mine EXCEPT ![t] = current]
  /\ pc' = [pc EXCEPT ![t] = l]
  /\ UNCHANGED <<current, job, life>>

\* Thread t drops its copy and goes on at l.
DropSession(t, l) ==
  Refer(current, [pc EXCEPT ![t] = l], [mine EXCEPT ![t] = 0], job, life)

JobTo(t, s) == job' = [job EXCEPT ![t].step = s]

------------------------------------------------------------------------------
(* connect() and disconnect() *)

Connect ==
  /\ pc[Connector] = "idle" /\ made < MaxSessions
  /\ then' = [then EXCEPT ![Connector] = "make"]
  /\ pc' = [pc EXCEPT ![Connector] = "swap"]
  /\ UNCHANGED <<clientVars, handlerVars, peerVars, current, mine, job, life>>

Disconnect(t) ==
  /\ pc[t] = "idle"
  /\ pc' = [pc EXCEPT ![t] = "swap"]
  /\ UNCHANGED <<clientVars, then, handlerVars, peerVars, current, mine, job, life>>

\* Mutant: connected_ is read, not exchanged.
SwapKeepsFlag(t) ==
  /\ pc[t] = "swap"
  /\ pc' = [pc EXCEPT ![t] = IF connected THEN "take" ELSE then[t]]
  /\ then' = IF connected THEN then ELSE [then EXCEPT ![t] = "idle"]
  /\ UNCHANGED <<clientVars, handlerVars, peerVars, current, mine, job, life>>

\* connected_.exchange(false): only the one who finds it set goes on.
Swap(t) ==
  /\ pc[t] = "swap"
  /\ connected' = FALSE
  /\ pc' = [pc EXCEPT ![t] = IF connected THEN "take" ELSE then[t]]
  /\ then' = IF connected THEN then ELSE [then EXCEPT ![t] = "idle"]
  /\ UNCHANGED <<made, server, handlerVars, peerVars, current, mine, job, life>>

TakeSession(t) ==
  /\ pc[t] = "take"
  /\ mine' = [mine EXCEPT ![t] = current] /\ current' = 0
  /\ pc' = [pc EXCEPT ![t] = "close"]
  /\ UNCHANGED <<clientVars, then, handlerVars, peerVars, job, life>>

\* Mutant: the session is left to its last reference.
DropUnclosed(t) ==
  /\ pc[t] = "close"
  /\ DropSession(t, "reset")
  /\ UNCHANGED <<clientVars, then, handlerVars, peerVars>>

CloseSession(t) ==
  /\ pc[t] = "close"
  /\ Refer(current, [pc EXCEPT ![t] = "reset"], mine, job,
           [k \in Sessions |-> IF k = mine[t] THEN "closed" ELSE life[k]])
  /\ UNCHANGED <<clientVars, then, handlerVars, peerVars>>

ResetServer(t) ==
  /\ pc[t] = "reset"
  /\ server' = 0
  /\ DropSession(t, then[t])
  /\ then' = [then EXCEPT ![t] = "idle"]
  /\ UNCHANGED <<connected, made, handlerVars, peerVars>>

MakeSession ==
  /\ pc[Connector] = "make"
  /\ made' = made + 1
  /\ Refer(made', [pc EXCEPT ![Connector] = "acquire"], mine, job,
           [life EXCEPT ![made'] = "new"])
  /\ UNCHANGED <<connected, server, then, handlerVars, peerVars>>

AcquireMade ==
  /\ pc[Connector] = "acquire"
  /\ AcquireSession(Connector, "start")
  /\ UNCHANGED <<clientVars, then, handlerVars, peerVars>>

\* Session::start opens it, also if somebody has closed it meanwhile.
StartSession ==
  /\ pc[Connector] = "start"
  /\ pc' = [pc EXCEPT ![Connector] = "flag"]
  /\ life' = [k \in Sessions |->
               IF k = mine[Connector] THEN "open" ELSE life[k]]
  /\ UNCHANGED <<clientVars, then, handlerVars, peerVars, current, mine, job>>

Connected ==
  /\ pc[Connector] = "flag"
  /\ connected' = TRUE
  /\ DropSession(Connector, "idle")
  /\ UNCHANGED <<made, server, then, handlerVars, peerVars>>

\* The peer closes its end.
PeerGoes(k) ==
  /\ life[k] = "open"
  /\ Refer(current, pc, mine, job, [life EXCEPT ![k] = "gone"])
  /\ UNCHANGED <<clientVars, then, handlerVars, peerVars>>

------------------------------------------------------------------------------
(* Requests and notifications *)

\* list_tools, call_tool and the others; without a session they throw.
Call(t) ==
  /\ pc[t] = "idle" /\ current # 0
  /\ AcquireSession(t, "send")
  /\ UNCHANGED <<clientVars, then, handlerVars, peerVars>>

\* A request waits for its answer without a reference to the session; one that
\* is not open refuses it.
SendRequest(t) ==
  /\ pc[t] = "send"
  /\ IF life[mine[t]] = "open"
     THEN Refer(current, [pc EXCEPT ![t] = "waiting"], mine, job, life)
     ELSE DropSession(t, "idle")
  /\ UNCHANGED <<clientVars, then, handlerVars, peerVars>>

\* notify_roots_list_changed, notify_elicitation_complete and cancel_request:
\* the first two return an error without a session, and the last one throws.
Notify(t) ==
  /\ pc[t] = "idle" /\ current # 0
  /\ AcquireSession(t, "tell")
  /\ UNCHANGED <<clientVars, then, handlerVars, peerVars>>

\* A notification does not wait.
Tell(t) ==
  /\ pc[t] = "tell"
  /\ DropSession(t, "idle")
  /\ UNCHANGED <<clientVars, then, handlerVars, peerVars>>

Answer(t) ==
  /\ pc[t] = "waiting"
  /\ mine' = [mine EXCEPT ![t] = 0]
  /\ pc' = [pc EXCEPT ![t] = "idle"]
  /\ UNCHANGED <<clientVars, then, handlerVars, peerVars, current, job, life>>

------------------------------------------------------------------------------
(* initialize() *)

Initialize(t) ==
  /\ pc[t] = "idle" /\ current # 0 /\ job[t] = NoJob
  /\ AcquireSession(t, "derive")
  /\ UNCHANGED <<clientVars, then, handlerVars, peerVars>>

\* Under handlers_mu_: the handlers the Client keeps, and the override on top.
\* The rest is a std::async that has captured the session.
Derive(t) ==
  /\ pc[t] = "derive"
  /\ Refer(current, [pc EXCEPT ![t] = "idle"], [mine EXCEPT ![t] = 0],
           [job EXCEPT ![t] = [step |-> "send", at |-> mine[t],
                               caps |-> kept \cup override]], life)
  /\ UNCHANGED <<clientVars, then, handlerVars, peerVars>>

JobSend(t) ==
  /\ job[t].step = "send"
  /\ JobTo(t, IF life[job[t].at] = "open" THEN "sent" ELSE "failed")
  /\ UNCHANGED <<clientVars, then, handlerVars, peerVars, current, pc, mine, life>>

\* The server accepts one initialize of a connection, or refuses it.
PeerInitialize(t) ==
  LET k == job[t].at IN
  /\ job[t].step = "sent"
  /\ \/ /\ peer[k] = "fresh"
        /\ peer' = [peer EXCEPT ![k] = "asked"]
        /\ offered' = [offered EXCEPT ![k] = job[t].caps]
        /\ JobTo(t, "answered")
     \/ /\ JobTo(t, "failed")
        /\ UNCHANGED peerVars
  /\ UNCHANGED <<clientVars, then, handlerVars, current, pc, mine, life>>

JobStore(t) ==
  /\ job[t].step = "answered"
  /\ server' = job[t].at
  /\ JobTo(t, "note")
  /\ UNCHANGED <<connected, made, then, handlerVars, peerVars, current, pc, mine,
                 life>>

\* Mutant: the job asks for the session again.
NoteCurrent(t) ==
  /\ job[t].step = "note"
  /\ JobTo(t, "ok")
  /\ peer' = [k \in Sessions |->
               IF k = current /\ life[k] = "open" THEN "ready" ELSE peer[k]]
  /\ UNCHANGED <<clientVars, then, handlerVars, offered, current, pc, mine, life>>

\* notifications/initialized; what is sent to a peer that has gone may be lost
\* without an error.
JobNote(t) ==
  LET k == job[t].at IN
  /\ job[t].step = "note"
  /\ \/ /\ life[k] = "open"
        /\ peer' = [peer EXCEPT ![k] = "ready"]
        /\ JobTo(t, "ok")
     \/ /\ life[k] # "open"
        /\ \/ JobTo(t, "failed")
           \/ life[k] = "gone" /\ JobTo(t, "ok")
        /\ UNCHANGED peer
  /\ UNCHANGED <<clientVars, then, handlerVars, offered, current, pc, mine, life>>

\* The application drops the future, and with it the captured session.
Forget(t) ==
  /\ job[t].step \in {"ok", "failed"}
  /\ Refer(current, pc, mine, [job EXCEPT ![t] = NoJob], life)
  /\ UNCHANGED <<clientVars, then, handlerVars, peerVars>>

------------------------------------------------------------------------------
(* Handlers *)

\* set_sampling_handler, set_elicitation_handler and set_roots_list_handler,
\* with a handler or with nullptr, keep it first ...
SetHandler(m, on) ==
  /\ pc[Registrar] = "idle" /\ current # 0
  /\ setting' = <<m, on>>
  /\ AcquireSession(Registrar, "keep")
  /\ UNCHANGED <<clientVars, then, table, kept, override, peerVars>>

\* ... and the handlers of notifications are only the session's.
SetNoteHandler(n, on) ==
  /\ pc[Registrar] = "idle" /\ current # 0
  /\ setting' = <<n, on>>
  /\ AcquireSession(Registrar, "register")
  /\ UNCHANGED <<clientVars, then, table, kept, override, peerVars>>

Put(S) == IF setting[2] THEN S \cup {setting[1]} ELSE S \ {setting[1]}

KeepHandler ==
  /\ pc[Registrar] = "keep"
  /\ kept' = Put(kept)
  /\ pc' = [pc EXCEPT ![Registrar] = "register"]
  /\ UNCHANGED <<clientVars, then, table, override, setting, peerVars, current,
                 mine, job, life>>

\* Mutant: a handler that is cleared stays registered.
RegisterOnly ==
  /\ pc[Registrar] = "register"
  /\ table' = [table EXCEPT ![mine[Registrar]] = @ \cup {setting[1]}]
  /\ setting' = NoSetting
  /\ DropSession(Registrar, "idle")
  /\ UNCHANGED <<clientVars, then, kept, override, peerVars>>

RegisterHandler ==
  /\ pc[Registrar] = "register"
  /\ table' = [table EXCEPT ![mine[Registrar]] = Put(@)]
  /\ setting' = NoSetting
  /\ DropSession(Registrar, "idle")
  /\ UNCHANGED <<clientVars, then, kept, override, peerVars>>

SetCapabilities(S) ==
  /\ pc[Registrar] = "idle"
  /\ override' = S
  /\ UNCHANGED <<clientVars, then, table, kept, setting, peerVars, refVars>>

------------------------------------------------------------------------------
ConnectorStep == MakeSession \/ AcquireMade \/ StartSession \/ Connected
DisconnectStep(t) ==
  Swap(t) \/ TakeSession(t) \/ CloseSession(t) \/ ResetServer(t)
JobStep(t) == JobSend(t) \/ JobStore(t) \/ JobNote(t)
RegistrarStep == KeepHandler \/ RegisterHandler

ClientNext ==
  \/ Connect \/ ConnectorStep \/ RegistrarStep
  \/ \E t \in Disconnectors : Disconnect(t)
  \/ \E k \in Sessions : PeerGoes(k)
  \/ \E m \in Methods, on \in BOOLEAN : SetHandler(m, on)
  \/ \E n \in Notes, on \in BOOLEAN : SetNoteHandler(n, on)
  \/ \E S \in SUBSET Methods : SetCapabilities(S)
  \/ \E t \in Initializers : Initialize(t)
  \/ \E t \in Threads : \/ DisconnectStep(t) \/ Call(t) \/ SendRequest(t) \/ Answer(t)
                       \/ Notify(t) \/ Tell(t)
                       \/ Derive(t) \/ JobStep(t) \/ PeerInitialize(t) \/ Forget(t)

ClientSpec == ClientInit /\ [][ClientNext]_facadeVars

------------------------------------------------------------------------------
(* Properties *)

\* connected_ and session_ are two variables, written apart: when no connect()
\* or disconnect() is under way they agree, and a Client that is not connected
\* has left no session open, whoever still holds a copy.
FlagTellsState ==
  (\A t \in Threads : pc[t] \notin Connecting \cup Disconnecting) =>
    IF connected
    THEN current # 0 /\ life[current] \in {"open", "gone"}
    ELSE current = 0 /\ \A k \in Sessions : life[k] \in {"none", "closed"}

\* notifications/initialized goes to the peer that has answered initialize,
\* although the Client may be connected to another one by then.
InitializedAfterAnswer ==
  [][\A k \in Sessions : peer'[k] = "ready" => peer[k] # "fresh"]_facadeVars

\* The handlers the Client keeps, from which it derives its capabilities, are
\* the ones its session has, as long as it has connected only once.
HandlersAgree ==
  (made = 1 /\ pc[Registrar] # "register") => (kept = table[1] \cap Methods)

\* disconnect() leaves nobody behind, neither a request, whose caller holds no
\* reference, nor an initialize, which holds one itself: who waits for an answer
\* waits for the present session, or for one that is being closed.
NobodyLeftBehind ==
  \A t \in Threads :
    LET near(k) == k = current \/ \E u \in Threads : pc[u] = "close" /\ mine[u] = k
    IN /\ pc[t] = "waiting" => near(mine[t])
       /\ job[t].step = "sent" => near(job[t].at)
=============================================================================
