----------------------------- MODULE EventStream -----------------------------
(***************************************************************************)
(* How mcp::HttpClientTransport reads the server's event stream               *)
(* (src/src/http_client_transport.cpp, drain_sse and run_get_stream): events   *)
(* arrive in chunks of any size, a connection may break in the middle of one,  *)
(* and the next GET names the last event seen.                              *)
(*                                                                         *)
(* The server is one that numbers its events, keeps them, and begins a stream  *)
(* with those after the Last-Event-ID of the GET, with all of them if there is *)
(* none.  It may also number the events with which it answers a POST.          *)
(*                                                                         *)
(* Text is a sequence of fields and line ends: a chunk that is cut inside a     *)
(* field is to drain_sse like one that is cut before it.  The statuses that     *)
(* end the GET thread, and close() itself, are in HttpClientTransport.          *)
(***************************************************************************)
EXTENDS Integers, SequencesExt

CONSTANTS
  Hints,       \* values of retry: fields
  NoHint,      \* no retry: field, or none yet
  IntMax,      \* the largest int: std::stoi throws beyond it
  MaxEvents, MaxBreaks, MaxReplies   \* bounds of the server, the network, POSTs

ASSUME HintsAssumption == Hints \subseteq Int /\ NoHint \notin Hints
ASSUME BoundsAssumption ==
  IntMax \in Nat /\ MaxEvents \in Nat /\ MaxBreaks \in Nat /\ MaxReplies \in Nat

VARIABLES
  log,         \* the events of the server, numbered from 1
  wire,        \* written by the server and not yet read
  eol,         \* the line end of the server
  breaks,      \* connections that have broken
  replies,     \* POSTs answered with a numbered event
  closed,      \* closed_
  gpc,         \* the GET thread
  buf,         \* buf
  hand,        \* the data drain_sse has handed to its callback
  last,        \* last_event_id_, 0 when empty
  retry,       \* next_retry_ms_
  pause,       \* delay
  got,         \* what on_message was given
  seen,        \* (history) the last event read from a GET
  strayed      \* (history) a GET named an event that was not the last one seen

serverVars == <<log, eol, breaks, replies>>
getVars == <<gpc, buf, hand, retry, pause, got, seen>>
vars == <<serverVars, wire, closed, getVars, last, strayed>>

\* What the server may send: data of one or two lines, or a retry: field.
Events == [data : 1 .. 2, hint : {NoHint}] \cup [data : {0}, hint : Hints]

\* The limits of the pause before the next GET, in ms.
MinDelay == 50
MaxDelay == 60000

TypeOK ==
  /\ log \in Seq(Events) /\ Len(log) <= MaxEvents
  /\ breaks \in 0 .. MaxBreaks /\ replies \in 0 .. MaxReplies
  /\ closed \in BOOLEAN /\ strayed \in BOOLEAN
  /\ gpc \in {"top", "get", "drain", "deliver", "returned", "backoff", "exit"}
  /\ last \in 0 .. MaxEvents /\ seen \in 0 .. Len(log)
  /\ retry \in Hints \cup {NoHint} /\ pause \in MinDelay .. MaxDelay
  /\ got \in Seq(Seq(1 .. MaxEvents)) /\ hand \in Seq(1 .. MaxEvents)
  /\ wire # <<>> => gpc \in {"get", "drain", "deliver"}

------------------------------------------------------------------------------
(* The text of an event *)

LF == <<"LF", 0>>
CR == <<"CR", 0>>

Line(field) == <<field>> \o eol
Comment == Line(<<"comment", 0>>) \o eol

\* The fields of event n, each on a line, and an empty line.
Text(n, e) ==
  Line(<<"id", n>>)
    \o FlattenSeq([i \in 1 .. e.data |-> Line(<<"data", n>>)])
    \o (IF e.hint = NoHint THEN <<>> ELSE Line(<<"retry", e.hint>>))
    \o eol

\* What is sent to a GET that has seen the events up to k.
TextAfter(k) ==
  FlattenSeq([i \in 1 .. Len(log) - k |-> Text(k + i, log[k + i])])

Init ==
  /\ log = <<>> /\ wire = <<>> /\ eol \in {<<LF>>, <<CR, LF>>}
  /\ breaks = 0 /\ replies = 0 /\ closed = FALSE
  /\ gpc = "top" /\ buf = <<>> /\ hand = <<>> /\ last = 0
  /\ retry = NoHint /\ pause = 200 /\ got = <<>>
  /\ seen = 0 /\ strayed = FALSE

Connected == gpc \in {"get", "drain", "deliver"}

------------------------------------------------------------------------------
(* The server and the network *)

Publish(e) ==
  /\ Len(log) < MaxEvents
  /\ log' = Append(log, e)
  /\ wire' = IF Connected THEN wire \o Text(Len(log) + 1, e) ELSE wire
  /\ UNCHANGED <<eol, breaks, replies, closed, getVars, last, strayed>>

\* A comment keeps the connection up.
Heartbeat ==
  /\ gpc = "get" /\ wire = <<>>
  /\ wire' = Comment
  /\ UNCHANGED <<serverVars, closed, getVars, last, strayed>>

\* The stream ends or the connection breaks: what was on its way is lost.
Break ==
  /\ gpc = "get" /\ breaks < MaxBreaks
  /\ breaks' = breaks + 1
  /\ wire' = <<>>
  /\ gpc' = "returned"
  /\ UNCHANGED <<log, eol, replies, closed, buf, hand, retry, pause, got, seen,
                 last, strayed>>

------------------------------------------------------------------------------
(* run_get_stream *)

\* Mutant: the rest of a broken stream stays in the buffer.
ConnectKeepsRest ==
  /\ gpc = "top" /\ ~closed
  /\ gpc' = "get" /\ UNCHANGED buf
  /\ wire' = TextAfter(last)
  /\ strayed' = (strayed \/ last # seen)
  /\ UNCHANGED <<serverVars, closed, hand, retry, pause, got, seen, last>>

\* A GET with a buffer of its own, and Last-Event-ID if there is one.
Connect ==
  /\ gpc = "top" /\ ~closed
  /\ gpc' = "get" /\ buf' = <<>>
  /\ wire' = TextAfter(last)
  /\ strayed' = (strayed \/ last # seen)
  /\ UNCHANGED <<serverVars, closed, hand, retry, pause, got, seen, last>>

\* A chunk of what the server has written.
Receive(n) ==
  /\ gpc = "get" /\ n \in 1 .. Len(wire)
  /\ IF closed
       THEN gpc' = "returned" /\ wire' = <<>> /\ UNCHANGED buf
       ELSE /\ gpc' = "drain"
            /\ buf' = buf \o SubSeq(wire, 1, n)
            /\ wire' = SubSeq(wire, n + 1, Len(wire))
  /\ UNCHANGED <<serverVars, closed, hand, retry, pause, got, seen, last,
                 strayed>>

\* Mutant: only line feeds end an event.
LineFeedsOnly(b) ==
  {<<i, 2>> : i \in {j \in 1 .. Len(b) - 1 : SubSeq(b, j, j + 1) = <<LF, LF>>}}

\* Where an empty line ends an event, and the length of what ends it.
Terminators(b) ==
  {<<i, 2>> : i \in {j \in 1 .. Len(b) - 1 : SubSeq(b, j, j + 1) = <<LF, LF>>}}
  \cup {<<i, 4>> : i \in {j \in 1 .. Len(b) - 3 :
                            SubSeq(b, j, j + 3) = <<CR, LF, CR, LF>>}}

\* The values of a field in the text of an event, line by line.  A carriage
\* return at the end of a line, comments and other fields are passed over.
Values(event, field) ==
  LET found[i \in 0 .. Len(event)] ==
        IF i = 0 THEN <<>>
        ELSE IF event[i][1] = field THEN Append(found[i - 1], event[i][2])
        ELSE found[i - 1]
  IN found[Len(event)]

\* The last of the values that is among those allowed.
LastOf(old, told, allowed) ==
  LET valid == {i \in DOMAIN told : told[i] \in allowed}
  IN IF valid = {} THEN old ELSE told[CHOOSE i \in valid : \A j \in valid : j <= i]

\* Mutant: a suggestion that is negative is taken.
TakenUnsigned(old, event) ==
  LastOf(old, Values(event, "retry"), {h \in Hints : h <= IntMax})

\* The last suggestion that is an int and not negative; others are ignored.
Taken(old, event) == LastOf(old, Values(event, "retry"), 0 .. IntMax)

\* The loop of drain_sse, until no event is complete, and the callback up to
\* deliver_frame.
Drain ==
  /\ gpc = "drain"
  /\ IF Terminators(buf) = {}
       THEN gpc' = "get" /\ UNCHANGED <<buf, hand, last, seen, retry>>
       ELSE LET end == CHOOSE t \in Terminators(buf) :
                         \A u \in Terminators(buf) : t[1] <= u[1]
                event == SubSeq(buf, 1, end[1] - 1)
                ids == Values(event, "id")
                data == Values(event, "data")
            IN /\ buf' = SubSeq(buf, end[1] + end[2], Len(buf))
               /\ last' = IF ids = <<>> THEN last ELSE ids[Len(ids)]
               /\ seen' = IF ids = <<>> THEN seen ELSE ids[Len(ids)]
               /\ retry' = Taken(retry, event)
               /\ hand' = data
               /\ gpc' = IF data = <<>> THEN "drain" ELSE "deliver"
  /\ UNCHANGED <<serverVars, wire, closed, pause, got, strayed>>

Deliver ==
  /\ gpc = "deliver"
  /\ got' = Append(got, hand)
  /\ hand' = <<>>
  /\ gpc' = "drain"
  /\ UNCHANGED <<serverVars, wire, closed, buf, retry, pause, seen, last,
                 strayed>>

\* 200 ms, or what the server suggests, within limits.
Delay == CASE retry = NoHint -> 200
           [] retry # NoHint /\ retry < MinDelay -> MinDelay
           [] retry # NoHint /\ retry > MaxDelay -> MaxDelay
           [] OTHER -> retry

\* The GET has returned: the thread ends with the transport, or it pauses.
Retry ==
  /\ gpc = "returned"
  /\ gpc' = IF closed THEN "exit" ELSE "backoff"
  /\ pause' = IF closed THEN pause ELSE Delay
  /\ UNCHANGED <<serverVars, wire, closed, buf, hand, retry, got, seen, last,
                 strayed>>

PauseEnds ==
  /\ gpc = "backoff"
  /\ gpc' = "top"
  /\ UNCHANGED <<serverVars, wire, closed, buf, hand, retry, pause, got, seen,
                 last, strayed>>

\* The loop condition.
Stop ==
  /\ gpc = "top" /\ closed
  /\ gpc' = "exit"
  /\ UNCHANGED <<serverVars, wire, closed, buf, hand, retry, pause, got, seen,
                 last, strayed>>

------------------------------------------------------------------------------
(* Other threads *)

\* handle_response: the answer to a POST is an event stream whose last event is
\* numbered i.  Its data is the answer and not of the stream.
Reply(i) ==
  /\ replies < MaxReplies
  /\ replies' = replies + 1
  /\ last' = i
  /\ UNCHANGED <<log, eol, breaks, wire, closed, getVars, strayed>>

\* close() sets the flag, ...
Close ==
  /\ ~closed
  /\ closed' = TRUE
  /\ UNCHANGED <<serverVars, wire, getVars, last, strayed>>

\* ... and client_get.stop() cuts the GET off.
CutOff ==
  /\ closed /\ gpc = "get"
  /\ wire' = <<>>
  /\ gpc' = "returned"
  /\ UNCHANGED <<serverVars, closed, buf, hand, retry, pause, got, seen, last,
                 strayed>>

------------------------------------------------------------------------------
GetStep == \/ Connect \/ Drain \/ Deliver \/ Retry \/ PauseEnds \/ Stop
           \/ \E n \in 1 .. Len(wire) : Receive(n)

Next ==
  \/ \E e \in Events : Publish(e)
  \/ Heartbeat \/ Break \/ GetStep \/ Close \/ CutOff
  \/ \E i \in 1 .. MaxEvents : Reply(i)

Spec == Init /\ [][Next]_vars

\* The GET thread runs, and what is on its way arrives if the connection holds.
FairSpec == Spec /\ WF_vars(GetStep)

------------------------------------------------------------------------------
(* Properties *)

\* Event n as on_message should get it, and the data of the first k events.
Frame(n) == [i \in 1 .. log[n].data |-> n]
FramesOf(k) ==
  LET frames[n \in 0 .. k] ==
        IF n = 0 THEN <<>>
        ELSE IF log[n].data > 0 THEN Append(frames[n - 1], Frame(n))
        ELSE frames[n - 1]
  IN frames[k]

\* No event is cut short or glued to another, whatever a GET named.
WholeFrames == \A i \in DOMAIN got : \E n \in DOMAIN log : got[i] = Frame(n)

\* http_client_transport.cpp:495-497: "hand back the last event id we saw on this
\* session so the server can replay anything we missed".  However the stream is
\* cut into chunks and connections, the application gets events whole, and every
\* event up to the last one seen, once and in order, unless a GET resumed after an
\* event that came with the answer to a POST.
Resumed ==
  /\ WholeFrames
  /\ ~strayed =>
       got \o (IF gpc = "deliver" THEN <<hand>> ELSE <<>>) = FramesOf(seen)

\* transport.hpp: the GET stream, with all its connections, is one channel from
\* the server to the application: complete frames, each once, in the order in
\* which they were published.  No GET may have strayed.
Same(line) == line
ToApplication == INSTANCE FrameChannel WITH
                   Texts <- {[i \in 1 .. d |-> n] : d \in 1 .. 2, n \in 1 .. MaxEvents},
                   Clean <- Same,
                   sent <- FramesOf(Len(log)), part <- <<>>, got <- got
OneChannel == ToApplication!Spec

\* The pause before the next GET is what the server suggested last, in an event
\* that arrived whole, moved into the band of 50 ms to 60 s; suggestions that
\* are no valid int change nothing.
Suggested(k) ==
  {n \in 1 .. k : log[n].hint # NoHint /\ log[n].hint \in 0 .. IntMax}
Distance(a, b) == IF a < b THEN b - a ELSE a - b
Nearest(p, v) ==
  \A q \in {MinDelay, v, MaxDelay} \cap MinDelay .. MaxDelay : Distance(p, v) <= Distance(q, v)
PauseAsTold ==
  (gpc = "backoff" /\ ~strayed) =>
    LET told == Suggested(seen)
    IN IF told = {}
       THEN pause = 200
       ELSE \E n \in told : (\A m \in told : m <= n) /\ Nearest(pause, log[n].hint)

\* Every event is read in the end, also when nothing follows it and when it was
\* lost with a connection, as long as connections do not break for ever.
AllArrive ==
  \A n \in 1 .. MaxEvents :
    (n <= Len(log)) ~> (seen >= n \/ last >= n \/ strayed \/ closed)
=============================================================================
