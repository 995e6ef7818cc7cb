-------------------------------- MODULE Stdio --------------------------------
(***************************************************************************)
(* Two StdioTransports (src/src/stdio_transport.cpp) back to back: a client    *)
(* and a server with a pipe in each direction.  At each end threads send,     *)
(* a read thread polls and cuts lines, and an owner starts, closes and at    *)
(* last destroys the transport.  The owner's calls come one after the other,  *)
(* as those of Session do.                                                  *)
(***************************************************************************)
EXTENDS Sequences, Integers

CONSTANTS
  Requests, Answers,   \* frames that the client and the server send
  Lengths,             \* of frames, in bytes
  MaxFrame,            \* max_frame_bytes
  Room,                \* bytes a pipe holds
  Chunk                \* kReadChunkBytes

ASSUME FramesAssumption ==
  Requests \cap Answers = {} /\ "nobody" \notin Requests \cup Answers
ASSUME BytesAssumption ==
  Lengths \subseteq Nat /\ MaxFrame \in Nat /\ Room \in Nat \ {0} /\ Chunk \in Nat \ {0}

Ends == {"client", "server"}
Other(e) == IF e = "client" THEN "server" ELSE "client"
FramesOf(e) == IF e = "client" THEN Requests ELSE Answers
Frames == Requests \cup Answers
Nobody == "nobody"

\* A byte is a letter of a frame, a line feed or a carriage return.
TextsOf(f) ==
  {[i \in 1 .. n |-> f] : n \in Lengths} \cup {<<f, "cr">>, <<f, "lf", f>>}
Texts == UNION {TextsOf(f) : f \in Frames}
Letters(x) == {x[i] : i \in DOMAIN x}

\* A line without the carriage return that may end it.
Clean(x) ==
  IF x # <<>> /\ x[Len(x)] = "cr" THEN SubSeq(x, 1, Len(x) - 1) ELSE x

VARIABLES
  running, closing, fired,   \* running_, closing_, close_fired_
  wake,                      \* the self-pipe holds a byte
  reader, cause,             \* the read thread, and why it has ended
  chunk, buffer,             \* bytes it has read, and the line they go on
  got,                       \* the lines it has given to on_message_
  closer,                    \* where close() is
  fds,                       \* of the end
  pipe,                      \* what an end has written and the other not read
  holder,                    \* of write_mutex_
  call, text, written,       \* a send(): where it is, its frame, bytes written
  sent, part                 \* what the other end ought to get

readerVars == <<reader, cause, chunk, buffer, got>>
sendVars == <<holder, call, text, written, sent, part>>
flagVars == <<running, closing, fired, wake>>
vars == <<flagVars, readerVars, closer, fds, pipe, sendVars>>

Entered == {"lock", "write", "feed"}
Over == {"ok", "refused", "failed"}

TypeOK ==
  /\ running \in [Ends -> BOOLEAN] /\ closing \in [Ends -> BOOLEAN]
  /\ fired \in [Ends -> BOOLEAN] /\ wake \in [Ends -> BOOLEAN]
  /\ reader \in [Ends -> {"none", "check", "poll", "bytes", "end", "done"}]
  /\ cause \in [Ends -> {"none", "eof", "other"}]
  /\ closer \in [Ends -> {"idle", "wake", "join", "lock", "closed"}]
  /\ fds \in [Ends -> {"open", "released"}]
  /\ call \in [Frames -> Entered \cup Over \cup {"new"}]
  /\ \A e \in Ends :
       /\ Len(pipe[e]) <= Room /\ Len(chunk[e]) <= Chunk
       /\ Len(buffer[e]) <= MaxFrame
       /\ holder[e] \in FramesOf(e) \cup {Nobody}
       /\ \A f \in FramesOf(e) :
            /\ call[f] \in {"write", "feed"} <=> holder[e] = f
            /\ written[f] <= Len(text[f])

Init ==
  /\ running = [e \in Ends |-> FALSE] /\ closing = [e \in Ends |-> FALSE]
  /\ fired = [e \in Ends |-> FALSE] /\ wake = [e \in Ends |-> FALSE]
  /\ reader = [e \in Ends |-> "none"] /\ cause = [e \in Ends |-> "none"]
  /\ chunk = [e \in Ends |-> <<>>] /\ buffer = [e \in Ends |-> <<>>]
  /\ got = [e \in Ends |-> <<>>]
  /\ closer = [e \in Ends |-> "idle"] /\ fds = [e \in Ends |-> "open"]
  /\ pipe = [e \in Ends |-> <<>>] /\ holder = [e \in Ends |-> Nobody]
  /\ call = [f \in Frames |-> "new"]
  /\ text = [f \in Frames |-> <<>>] /\ written = [f \in Frames |-> 0]
  /\ sent = [e \in Ends |-> <<>>] /\ part = [e \in Ends |-> <<>>]

------------------------------------------------------------------------------
(* start() *)

\* Without a self-pipe it reports the error and changes nothing.
Start(e) ==
  /\ reader[e] = "none" /\ closer[e] = "idle"
  /\ running' = [running EXCEPT ![e] = TRUE]
  /\ reader' = [reader EXCEPT ![e] = "check"]
  /\ UNCHANGED <<closing, fired, wake, cause, chunk, buffer, got, closer, fds, pipe,
                 sendVars>>

------------------------------------------------------------------------------
(* send() *)

\* Mutant: a line feed in the frame is not looked for.
EnterAnything(e, f) ==
  /\ call[f] = "new" /\ fds[e] = "open"
  /\ \E x \in TextsOf(f) :
       IF running[e]
       THEN /\ text' = [text EXCEPT ![f] = x]
            /\ call' = [call EXCEPT ![f] = "lock"]
       ELSE call' = [call EXCEPT ![f] = "refused"] /\ UNCHANGED text
  /\ UNCHANGED <<flagVars, readerVars, closer, fds, pipe, holder, written, sent,
                 part>>

Enter(e, f) ==
  /\ call[f] = "new" /\ fds[e] = "open"
  /\ \E x \in TextsOf(f) :
       IF running[e] /\ "lf" \notin Letters(x)
       THEN /\ text' = [text EXCEPT ![f] = x]
            /\ call' = [call EXCEPT ![f] = "lock"]
       ELSE call' = [call EXCEPT ![f] = "refused"] /\ UNCHANGED text
  /\ UNCHANGED <<flagVars, readerVars, closer, fds, pipe, holder, written, sent,
                 part>>

Lock(e, f) ==
  /\ call[f] = "lock" /\ holder[e] = Nobody
  /\ holder' = [holder EXCEPT ![e] = f]
  /\ call' = [call EXCEPT ![f] = IF text[f] = <<>> THEN "feed" ELSE "write"]
  /\ UNCHANGED <<flagVars, readerVars, closer, fds, pipe, text, written, sent, part>>

\* write() blocks while the pipe is full, and may write less than it was given.
Write(e, f) ==
  /\ call[f] = "write" /\ fds[Other(e)] = "open"
  /\ \E n \in 1 .. Len(text[f]) - written[f] :
       /\ Len(pipe[e]) + n <= Room
       /\ pipe' = [pipe EXCEPT ![e] =
                    @ \o SubSeq(text[f], written[f] + 1, written[f] + n)]
       /\ written' = [written EXCEPT ![f] = @ + n]
       /\ call' = [call EXCEPT ![f] =
                    IF written[f] + n = Len(text[f]) THEN "feed" ELSE "write"]
  /\ UNCHANGED <<flagVars, readerVars, closer, fds, holder, text, sent, part>>

\* send() returns ec and drops the frame and the mutex.
Return(e, f, ec) ==
  /\ call' = [call EXCEPT ![f] = ec] /\ holder' = [holder EXCEPT ![e] = Nobody]
  /\ text' = [text EXCEPT ![f] = <<>>] /\ written' = [written EXCEPT ![f] = 0]

\* The line is complete, with what failed writes have left at its beginning.
Feed(e, f) ==
  LET line == Clean(part[e] \o text[f]) IN
  /\ call[f] = "feed" /\ fds[Other(e)] = "open" /\ Len(pipe[e]) < Room
  /\ pipe' = [pipe EXCEPT ![e] = Append(@, "lf")]
  /\ Return(e, f, "ok")
  /\ sent' = IF line = <<>> THEN sent ELSE [sent EXCEPT ![e] = Append(@, line)]
  /\ part' = [part EXCEPT ![e] = <<>>]
  /\ UNCHANGED <<flagVars, readerVars, closer, fds>>

\* An error of write(); EPIPE when the other end is gone.
WriteFails(e, f) ==
  /\ call[f] \in {"write", "feed"}
  /\ Return(e, f, "failed")
  /\ part' = [part EXCEPT ![e] = @ \o SubSeq(text[f], 1, written[f])]
  /\ UNCHANGED <<flagVars, readerVars, closer, fds, pipe, sent>>

------------------------------------------------------------------------------
(* read_loop() *)

ReaderCheck(e) ==
  /\ reader[e] = "check"
  /\ reader' = [reader EXCEPT ![e] = IF running[e] THEN "poll" ELSE "end"]
  /\ cause' = [cause EXCEPT ![e] = IF running[e] THEN @ ELSE "other"]
  /\ UNCHANGED <<flagVars, chunk, buffer, got, closer, fds, pipe, sendVars>>

PollWake(e) ==
  /\ reader[e] = "poll" /\ wake[e]
  /\ wake' = [wake EXCEPT ![e] = FALSE]
  /\ reader' = [reader EXCEPT ![e] = IF closing[e] THEN "end" ELSE "check"]
  /\ cause' = [cause EXCEPT ![e] = IF closing[e] THEN "other" ELSE @]
  /\ UNCHANGED <<running, closing, fired, chunk, buffer, got, closer, fds, pipe,
                 sendVars>>

PollRead(e) ==
  LET in == pipe[Other(e)] IN
  /\ reader[e] = "poll" /\ ~wake[e] /\ in # <<>>
  /\ \E n \in 1 .. Len(in) :
       /\ n = IF Len(in) < Chunk THEN Len(in) ELSE Chunk
       /\ chunk' = [chunk EXCEPT ![e] = SubSeq(in, 1, n)]
       /\ pipe' = [pipe EXCEPT ![Other(e)] = SubSeq(in, n + 1, Len(in))]
  /\ reader' = [reader EXCEPT ![e] = "bytes"]
  /\ UNCHANGED <<flagVars, cause, buffer, got, closer, fds, sendVars>>

\* Mutant: a hang-up is looked at before the data that is left.
HangUpFirst(e) ==
  /\ reader[e] = "poll" /\ ~wake[e] /\ fds[Other(e)] = "released"
  /\ reader' = [reader EXCEPT ![e] = "end"]
  /\ cause' = [cause EXCEPT ![e] = "eof"]
  /\ UNCHANGED <<flagVars, chunk, buffer, got, closer, fds, pipe, sendVars>>

PollHangUp(e) ==
  /\ reader[e] = "poll" /\ ~wake[e] /\ fds[Other(e)] = "released"
  /\ pipe[Other(e)] = <<>>
  /\ reader' = [reader EXCEPT ![e] = "end"]
  /\ cause' = [cause EXCEPT ![e] = "eof"]
  /\ UNCHANGED <<flagVars, chunk, buffer, got, closer, fds, pipe, sendVars>>

\* An error of poll() or read() is reported and ends the loop.
PollFails(e) ==
  /\ reader[e] = "poll" /\ ~wake[e]
  /\ reader' = [reader EXCEPT ![e] = "end"]
  /\ cause' = [cause EXCEPT ![e] = "other"]
  /\ UNCHANGED <<flagVars, chunk, buffer, got, closer, fds, pipe, sendVars>>

\* The reader is done with a byte, and polls again after the last one.
Consume(e) ==
  /\ chunk' = [chunk EXCEPT ![e] = Tail(@)]
  /\ reader' = [reader EXCEPT ![e] = IF Len(chunk[e]) = 1 THEN "check" ELSE @]

\* Mutant: one line is taken from a chunk.
OneLinePerRead(e) ==
  LET line == Clean(buffer[e]) IN
  /\ reader[e] = "bytes" /\ Head(chunk[e]) = "lf"
  /\ chunk' = [chunk EXCEPT ![e] = <<>>]
  /\ reader' = [reader EXCEPT ![e] = "check"]
  /\ got' = IF line = <<>> THEN got ELSE [got EXCEPT ![e] = Append(@, line)]
  /\ buffer' = [buffer EXCEPT ![e] = <<>>]
  /\ UNCHANGED <<flagVars, cause, closer, fds, pipe, sendVars>>

\* The next byte of the chunk ends a line, which is handed over unless it is
\* empty, ...
LineByte(e) ==
  LET line == Clean(buffer[e]) IN
  /\ reader[e] = "bytes" /\ Head(chunk[e]) = "lf"
  /\ Consume(e)
  /\ got' = IF line = <<>> THEN got ELSE [got EXCEPT ![e] = Append(@, line)]
  /\ buffer' = [buffer EXCEPT ![e] = <<>>]
  /\ UNCHANGED <<flagVars, cause, closer, fds, pipe, sendVars>>

\* ... or goes on one, ...
PlainByte(e) ==
  /\ reader[e] = "bytes" /\ Head(chunk[e]) # "lf"
  /\ Len(buffer[e]) < MaxFrame
  /\ Consume(e)
  /\ buffer' = [buffer EXCEPT ![e] = Append(@, Head(chunk[e]))]
  /\ UNCHANGED <<flagVars, cause, got, closer, fds, pipe, sendVars>>

\* ... or is too much for it: on_close at once, and the end of the thread.
ExcessByte(e) ==
  /\ reader[e] = "bytes" /\ Head(chunk[e]) # "lf"
  /\ Len(buffer[e]) >= MaxFrame
  /\ fired' = [fired EXCEPT ![e] = TRUE]
  /\ reader' = [reader EXCEPT ![e] = "done"]
  /\ cause' = [cause EXCEPT ![e] = "other"]
  /\ UNCHANGED <<running, closing, wake, chunk, buffer, got, closer, fds, pipe,
                 sendVars>>

ReaderEnd(e) ==
  /\ reader[e] = "end"
  /\ fired' = [fired EXCEPT ![e] = TRUE]
  /\ reader' = [reader EXCEPT ![e] = "done"]
  /\ UNCHANGED <<running, closing, wake, cause, chunk, buffer, got, closer, fds,
                 pipe, sendVars>>

------------------------------------------------------------------------------
(* close() and ~StdioTransport *)

CloseFlags(e) ==
  /\ closer[e] = "idle"
  /\ closing' = [closing EXCEPT ![e] = TRUE]
  /\ running' = [running EXCEPT ![e] = FALSE]
  /\ closer' = [closer EXCEPT ![e] = "wake"]
  /\ UNCHANGED <<fired, wake, readerVars, fds, pipe, sendVars>>

\* Mutant: nobody wakes the reader.
CloseSilently(e) ==
  /\ closer[e] = "wake"
  /\ closer' = [closer EXCEPT ![e] = "join"]
  /\ UNCHANGED <<flagVars, readerVars, fds, pipe, sendVars>>

\* There is a self-pipe if start() has made one.
CloseWake(e) ==
  /\ closer[e] = "wake"
  /\ wake' = [wake EXCEPT ![e] = reader[e] # "none"]
  /\ closer' = [closer EXCEPT ![e] = "join"]
  /\ UNCHANGED <<running, closing, fired, readerVars, fds, pipe, sendVars>>

CloseJoin(e) ==
  /\ closer[e] = "join" /\ reader[e] \in {"none", "done"}
  /\ wake' = [wake EXCEPT ![e] = FALSE]
  /\ closer' = [closer EXCEPT ![e] = "lock"]
  /\ UNCHANGED <<running, closing, fired, readerVars, fds, pipe, sendVars>>

\* It waits for a send() that holds the mutex, and fires on_close if the reader
\* has not.
CloseLock(e) ==
  /\ closer[e] = "lock" /\ holder[e] = Nobody
  /\ fired' = [fired EXCEPT ![e] = TRUE]
  /\ closer' = [closer EXCEPT ![e] = "closed"]
  /\ UNCHANGED <<running, closing, wake, readerVars, fds, pipe, sendVars>>

\* The destructor, when no send() is under way; owns_fds.
Release(e) ==
  /\ closer[e] = "closed" /\ fds[e] = "open"
  /\ \A f \in FramesOf(e) : call[f] \notin Entered
  /\ fds' = [fds EXCEPT ![e] = "released"]
  /\ UNCHANGED <<flagVars, readerVars, closer, pipe, sendVars>>

------------------------------------------------------------------------------
SendStep(e, f) == Lock(e, f) \/ Write(e, f) \/ Feed(e, f)
ReaderStep(e) ==
  \/ ReaderCheck(e) \/ PollWake(e) \/ PollRead(e) \/ PollHangUp(e)
  \/ LineByte(e) \/ PlainByte(e) \/ ExcessByte(e) \/ ReaderEnd(e)
CloserStep(e) == CloseWake(e) \/ CloseJoin(e) \/ CloseLock(e)

Next ==
  \E e \in Ends :
    \/ Start(e) \/ ReaderStep(e) \/ PollFails(e)
    \/ CloseFlags(e) \/ CloserStep(e) \/ Release(e)
    \/ \E f \in FramesOf(e) : Enter(e, f) \/ SendStep(e, f) \/ WriteFails(e, f)

Spec == Init /\ [][Next]_vars

\* Threads go on; a write to an end that is gone does not block but fails.
Fairness ==
  \A e \in Ends :
    /\ WF_vars(ReaderStep(e)) /\ WF_vars(CloserStep(e))
    /\ \A f \in FramesOf(e) :
         /\ WF_vars(SendStep(e, f))
         /\ WF_vars(fds[Other(e)] = "released" /\ WriteFails(e, f))

FairSpec == Spec /\ Fairness

------------------------------------------------------------------------------
(* Properties *)

ToServer == INSTANCE FrameChannel WITH
  Texts <- {x \in Texts : "lf" \notin Letters(x)},
  sent <- sent["client"], part <- part["client"], got <- got["server"]

\* transport.hpp:5-10: a direction is a channel of complete frames, whoever sends,
\* however the bytes are cut, and whatever is closed meanwhile.
ChannelToServer == ToServer!Spec

\* What was written before the peer hung up is read before the hang-up.
HangUpLosesNothing ==
  \A e \in Ends :
    (reader[e] = "done" /\ cause[e] = "eof") => got[e] = sent[Other(e)]

\* on_close is the last thing a transport does to its Session, whose owner goes
\* on to destroy it.
NothingAfterOnClose ==
  [][\A e \in Ends : fired[e] => got'[e] = got[e]]_vars

\* A frame for which send() reports success reaches the other end, as long as that
\* has a read thread.
Arrives ==
  \A e \in Ends :
    (sent[e] # got[Other(e)])
      ~> (sent[e] = got[Other(e)] \/ reader[Other(e)] \in {"none", "done"})

\* A send() that waits for a pipe nobody reads keeps write_mutex_.
Stuck(e) ==
  /\ holder[e] # Nobody /\ fds[Other(e)] = "open"
  /\ reader[Other(e)] \in {"none", "done"}

\* close() returns, although the reader sleeps in poll() without a limit; only a
\* peer that has stopped reading can keep it waiting.
CloseReturns ==
  \A e \in Ends : (closer[e] # "idle") ~> (closer[e] = "closed" \/ Stuck(e))
=============================================================================
