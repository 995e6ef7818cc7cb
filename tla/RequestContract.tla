--------------------------- MODULE RequestContract ---------------------------
(***************************************************************************)
(* What a Session promises to the code that sends requests, with no          *)
(* threads, map or timer in sight: a request is opened only while the        *)
(* session is up, it gets one outcome and keeps it, a request made later is  *)
(* refused, and when close() has returned no request is open any more.       *)
(***************************************************************************)
CONSTANTS Calls, Outcomes

VARIABLES
  status,  \* of a call: "idle", "open", "withdrawn" or its outcome
  phase    \* of the session: "up", "closing" or "down"

Init == status = [c \in Calls |-> "idle"] /\ phase = "up"

Moves(c, from, to) == /\ status[c] = from
                      /\ status' = [status EXCEPT ![c] = to]
                      /\ UNCHANGED phase

Open(c) == phase = "up" /\ Moves(c, "idle", "open")

\* "session closed" is the outcome of no request before the session closes.
Settle(c, o) == /\ o = "session closed" => phase # "up"
                /\ Moves(c, "open", o)

Refuse(c) == phase # "up" /\ Moves(c, "idle", "session closed")

\* A request that could not be sent is taken back by its own caller, which
\* close() does not wait for.
Withdraw(c) == Moves(c, "open", "withdrawn")
SendFailed(c) == Moves(c, "withdrawn", "send failed")

BeginClose == phase = "up" /\ phase' = "closing" /\ UNCHANGED status

CloseReturned == /\ phase = "closing"
                 /\ \A c \in Calls : status[c] # "open"
                 /\ phase' = "down"
                 /\ UNCHANGED status

Next ==
  \/ \E c \in Calls : \/ Open(c) \/ Refuse(c) \/ Withdraw(c) \/ SendFailed(c)
                      \/ \E o \in Outcomes : Settle(c, o)
  \/ BeginClose \/ CloseReturned

Spec == Init /\ [][Next]_<<status, phase>>
=============================================================================
