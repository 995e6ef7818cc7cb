----------------------------- MODULE FrameChannel -----------------------------
(***************************************************************************)
(* What one direction of a transport promises (include/mcp/transport.hpp):   *)
(* complete frames in, complete frames out, each once and in the order they   *)
(* were sent.  A write that fails part of the way spoils no more than the     *)
(* next frame, which arrives glued to what was written of it.               *)
(***************************************************************************)
EXTENDS Sequences, Naturals

CONSTANTS
  Texts,        \* frames without a line end
  Clean(_)      \* a line without the carriage return that may end it

VARIABLES
  sent,         \* the lines that are complete
  part,         \* what failed writes have left of the next one
  got           \* the lines that were handed over

Init == sent = <<>> /\ part = <<>> /\ got = <<>>

\* A frame that is empty, or only a carriage return, is no line.
Put(x) ==
  LET line == Clean(part \o x) IN
  /\ sent' = IF line = <<>> THEN sent ELSE Append(sent, line)
  /\ part' = <<>>
  /\ UNCHANGED got

Tear(x) ==
  /\ \E n \in 1 .. Len(x) : part' = part \o SubSeq(x, 1, n)
  /\ UNCHANGED <<sent, got>>

Take ==
  /\ Len(got) < Len(sent)
  /\ got' = Append(got, sent[Len(got) + 1])
  /\ UNCHANGED <<sent, part>>

Next == Take \/ \E x \in Texts : Put(x) \/ Tear(x)

Spec == Init /\ [][Next]_<<sent, part, got>>
=============================================================================
