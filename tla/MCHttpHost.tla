------------------------------ MODULE MCHttpHost ------------------------------
(* The model-checking instance of HttpHost. *)
EXTENDS HttpHost, TLC

CONSTANT s1

\* A request, a request with another id of the same value, one whose id is the
\* float of that value, a notification, and a request that does not parse.
MCRequest(form) == [jsonrpc |-> TRUE, form |-> form, id |-> 1,
                    method |-> "string", outcome |-> {}]
MCFrames == {MCRequest(f) :
               f \in {"integer", "string", "whole", "absent", "fraction"}}

\* All POSTs go to one session.
MCSessionOf == [p \in Posts |-> s1]
=============================================================================
