--------------------------------- MODULE Wire ---------------------------------
(***************************************************************************)
(* JSON-RPC frames as src/src/protocol.cpp reads them, and as the HTTP host   *)
(* reads them beside it (src/src/http_server_host.cpp).  Of a frame only the   *)
(* members that say what it is are kept, and of these their JSON types.       *)
(*                                                                         *)
(* A number too large for int64_t is left out: as an integer it wraps in the   *)
(* same way wherever it is read, as a float its conversion is undefined.       *)
(***************************************************************************)
EXTENDS Naturals

\* What may stand under "id": nothing, null, a string, an integer, a float that
\* is a whole number, one that is not, or some other JSON value.
IdForms == {"absent", "null", "string", "integer", "whole", "fraction", "other"}

Frame == [jsonrpc : BOOLEAN,    \* it is "2.0"
          form : IdForms, id : Nat,
          method : {"absent", "string", "other"},
          outcome : SUBSET {"result", "error"}]

RequestId == [kind : {"string", "integer"}, value : Nat]

------------------------------------------------------------------------------
(* protocol.cpp *)

\* from_json(RequestId): whole floats are accepted as integers.
HasRequestId(f) == f.form \in {"string", "integer", "whole"}
RequestIdOf(f) ==
  [kind |-> IF f.form = "string" THEN "string" ELSE "integer", value |-> f.id]

\* from_json of the three envelopes, behind the choice parse_message makes.
IsJsonRpcRequest(f) ==
  /\ f.method # "absent" /\ f.form # "absent"
  /\ f.jsonrpc /\ HasRequestId(f) /\ f.method = "string"
IsJsonRpcNotification(f) ==
  /\ f.method # "absent" /\ f.form = "absent"
  /\ f.jsonrpc /\ f.method = "string"
IsJsonRpcResponse(f) ==
  /\ f.method = "absent" /\ f.outcome # {}
  /\ f.jsonrpc /\ (f.form \in {"absent", "null"} \/ HasRequestId(f))
  /\ f.outcome # {"result", "error"}

\* parse_message throws for every other frame.
Parses(f) ==
  IsJsonRpcRequest(f) \/ IsJsonRpcNotification(f) \/ IsJsonRpcResponse(f)

\* to_json(JsonRpcResponse): the answer to the request f.
Response(f) ==
  LET r == RequestIdOf(f) IN
  [jsonrpc |-> TRUE, form |-> r.kind, id |-> r.value, method |-> "absent",
   outcome |-> {"result"}]

------------------------------------------------------------------------------
(* http_server_host.cpp *)

\* What deliver_request_or_notification holds for a request.
IsRequest(f) == f.form \notin {"absent", "null"} /\ f.method # "absent"

\* Mutant: no marker tells an integer from a string.
BareId(f) == <<"", IF f.form \in {"string", "integer"} THEN f.id ELSE 0>>

\* canonical_id: floats, and everything else, have the key "".
CanonicalId(f) ==
  IF f.form = "string" THEN <<"s:", f.id>>
  ELSE IF f.form = "integer" THEN <<"i:", f.id>> ELSE <<"", 0>>
=============================================================================
