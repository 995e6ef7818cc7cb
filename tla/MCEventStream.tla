---------------------------- MODULE MCEventStream ----------------------------
(* The model-checking instance of EventStream. *)
EXTENDS EventStream

\* Suggestions below, within, above and far above what the client accepts.
MCHints == {-1, 10, 70000, 90000}
=============================================================================
