------------------------------ MODULE MCSession ------------------------------
(* Model-checking instances of Session. *)
EXTENDS Session, TLC

\* Ids that are handed out in a run, and 0, which never is.
MCRespIds == 0 .. Cardinality(Calls)

\* Calls are interchangeable in safety runs.
CallSymmetry == Permutations(Calls)
=============================================================================
