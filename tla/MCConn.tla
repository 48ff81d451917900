------------------------------- MODULE MCConn -------------------------------
(* Small instances of SpeConn. *)
EXTENDS SpeConn

Second == {2}

\* Both directions are timed, or none.
BothOrNone == {<<FALSE, FALSE>>, <<TRUE, TRUE>>}
============================================================================
