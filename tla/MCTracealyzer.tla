--------------------------- MODULE MCTracealyzer ---------------------------
(* Two subprocesses of two time units against a tolerance of four: both of    *)
(* them are needed for a timeout.  The timer wraps within two runs.           *)
EXTENDS Tracealyzer
=============================================================================
