----------------------------- MODULE MCHidReports -----------------------------
(* The composite demo, with two presses of the button and a host that mounts it. *)
EXTENDS HidReports
MCHidDemos == {"composite"}
=============================================================================
