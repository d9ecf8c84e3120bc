-------------------------- MODULE MCExplorerBoard --------------------------
(* Gains in two steps, a timer queue that holds one pair of commands, and     *)
(* three button edges: both buttons pressed and one released, or one button   *)
(* pressed, released and pressed again.                                       *)
EXTENDS ExplorerBoard
=============================================================================
