--------------------------- MODULE MCDfuDownload ---------------------------
(* Two sectors per partition of two cells each; images of up to three       *)
(* sectors, so that one fits exactly, one ends inside a sector and one is    *)
(* too long.                                                                 *)
EXTENDS DfuDownload
MCImageLens == {1, 3, 4, 5}
=============================================================================
