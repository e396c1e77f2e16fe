--------------------------- MODULE MCBackgroundIo ---------------------------
(***************************************************************************)
(* Model-checking of BackgroundIo: the constants are in the cfg files.     *)
(* Every behaviour ends when the burst is answered, so the runs do not     *)
(* check for deadlock; AnsweredIfRoom finds a wait without end.            *)
(***************************************************************************)
EXTENDS BackgroundIo
=============================================================================
