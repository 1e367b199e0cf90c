--------------------------- MODULE MCProjectConsole ---------------------------
(***************************************************************************)
(* Instances of ProjectConsole for TLC.                                    *)
(***************************************************************************)
EXTENDS ProjectConsole, TLC

=============================================================================
