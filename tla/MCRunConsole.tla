----------------------------- MODULE MCRunConsole -----------------------------
(***************************************************************************)
(* Instances of RunConsole for TLC.                                        *)
(***************************************************************************)
EXTENDS RunConsole, TLC

Drafted == <<"DRAFT">>
Gated   == <<"DRAFT", "PLANNING", "AWAITING_PLAN_APPROVAL">>
Running == Gated \o <<"QUEUED", "RUNNING">>
Retried == Running \o <<"FAILED">> \o Gated

(* A run at every place where the pages offer something of their own; the   *)
(* one at the gate has failed once.                                         *)
EveryPlace == {Drafted, Retried, Running}

=============================================================================
