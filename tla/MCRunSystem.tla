----------------------------- MODULE MCRunSystem -----------------------------
(***************************************************************************)
(* Instances of RunSystem for TLC: the constants a cfg cannot write.       *)
(***************************************************************************)
EXTENDS RunSystem, TLC

CONSTANTS
  r2, r4,       \* runs to name in the definitions below
  p1, p2        \* two projects

(* Plans of two steps and of one step. *)
TwoSteps == [r \in Runs |-> 2]
OneStep  == [r \in Runs |-> 1]

(* Every run, all but one, a run awaiting the approval of its plan or just a draft. *)
AllRuns   == Runs
NotR2     == Runs \ {r2}
AtTheGate == [r \in Runs |-> 3]
NoRow     == [r \in Runs |-> 0]

(* All runs are of one project, or run r4 of another with an engagement in the first. *)
InP1      == [r \in Runs |-> p1]
R4InP2    == [r \in Runs |-> IF r = r4 THEN p2 ELSE p1]

(* Every first step is sensitive, or none. *)
FirstStepsSensitive == Runs \X {1}
NothingSensitive    == {}

(* Workers are alike, and so are request slots. *)
Alike == Permutations(Workers) \union Permutations(Reqs)

=============================================================================
