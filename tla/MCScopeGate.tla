------------------------------ MODULE MCScopeGate -----------------------------
(***************************************************************************)
(* Instances of ScopeGate for TLC: the constants a cfg cannot write.       *)
(***************************************************************************)
EXTENDS ScopeGate, TLC

CONSTANTS host, lit,          \* a host name and a literal in denied space
          wide, other, carve, \* a wide and another include, an exclude
          risky,              \* an include that the pattern check objects to
          c1, c2              \* two claims

(* The wide include matches both targets, the literal in denied space too: *)
(* it is a range whose two ends are harmless.  The risky one is refused.   *)
WideAndNarrow == {<<wide, host>>, <<wide, lit>>, <<other, host>>, <<carve, host>>, <<risky, lit>>}

(* One claim is about each target. *)
OneEach == (c1 :> host) @@ (c2 :> lit)

(* Request slots are alike. *)
Alike == Permutations(Reqs)

=============================================================================
