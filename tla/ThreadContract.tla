---------------------------- MODULE ThreadContract ----------------------------
(***************************************************************************)
(* What the checkpoints of a project's research say, one after the other,  *)
(* whichever task writes them: a run is planned, waits at the gate if its  *)
(* plan is to be approved, is worked on, and leaves a verdict with nothing *)
(* pending.  ResearchGraph implements it with all of its nodes;            *)
(* ProjectThread relies on it, and adds who writes the checkpoints.        *)
(***************************************************************************)

VARIABLES
  hitl,       \* is the plan to be approved?
  pending,    \* what is to be done next: "nothing", "plan", "gate" or "work"
  result      \* the verdict of a run that is over, "UNKNOWN" before

contractVars == <<hitl, pending, result>>

Verdict == {"PASS", "TERMINATE"}

Init == hitl \in BOOLEAN /\ pending = "nothing" /\ result = "UNKNOWN"

\* A new run, whatever became of the last one.
Begin == pending' = "plan" /\ result' = "UNKNOWN" /\ UNCHANGED hitl

Planned ==
  /\ pending = "plan" /\ pending' = IF hitl THEN "gate" ELSE "work"
  /\ UNCHANGED <<hitl, result>>

Opened == pending = "gate" /\ pending' = "work" /\ UNCHANGED <<hitl, result>>

Judged ==
  /\ pending = "work" /\ pending' = "nothing" /\ result' \in Verdict
  /\ UNCHANGED hitl

Next == Begin \/ Planned \/ Opened \/ Judged

Spec == Init /\ [][Next]_contractVars
=============================================================================
