-------------------------- MODULE ResearchContract --------------------------
(***************************************************************************)
(* What a research run promises, without nodes, checkpoints or storage: a  *)
(* run makes at most limit attempts, the first that passes ends it, and    *)
(* one that ends otherwise either used all its attempts or was told to     *)
(* stop, after which no attempt passes any more.                           *)
(***************************************************************************)
EXTENDS Integers

VARIABLES
  phase,      \* "idle", "looping", "stopping", "passed" or "terminated"
  attempts,   \* verdicts given in this run
  limit       \* max_loops of the run

contractVars == <<phase, attempts, limit>>

Limits == Nat \ {0}

Init == phase = "idle" /\ attempts = 0 /\ limit \in Limits

\* A new run, from wherever the last one is.
Begin == phase' = "looping" /\ attempts' = 0 /\ limit' \in Limits

\* The reviewer of the plan, or revise, wants the research to end.
Decide ==
  /\ phase = "looping" /\ phase' = "stopping"
  /\ UNCHANGED <<attempts, limit>>

Judged == attempts' = attempts + 1 /\ UNCHANGED limit

Retry ==
  /\ phase = "looping" /\ attempts + 1 < limit
  /\ Judged /\ UNCHANGED phase

Pass == phase = "looping" /\ Judged /\ phase' = "passed"

Exhaust ==
  /\ phase = "looping" /\ attempts + 1 = limit
  /\ Judged /\ phase' = "terminated"

GiveUp == phase = "stopping" /\ Judged /\ phase' = "terminated"

Next == Begin \/ Decide \/ Retry \/ Pass \/ Exhaust \/ GiveUp

Spec == Init /\ [][Next]_contractVars
=============================================================================
