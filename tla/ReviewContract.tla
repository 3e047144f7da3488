---------------------------- MODULE ReviewContract ----------------------------
(***************************************************************************)
(* What the spec review gate promises of a project, however its reviews    *)
(* overlap and fail: a review takes the accepted spec away when it begins, *)
(* has its own accepted only after it passed every round, and may then     *)
(* release the project for research, once.  A closed review does nothing   *)
(* any more.  The release may be taken back at any time.                   *)
(***************************************************************************)
EXTENDS Naturals

CONSTANTS Reviews, NoReview, Rounds

VARIABLES
  stage,      \* of each review: "waiting", "submitted", "reviewing",
              \* "accepted" or "closed"
  passes,     \* of each review: the rounds it passed
  accepted,   \* the review whose spec the project has, or NoReview
  released    \* may the project be researched?

contractVars == <<stage, passes, accepted, released>>

Init ==
  /\ stage = [r \in Reviews |-> "waiting"] /\ passes = [r \in Reviews |-> 0]
  /\ accepted = NoReview /\ released = FALSE

Enter(r, from, to) == stage[r] = from /\ stage' = [stage EXCEPT ![r] = to]

Submit(r) ==
  /\ Enter(r, "waiting", "submitted") /\ released' = FALSE
  /\ UNCHANGED <<passes, accepted>>

Begin(r) ==
  /\ Enter(r, "submitted", "reviewing") /\ accepted' = NoReview
  /\ UNCHANGED <<passes, released>>

Pass(r) ==
  /\ stage[r] = "reviewing" /\ passes[r] < Rounds
  /\ passes' = [passes EXCEPT ![r] = @ + 1]
  /\ UNCHANGED <<stage, accepted, released>>

Accept(r) ==
  /\ Enter(r, "reviewing", "accepted") /\ passes[r] = Rounds
  /\ accepted' = r
  /\ UNCHANGED <<passes, released>>

Release(r) ==
  /\ Enter(r, "accepted", "closed") /\ released' = TRUE
  /\ UNCHANGED <<passes, accepted>>

\* Questions, an abort, a failure; a crash closes several at once.
Close ==
  /\ \E closing \in SUBSET {r \in Reviews : stage[r] # "waiting"} :
       stage' = [r \in Reviews |-> IF r \in closing THEN "closed" ELSE stage[r]]
  /\ released' \in {released, FALSE}
  /\ UNCHANGED <<passes, accepted>>

Next ==
  \/ \E r \in Reviews : Submit(r) \/ Begin(r) \/ Pass(r) \/ Accept(r) \/ Release(r)
  \/ Close

Spec == Init /\ [][Next]_contractVars
=============================================================================
