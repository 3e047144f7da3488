----------------------------- MODULE SpecReview -----------------------------
(***************************************************************************)
(* The spec review gate of one project: a card moved to "Spec Pending      *)
(* Review" starts _run_spec_review_bg of framework/api/server.py, which    *)
(* marks the project's row, downloads the spec and invokes the graph of    *)
(* framework/spec_review_graph.py:                                         *)
(*                                                                         *)
(*   check -> stub -> download -> init -> round (x2) -> finalize -> wrap   *)
(*                                                                         *)
(* Each webhook starts a task of its own, and nothing serialises them: all *)
(* that keeps two reviews of a project apart is review_in_progress in the  *)
(* config of its row.  The scheduler clears that flag when it is old.      *)
(*                                                                         *)
(* Specs, questions and plugins are abstracted to the review they come     *)
(* from; of the comments on the card only the order around the last        *)
(* question matters.                                                       *)
(***************************************************************************)
EXTENDS Integers, FiniteSets

CONSTANTS
  Reviews,     \* the tasks the webhook starts for this project
  NoReview,    \* plugin "unknown", no spec
  MaxFaults    \* bound: crashes, and requests to the database or Planka that
               \* fail without an exception

ASSUME NoReviewAssumption == NoReview \notin Reviews
ASSUME FaultsAssumption == MaxFaults \in Nat

VARIABLES
  card,        \* column of the card
  row,         \* the project's row: plugin, and of its config the spec, the
               \* flag review_in_progress and whether it has become stale
  latest,      \* newest .md attachment that is no reviewed_spec*
  talk,        \* the comments after the last question
  review,      \* what each task is doing, and its SpecReviewState
  sweep,       \* has the scheduler read a stale flag it has yet to clear?
  faults,      \* number of faults so far
  overlap      \* history: a review was triggered while another was going on

vars == <<card, row, latest, talk, review, sweep, faults, overlap>>

Columns == {"Planning", "Pending", "Verify", "Review", "Done", "Failed"}
TotalRounds == 2
Reviewing == {"download", "init", "round", "finalize"}
Owning == Reviewing \cup {"leave", "verify", "wrap"}
Active == Owning \cup {"check", "stub"}
Places == Active \cup {"idle", "done"}

SpecReviewState ==
  [pc : Places, round : 0 .. TotalRounds, passes : 0 .. TotalRounds,
   status : {"in_progress", "need_update", "abort"},
   participants : BOOLEAN,           \* is LLM_CHAIN not empty?
   has_pending_qa : BOOLEAN, doc : {"none", "spec", "report"}]

Fresh == [pc |-> "idle", round |-> 0, passes |-> 0, status |-> "in_progress",
          participants |-> FALSE, has_pending_qa |-> FALSE, doc |-> "none"]

-----------------------------------------------------------------------------
At(r, place) == review[r].pc = place
Goto(r, place) == review' = [review EXCEPT ![r].pc = place]

\* A comment that is not a question and not the user's; it may fail to post.
Post == talk' \in {talk, IF talk = "asked" THEN "system" ELSE talk}

\* _move_planka_card reports nothing when it fails.
Move(column) ==
  \/ card' = column /\ UNCHANGED faults
  \/ /\ faults < MaxFaults /\ faults' = faults + 1
     /\ UNCHANGED card

\* _clear_review_flag reports nothing either.
Cleared == [row EXCEPT !.flag = FALSE]
ClearReviewFlag ==
  \/ row' = Cleared /\ UNCHANGED faults
  \/ /\ faults < MaxFaults /\ faults' = faults + 1
     /\ UNCHANGED row

\* Faults: a return forgets the flag, or the card.
MoveOnly(column) == UNCHANGED row /\ Move(column)
ClearOnly(column) == UNCHANGED card /\ ClearReviewFlag

\* The flag is cleared and the card moved; an outage may spoil either.
ClearAndMove(column) ==
  \/ row' = Cleared /\ card' = column /\ UNCHANGED faults
  \/ /\ faults < MaxFaults /\ faults' = faults + 1
     /\ row' \in {row, Cleared} /\ card' \in {card, column}

-----------------------------------------------------------------------------
Init ==
  /\ card = "Planning"
  /\ row = [flag |-> FALSE, stale |-> FALSE,
            plugin |-> NoReview, spec |-> NoReview]
  /\ latest = "none" /\ talk = "none"
  /\ review = [r \in Reviews |-> Fresh]
  /\ sweep = FALSE /\ faults = 0 /\ overlap = FALSE

\* The card is moved to Spec Pending Review (it may have been taken out of
\* that column before, while a review was going on).
Trigger(r) ==
  /\ At(r, "idle")
  /\ Goto(r, "check") /\ card' = "Pending"
  /\ overlap' = (overlap \/ \E q \in Reviews : review[q].pc \in Active)
  /\ UNCHANGED <<row, latest, talk, sweep, faults>>

\* Step 1: a fresh flag ends the task, a stale one is cleared.  The row is
\* read outside the try block.
Check(r) ==
  /\ At(r, "check")
  /\ \/ /\ row.flag /\ ~row.stale
        /\ Goto(r, "leave") /\ UNCHANGED <<row, faults>>
     \/ /\ row.flag /\ row.stale
        /\ Goto(r, "stub") /\ ClearReviewFlag
     \/ /\ ~row.flag
        /\ Goto(r, "stub") /\ UNCHANGED <<row, faults>>
     \/ /\ faults < MaxFaults /\ faults' = faults + 1
        /\ Goto(r, "done") /\ UNCHANGED row
  /\ UNCHANGED <<card, latest, talk, sweep, overlap>>

\* The early returns: a review in progress, or no spec on the card.
Leave(r) ==
  /\ At(r, "leave")
  /\ ClearAndMove("Planning") /\ Goto(r, "done")
  /\ UNCHANGED <<latest, talk, sweep, overlap>>

\* Step 2: create_project replaces the plugin and the whole config.
Stub(r) ==
  /\ At(r, "stub")
  /\ row' = [flag |-> TRUE, stale |-> FALSE,
             plugin |-> NoReview, spec |-> NoReview]
  /\ Goto(r, "download")
  /\ UNCHANGED <<card, latest, talk, sweep, faults, overlap>>

\* Steps 4 and 5: the spec, which may not be there or fail to download, and
\* the comments, without which the review is not a refinement.
Download(r) ==
  /\ At(r, "download")
  /\ \/ Goto(r, "leave") /\ Post
     \/ /\ latest # "none"
        /\ \E qa \in {FALSE, (talk \in {"system", "reply"})} :
             review' = [review EXCEPT ![r].pc = "init", ![r].doc = latest,
                                      ![r].has_pending_qa = qa]
        /\ UNCHANGED talk
  /\ UNCHANGED <<card, row, latest, sweep, faults, overlap>>

\* spec_review_init: LLM_CHAIN may be empty and the spec may not be UTF-8.
ReviewInit(r) ==
  /\ At(r, "init")
  /\ \/ review' = [review EXCEPT ![r].pc = "round", ![r].participants = TRUE]
     \/ \E chain \in BOOLEAN :
          review' = [review EXCEPT ![r].pc = "round",
                                   ![r].participants = chain,
                                   ![r].status = "abort",
                                   ![r].has_pending_qa = FALSE]
  /\ Post
  /\ UNCHANGED <<card, row, latest, sweep, faults, overlap>>

\* Faults: a review goes on with its questions open, or without an end.
RouteOn(s) ==
  IF s.status = "abort" \/ s.round = TotalRounds THEN "finalize" ELSE "round"
RouteRepeats(s) ==
  IF s.status \in {"abort", "need_update"} THEN "finalize" ELSE "round"

\* _route_review
RouteReview(s) ==
  IF s.status \in {"abort", "need_update"} \/ s.round = TotalRounds
  THEN "finalize" ELSE "round"

Aborted(s) == [s EXCEPT !.status = "abort"]

\* run_spec_agent: an LLM error and a missing status file are questions too.
Answered(s) ==
  {[s EXCEPT !.round = @ + 1, !.status = "need_update"],
   [s EXCEPT !.round = @ + 1, !.passes = @ + 1, !.status = "in_progress"]}

\* spec_review_round.  A refinement looks for the draft of an earlier review
\* in the directory download has just made for this one.
Outcomes(s) ==
  IF ~s.participants \/ (s.has_pending_qa /\ s.round = 0)
  THEN {Aborted(s)} ELSE Answered(s)

ReviewRound(r) ==
  /\ At(r, "round")
  /\ \E s \in Outcomes(review[r]) :
       review' = [review EXCEPT ![r] = [s EXCEPT !.pc = RouteReview(s)]]
  /\ Post
  /\ UNCHANGED <<card, row, latest, sweep, faults, overlap>>

\* spec_finalize, by status: the questions, the reason of the abort, ...
Ask(r) ==
  /\ At(r, "finalize") /\ review[r].status = "need_update"
  /\ talk' \in {talk, "asked"}
  /\ Move("Planning") /\ Goto(r, "wrap")
  /\ UNCHANGED <<row, latest, sweep, overlap>>

Abort(r) ==
  /\ At(r, "finalize") /\ review[r].status = "abort"
  /\ Post
  /\ Move("Planning") /\ Goto(r, "wrap")
  /\ UNCHANGED <<row, latest, sweep, overlap>>

\* Fault: the new config has no spec.
PersistedPlugin(r) == [row EXCEPT !.flag = FALSE, !.plugin = r]

\* ... or the spec, for the plugin the row names or else the spec names.
Persisted(r) ==
  [flag |-> FALSE, stale |-> FALSE, spec |-> r,
   plugin |-> IF row.plugin = NoReview THEN r ELSE row.plugin]

\* Fault: an upsert that failed is only logged.
PersistAnyway(r) ==
  /\ At(r, "finalize") /\ review[r].status = "in_progress"
  /\ Goto(r, "verify")
  /\ \/ row' = Persisted(r) /\ UNCHANGED faults
     \/ faults < MaxFaults /\ faults' = faults + 1 /\ UNCHANGED row
  /\ UNCHANGED <<card, talk, latest, sweep, overlap>>

Persist(r) ==
  /\ At(r, "finalize") /\ review[r].status = "in_progress"
  /\ \/ /\ row' = Persisted(r) /\ Goto(r, "verify")
        /\ UNCHANGED <<card, talk, faults>>
     \/ /\ faults < MaxFaults /\ faults' = faults + 1
        /\ card' \in {card, "Planning"} /\ Post /\ Goto(r, "wrap")
        /\ UNCHANGED row
  /\ UNCHANGED <<latest, sweep, overlap>>

MoveToVerify(r) ==
  /\ At(r, "verify")
  /\ Move("Verify") /\ Post /\ Goto(r, "wrap")
  /\ UNCHANGED <<row, latest, sweep, overlap>>

\* The graph has returned: the flag, the uploads and the work directory.
Wrap(r) ==
  /\ At(r, "wrap")
  /\ ClearReviewFlag /\ Goto(r, "done")
  /\ UNCHANGED <<card, latest, talk, sweep, overlap>>

\* The except clause: a provider that cannot be built, the database, the
\* checkpointer.
Fail(r) ==
  /\ review[r].pc \in {"stub", "init", "round", "finalize", "wrap"}
  /\ ClearAndMove("Planning") /\ Post /\ Goto(r, "done")
  /\ UNCHANGED <<latest, sweep, overlap>>

\* The process dies and is started again; no task survives.
Crash ==
  /\ faults < MaxFaults /\ faults' = faults + 1
  /\ review' = [r \in Reviews |->
       IF At(r, "idle") THEN review[r] ELSE [review[r] EXCEPT !.pc = "done"]]
  /\ sweep' = FALSE
  /\ UNCHANGED <<card, row, latest, talk, overlap>>

\* _REVIEW_STALE_TIMEOUT has passed since the stub.  The two rounds of a
\* review, 1800 s each, may take longer.
Expire ==
  /\ row.flag /\ ~row.stale
  /\ row' = [row EXCEPT !.stale = TRUE]
  /\ UNCHANGED <<card, latest, talk, review, sweep, faults, overlap>>

\* Fault: the cutoff is compared the wrong way round.
ScanFresh ==
  /\ ~sweep /\ row.flag /\ ~row.stale
  /\ sweep' = TRUE
  /\ UNCHANGED <<card, row, latest, talk, review, faults, overlap>>

\* _scan_stalled_reviews reads the flags, ...
Scan ==
  /\ ~sweep /\ row.flag /\ row.stale
  /\ sweep' = TRUE
  /\ UNCHANGED <<card, row, latest, talk, review, faults, overlap>>

\* ... and then clears those it found.
Sweep ==
  /\ sweep /\ sweep' = FALSE
  /\ ClearAndMove("Planning") /\ Post
  /\ UNCHANGED <<latest, review, overlap>>

Reply ==
  /\ talk \in {"asked", "system"} /\ talk' = "reply"
  /\ UNCHANGED <<card, row, latest, review, sweep, faults, overlap>>

UploadSpec ==
  /\ latest' = "spec"
  /\ UNCHANGED <<card, row, talk, review, sweep, faults, overlap>>

\* The research the move to Verify starts (ResearchGraph), as this module
\* sees it: comments and reports on the card, and then another column.
Research ==
  /\ card = "Verify"
  /\ card' \in {"Review", "Done", "Failed"}
  /\ latest' \in {latest, "report"} /\ Post
  /\ UNCHANGED <<row, review, sweep, faults, overlap>>

ReviewStep(r) ==
  \/ Check(r) \/ Leave(r) \/ Stub(r) \/ Download(r) \/ ReviewInit(r)
  \/ ReviewRound(r) \/ Ask(r) \/ Abort(r) \/ Persist(r) \/ MoveToVerify(r)
  \/ Wrap(r) \/ Fail(r)

Scheduler == Scan \/ Sweep

User == Reply \/ UploadSpec

Next ==
  \/ \E r \in Reviews : Trigger(r) \/ ReviewStep(r)
  \/ Scheduler \/ User \/ Research \/ Expire \/ Crash

Spec == Init /\ [][Next]_vars

\* Tasks run on, time passes, and the scheduler scans every 60 seconds.
FairSpec ==
  /\ Spec
  /\ \A r \in Reviews : WF_vars(ReviewStep(r))
  /\ WF_vars(Expire) /\ WF_vars(Scheduler)

-----------------------------------------------------------------------------
(* Properties.                                                             *)

\* Every variable keeps to its values: the projects row (queries.py:23), the
\* SpecReviewState of each task (spec_review_graph.py:55) and the card.
TypeOK ==
  /\ card \in Columns
  /\ row \in [flag : BOOLEAN, stale : BOOLEAN,
              plugin : Reviews \cup {NoReview}, spec : Reviews \cup {NoReview}]
  /\ latest \in {"none", "spec", "report"}
  /\ talk \in {"none", "asked", "system", "reply"}
  /\ review \in [Reviews -> SpecReviewState]
  /\ sweep \in BOOLEAN /\ overlap \in BOOLEAN
  /\ faults \in Nat

\* A project is marked as being reviewed only while a task that will clear
\* the mark is running, on whichever of its paths, unless a crash or a failed
\* request intervened (server.py:321, 376, 417, 426).
FlagHasOwner ==
  row.flag => faults > 0 \/ \E r \in Reviews : review[r].pc \in Owning

\* The spec a project is researched with passed the two rounds of one review
\* that was no refinement and whose status was never left open
\* (spec_review_graph.py:298-361, 482).
SpecPassedBothRounds ==
  \A r \in Reviews : row.spec = r =>
    /\ review[r].passes = TotalRounds /\ ~review[r].has_pending_qa
    /\ review[r].pc \in {"verify", "wrap", "done"}

\* A card is in Verify only with a reviewed spec in the row, for the plugin
\* that spec names, as long as no two reviews of the project overlapped: a
\* later review takes card and spec away together (server.py:337,
\* spec_review_graph.py:413-457).
VerifiedSpec ==
  card = "Verify" /\ ~overlap =>
    row.spec # NoReview /\ row.plugin = row.spec

\* The review of each task, as the contract of the gate sees it.
StageAt(place) ==
  CASE place = "idle" -> "waiting"
    [] place \in {"check", "stub"} -> "submitted"
    [] place \in Reviewing -> "reviewing"
    [] place = "verify" -> "accepted"
    [] OTHER -> "closed"
Stage  == [r \in Reviews |-> StageAt(review[r].pc)]
Passes == [r \in Reviews |-> review[r].passes]

Contract ==
  INSTANCE ReviewContract WITH
    stage <- Stage, passes <- Passes, accepted <- row.spec,
    released <- (card = "Verify"), Rounds <- TotalRounds

\* However reviews overlap, crash or fail half-way: a card enters Verify only
\* by a review that has just had its spec accepted, which takes both rounds,
\* and by each at most once; and only a review that begins takes an accepted
\* spec away (server.py:337, spec_review_graph.py:413-466, 482).
ImplementsContract == Contract!Spec

\* A mark is always taken down, by the review that set it, by the next one or
\* by the scheduler, whatever crashed in between (server.py:861).
FlagCleared == row.flag ~> ~row.flag

\* A card moved to Spec Pending Review leaves that column again, whatever the
\* review comes to, unless a crash or a failed request intervened
\* (server.py:322, 377, 426; spec_review_graph.py:402, 410, 457).
NotStranded ==
  \A r \in Reviews :
    At(r, "check") ~> (card # "Pending" \/ faults > 0)

\* Why it does: without a fault a card in Spec Pending Review has a task that
\* has yet to move it, whichever task ends first when reviews overlap, and
\* although a return may clear the mark of another review (server.py:321-322,
\* 376-377, 426; spec_review_graph.py:402, 410, 457).
PendingHasMover ==
  card = "Pending" =>
    faults > 0 \/ \E r \in Reviews : review[r].pc \in Active \ {"wrap"}

\* How many steps a task may still make.
Left(s) ==
  CASE s.pc = "idle" -> 11     [] s.pc = "check" -> 10
    [] s.pc = "stub" -> 9      [] s.pc = "download" -> 8
    [] s.pc = "init" -> 7      [] s.pc = "round" -> 4 + TotalRounds - s.round
    [] s.pc = "finalize" -> 3  [] s.pc = "verify" -> 2
    [] s.pc \in {"leave", "wrap"} -> 1
    [] OTHER -> 0

\* No path of a review leads back: each change of a task, by itself or by a
\* crash, leaves it fewer steps, the rounds included, however the agents answer
\* and whatever other reviews do to row and card (spec_review_graph.py:482, 524-534).
ReviewsAdvance ==
  [][ \A r \in Reviews : review'[r] # review[r] =>
        0 <= Left(review'[r]) /\ Left(review'[r]) < Left(review[r]) ]_vars

-----------------------------------------------------------------------------
(* What documents and comments of the repository say, and the code does not *)
(* do.                                                                      *)

\* While a review is in progress and not timed out, another trigger is
\* ignored: it does not take down the mark of the one that is going on
\* (llm-reliability-and-spec-review-graph/specs/api-server/spec.md:31).
DuplicateIgnored ==
  [][ row.flag /\ ~row.stale /\ ~row'.flag =>
        ~ \E r \in Reviews :
            review[r].pc \in Reviewing /\ review'[r].pc \in Reviewing ]_vars

\* A refinement starts from the draft of the review that asked
\* (docs/DEV_CHECKLIST.md:215).
RefineHasDraft ==
  [][ \A r \in Reviews :
        /\ At(r, "round") /\ review[r].has_pending_qa /\ review[r].round = 0
        /\ review'[r].pc = "finalize"
        => review'[r].status # "abort" ]_vars

\* What is reviewed is the spec the user uploaded (docs/USER_GUIDE.md:115).
SpecIsUsers == \A r \in Reviews : review[r].doc # "report"

\* A review that aborted ends in Planning (spec_review_graph.py:371).
AbortIsFinal ==
  [][ \A r \in Reviews :
        review[r].status = "abort" => review'[r].status = "abort" ]_vars
=============================================================================
