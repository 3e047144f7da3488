---------------------------- MODULE ProjectThread ----------------------------
(***************************************************************************)
(* One project as the server sees it: its card, the webhook calls Planka   *)
(* makes when the card changes columns, and the background tasks of        *)
(* framework/api/server.py these calls start.  Nothing serialises the      *)
(* tasks: two invocations of the project's LangGraph thread may go on at   *)
(* once, each continuing from the checkpoint it loaded, and the latest     *)
(* checkpoint is the one written last.  The research graph and the spec    *)
(* review graph both use the project's id as their thread_id, and          *)
(* PostgresSaver knows a thread by nothing else.                           *)
(*                                                                         *)
(*   card -> Spec Pending Review: _run_spec_review_bg                      *)
(*   card -> Verify: _run_resume_bg if the thread has a pending node, else *)
(*           _run_start_bg                                                 *)
(*   card -> Failed: _run_resume_bg (terminate) if a node is pending       *)
(*                                                                         *)
(* The research graph is reduced to plan, the gate before implement, and   *)
(* the rest of the run (ResearchGraph has its nodes); the review to its    *)
(* effects on row, card and thread (SpecReview has its steps, and reviews  *)
(* that overlap: here there is one at a time).                             *)
(***************************************************************************)
EXTENDS Integers, FiniteSets

CONSTANTS
  Tasks,       \* places for background tasks: the worker threads
  MaxMoves,    \* bound: moves of the card by its user
  MaxFaults    \* bound: crashes, lost webhook calls, and requests to the
               \* database or Planka that fail without an exception

ASSUME TasksAssumption == Tasks \subseteq Nat /\ IsFiniteSet(Tasks)
ASSUME BoundsAssumption == MaxMoves \in Nat /\ MaxFaults \in Nat

VARIABLES
  hitl,        \* does the plugin want its plan approved? (demo, sample)
  inherits,    \* does the research graph, reading a checkpoint of the review
               \* graph, see the one that graph began with, or nothing?
  thread,      \* the thread's latest checkpoint, as the research graph reads it
  plugin,      \* plugin of the project's row; "none" without a row
  card,        \* column of the card
  events,      \* webhook calls under way, by the column the card went to
  task,        \* the background tasks
  moves,       \* number of moves by the user so far
  faults,      \* number of faults so far
  own,         \* history: the last checkpoint a research task wrote
  shadowed,    \* history: a review's checkpoint has hidden that one since the
               \* run began
  careful,     \* history: the user never moved the card while the server was
               \* still busy with it
  mover        \* history: who moved the card last

graphVars == <<thread, own, shadowed>>
cardVars  == <<card, events, mover>>
vars == <<hitl, inherits, graphVars, plugin, cardVars, task, moves, faults,
          careful>>

Columns == {"Planning", "Pending", "Verify", "Review", "Done", "Failed"}
Watched == {"Pending", "Verify", "Failed"}

Checkpoint == [pending : {"nothing", "plan", "gate", "work"},
               result : {"UNKNOWN", "PASS", "TERMINATE"}]
Blank == [pending |-> "nothing", result |-> "UNKNOWN"]
Pending(node) == [pending |-> node, result |-> "UNKNOWN"]

Research == {"start", "resume"}
Places == {"queued", "plan", "implement", "work", "read",
           "review", "rounds", "verify", "last", "wrap"}
Task == [kind : Research \cup {"none", "review"}, at : Places,
         base : Checkpoint]
Idle == [kind |-> "none", at |-> "queued", base |-> Blank]

-----------------------------------------------------------------------------
Active(kinds) == {t \in Tasks : task[t].kind \in kinds}

Quiet == /\ \A c \in Watched : events[c] = 0
         /\ Active(Research \cup {"review"}) = {}

\* background_tasks.add_task, on the first idle worker.
Spawn(kind) ==
  \E t \in Tasks :
    /\ task[t] = Idle /\ \A u \in Tasks : u < t => task[u] # Idle
    /\ task' = [task EXCEPT ![t].kind = kind]

Goto(t, place) == task' = [task EXCEPT ![t].at = place]
Done(t) == task' = [task EXCEPT ![t] = Idle]

\* Fault: every change of the card is taken for a change of its column.
NotifyAlways(column) ==
  IF column \in Watched THEN [events EXCEPT ![column] = @ + 1] ELSE events

\* planka_webhook ignores a card that stays in its list.
Notify(column) ==
  IF column \in Watched /\ column # card
  THEN [events EXCEPT ![column] = @ + 1] ELSE events

Put(column) == card' = column /\ events' = Notify(column)

\* _move_planka_card reports nothing when it fails.
Move(column) ==
  \/ Put(column) /\ mover' = "server" /\ UNCHANGED faults
  \/ faults < MaxFaults /\ faults' = faults + 1 /\ UNCHANGED cardVars

\* A research task's checkpoint.
Save(checkpoint) ==
  thread' = checkpoint /\ own' = checkpoint /\ UNCHANGED shadowed

\* The review's checkpoint, for a graph that began with base.
Cover(base) ==
  /\ thread' = IF inherits THEN base ELSE Blank
  /\ shadowed' = (shadowed \/ thread' # own)
  /\ UNCHANGED own

-----------------------------------------------------------------------------
Init ==
  /\ hitl \in BOOLEAN /\ inherits \in BOOLEAN
  /\ thread = Blank /\ own = Blank /\ plugin = "none"
  /\ card = "Planning" /\ events = [c \in Watched |-> 0]
  /\ task = [t \in Tasks |-> Idle]
  /\ moves = 0 /\ faults = 0
  /\ shadowed = FALSE /\ careful = TRUE /\ mover = "user"

UserMove(column) ==
  /\ moves < MaxMoves /\ moves' = moves + 1
  /\ column # card /\ Put(column) /\ mover' = "user"
  /\ careful' = (careful /\ Quiet)
  /\ UNCHANGED <<hitl, inherits, graphVars, plugin, task, faults>>

-----------------------------------------------------------------------------
(* planka_webhook.  The handlers are coroutines that never await between   *)
(* reading the thread and queueing the task.                               *)

Accept(column) ==
  /\ events[column] > 0
  /\ events' = [events EXCEPT ![column] = @ - 1]
  /\ UNCHANGED <<hitl, inherits, graphVars, plugin, card, mover, moves, careful>>

HandlePending ==
  /\ Accept("Pending") /\ UNCHANGED faults
  /\ Active({"review"}) = {} /\ Spawn("review")

\* Fault: the thread's checkpoint is not asked for.
KindAlwaysStart(checkpoint) == "start"

KindFor(checkpoint) ==
  IF checkpoint.pending = "nothing" THEN "start" ELSE "resume"

\* Without a row the call is answered with an error.  A plugin that is not
\* registered and a thread that cannot be read count as no checkpoint.
HandleVerify ==
  /\ Accept("Verify")
  /\ \/ plugin = "none" /\ UNCHANGED <<task, faults>>
     \/ plugin = "unknown" /\ Spawn("start") /\ UNCHANGED faults
     \/ plugin = "known" /\ Spawn(KindFor(thread)) /\ UNCHANGED faults
     \/ /\ plugin = "known" /\ faults < MaxFaults /\ faults' = faults + 1
        /\ Spawn("start")

HandleFailed ==
  /\ Accept("Failed")
  /\ \/ /\ plugin = "known" /\ thread.pending # "nothing"
        /\ Spawn("resume") /\ UNCHANGED faults
     \/ /\ plugin # "known" \/ thread.pending = "nothing"
        /\ UNCHANGED <<task, faults>>
     \/ /\ plugin = "known" /\ faults < MaxFaults /\ faults' = faults + 1
        /\ UNCHANGED task

\* The server is down, or the description has no thread_id.
Lose(column) ==
  /\ Accept(column) /\ faults < MaxFaults /\ faults' = faults + 1
  /\ UNCHANGED task

Handle == HandlePending \/ HandleVerify \/ HandleFailed

-----------------------------------------------------------------------------
(* _run_start_bg and _run_resume_bg.                                       *)

Step(t, kinds, place) == task[t].kind \in kinds /\ task[t].at = place

\* graph.invoke(initial_state): the input replaces whatever was pending.
Start(t) ==
  /\ Step(t, {"start"}, "queued") /\ plugin = "known"
  /\ thread' = Pending("plan") /\ own' = Pending("plan") /\ shadowed' = FALSE
  /\ Goto(t, "plan")
  /\ UNCHANGED <<hitl, inherits, plugin, cardVars, moves, faults, careful>>

\* graph.invoke(Command(resume=...)): the pending node of the latest
\* checkpoint, if there still is one; the decision opens the gate.
Resume(t) ==
  /\ Step(t, {"resume"}, "queued") /\ plugin = "known"
  /\ Goto(t, CASE thread.pending = "nothing" -> "read"
               [] thread.pending = "gate" -> "implement"
               [] OTHER -> thread.pending)
  /\ UNCHANGED <<hitl, inherits, graphVars, plugin, cardVars, moves, faults,
                 careful>>

\* Plan, and then the interrupt of implement.
Plan(t) ==
  /\ Step(t, Research, "plan")
  /\ \/ hitl /\ Save(Pending("gate")) /\ Goto(t, "read")
     \/ ~hitl /\ Save(Pending("work")) /\ Goto(t, "work")
  /\ UNCHANGED <<hitl, inherits, plugin, cardVars, moves, faults, careful>>

Implement(t) ==
  /\ Step(t, Research, "implement")
  /\ Save(Pending("work")) /\ Goto(t, "work")
  /\ UNCHANGED <<hitl, inherits, plugin, cardVars, moves, faults, careful>>

Work(t) ==
  /\ Step(t, Research, "work")
  /\ \E result \in {"PASS", "TERMINATE"} :
       Save([pending |-> "nothing", result |-> result])
  /\ Goto(t, "read")
  /\ UNCHANGED <<hitl, inherits, plugin, cardVars, moves, faults, careful>>

\* Faults of _finish_run: a result it does not expect is only logged; a
\* terminated run counts as done; a column the board does not have.
FinishKnown(checkpoint) ==
  CASE checkpoint.pending # "nothing" -> "Review"
    [] checkpoint.result = "PASS" -> "Done"
    [] checkpoint.result = "TERMINATE" -> "Review"
    [] OTHER -> card
FinishDone(checkpoint) ==
  CASE checkpoint.pending # "nothing" -> "Review"
    [] checkpoint.result = "UNKNOWN" -> "Planning"
    [] OTHER -> "Done"
FinishResearch(checkpoint) ==
  IF checkpoint.pending # "nothing" THEN "Research" ELSE "Done"

\* What get_state says after the invocation decides where the card goes.
FinishColumn(checkpoint) ==
  CASE checkpoint.pending # "nothing" -> "Review"
    [] checkpoint.result = "PASS" -> "Done"
    [] checkpoint.result = "TERMINATE" -> "Review"
    [] OTHER -> "Planning"

Finish(t) ==
  /\ Step(t, Research, "read")
  /\ Move(FinishColumn(thread)) /\ Done(t)
  /\ UNCHANGED <<hitl, inherits, graphVars, plugin, moves, careful>>

\* The except clauses: a plugin that is not registered, a node that raises,
\* a checkpoint that cannot be written or read.
Fail(t) ==
  /\ task[t].kind \in Research
  /\ Move("Failed") /\ Done(t)
  /\ UNCHANGED <<hitl, inherits, graphVars, plugin, moves, careful>>

ResearchStep(t) ==
  Start(t) \/ Resume(t) \/ Plan(t) \/ Implement(t) \/ Work(t) \/ Finish(t)
  \/ Fail(t)

-----------------------------------------------------------------------------
(* _run_spec_review_bg and the review graph it invokes.                    *)

ReviewStub(t) ==
  /\ Step(t, {"review"}, "queued")
  /\ plugin' = "unknown" /\ Goto(t, "review")
  /\ UNCHANGED <<hitl, inherits, graphVars, cardVars, moves, faults, careful>>

\* graph.invoke(initial_state), up to the checkpoint before spec_finalize.
ReviewInvoke(t) ==
  /\ Step(t, {"review"}, "review")
  /\ Cover(thread)
  /\ task' = [task EXCEPT ![t].at = "rounds", ![t].base = thread]
  /\ UNCHANGED <<hitl, inherits, plugin, cardVars, moves, faults, careful>>

\* spec_finalize: questions, an abort or a failed upsert, ...
ReviewReturn(t) ==
  /\ Step(t, {"review"}, "rounds")
  /\ Move("Planning") /\ Goto(t, "last")
  /\ UNCHANGED <<hitl, inherits, graphVars, plugin, moves, careful>>

\* ... or the upsert of the reviewed project and then the move to Verify.
ReviewPersist(t) ==
  /\ Step(t, {"review"}, "rounds")
  /\ plugin' = "known" /\ Goto(t, "verify")
  /\ UNCHANGED <<hitl, inherits, graphVars, cardVars, moves, faults, careful>>

\* Fault: finalize launches the research and moves the card as well.
LaunchAndMove(t) ==
  /\ Step(t, {"review"}, "verify")
  /\ Move("Verify")
  /\ \E u \in Tasks :
       /\ task[u] = Idle
       /\ task' = [task EXCEPT ![u].kind = "start", ![t].at = "last"]
  /\ UNCHANGED <<hitl, inherits, graphVars, plugin, moves, careful>>

ReviewVerify(t) ==
  /\ Step(t, {"review"}, "verify")
  /\ Move("Verify") /\ Goto(t, "last")
  /\ UNCHANGED <<hitl, inherits, graphVars, plugin, moves, careful>>

\* The comment after the move, and the checkpoint after spec_finalize.
ReviewLast(t) ==
  /\ Step(t, {"review"}, "last")
  /\ Cover(task[t].base) /\ Goto(t, "wrap")
  /\ UNCHANGED <<hitl, inherits, plugin, cardVars, moves, faults, careful>>

\* The graph has returned: the uploads and the work directory.
ReviewWrap(t) ==
  /\ Step(t, {"review"}, "wrap") /\ Done(t)
  /\ UNCHANGED <<hitl, inherits, graphVars, plugin, cardVars, moves, faults,
                 careful>>

\* The early returns and the except clause.  It covers the last checkpoint and
\* the uploads too, when a research of the project may already be at work.
ReviewFail(t) ==
  /\ task[t].kind = "review" /\ task[t].at # "verify"
  /\ Move("Planning") /\ Done(t)
  /\ UNCHANGED <<hitl, inherits, graphVars, plugin, moves, careful>>

ReviewStep(t) ==
  \/ ReviewStub(t) \/ ReviewInvoke(t) \/ ReviewReturn(t) \/ ReviewPersist(t)
  \/ ReviewVerify(t) \/ ReviewLast(t) \/ ReviewWrap(t) \/ ReviewFail(t)

\* The process is started again: its tasks are gone, calls may still arrive.
Crash ==
  /\ faults < MaxFaults /\ faults' = faults + 1
  /\ ~Quiet /\ task' = [t \in Tasks |-> Idle]
  /\ UNCHANGED <<hitl, inherits, graphVars, plugin, cardVars, moves, careful>>

Next ==
  \/ \E column \in Columns : UserMove(column)
  \/ Handle \/ \E column \in Watched : Lose(column)
  \/ \E t \in Tasks : ResearchStep(t) \/ ReviewStep(t)
  \/ Crash

Spec == Init /\ [][Next]_vars

\* The event loop and the worker threads run on; users, faults do not have to.
FairSpec ==
  /\ Spec /\ WF_vars(Handle)
  /\ \A t \in Tasks : WF_vars(ResearchStep(t)) /\ WF_vars(ReviewStep(t))

-----------------------------------------------------------------------------
(* Properties.                                                             *)

\* Every variable keeps to its values; the card is only ever sent to columns
\* the board has (server.py:86).
TypeOK ==
  /\ hitl \in BOOLEAN /\ inherits \in BOOLEAN
  /\ thread \in Checkpoint /\ own \in Checkpoint
  /\ plugin \in {"none", "unknown", "known"}
  /\ card \in Columns /\ events \in [Watched -> Nat]
  /\ task \in [Tasks -> Task]
  /\ moves \in Nat /\ faults \in Nat
  /\ shadowed \in BOOLEAN /\ careful \in BOOLEAN
  /\ mover \in {"user", "server"}

\* As long as the user lets the server finish before moving the card, the
\* thread has one research invocation at a time: the server's own moves never
\* start a second one, and a task that moves the card to a watched column has
\* nothing left to do (server.py:196, spec_review_graph.py:457).
OneInvocation ==
  careful =>
    /\ Cardinality(Active(Research)) <= 1
    /\ Active(Research) # {} => events["Verify"] = 0 /\ events["Failed"] = 0

\* A fresh start does not throw away a run that waits or was cut short, unless
\* the user did not wait, a request failed, or a review has since written its
\* checkpoint over that of the run (server.py:574-597).
Started ==
  \E t \in Tasks : Step(t, {"start"}, "queued") /\ task'[t].at = "plan"

RunKept ==
  [][ Started =>
        own.pending = "nothing" \/ shadowed \/ ~careful \/ faults > 0 ]_vars

\* A card in Verify has a task at work on it, or a call that will start one,
\* whatever the tasks before came to (server.py:187-220, 272-281).
VerifyIsBusy ==
  card = "Verify" /\ plugin # "none" /\ careful /\ faults = 0 =>
    Active(Research) # {} \/ events["Verify"] > 0

\* When the server is done and has put the card in Done or Review, that is
\* what became of the run: Done after a PASS, Review for a plan that waits or
\* a run that was terminated (server.py:171-220, 256-272).
CardTellsRun ==
  Quiet /\ mover = "server" /\ careful /\ ~shadowed =>
    /\ card = "Done" => own = [pending |-> "nothing", result |-> "PASS"]
    /\ card = "Review" =>
         own \in {Pending("gate"),
                  [pending |-> "nothing", result |-> "TERMINATE"]}

\* Whatever the tasks do, the checkpoints they write follow one another as
\* those of one run (ThreadContract): with a user who waits, and until a review
\* writes over them, no task continues from a checkpoint that has been
\* superseded (server.py:196-220, 281, 409).
Thread == INSTANCE ThreadContract
          WITH pending <- own.pending, result <- own.result

OwnFollows == [][careful /\ ~shadowed => Thread!Next]_own

\* How much the server still has to do: the calls under way, the tasks, and
\* the move to Failed that may still come, each counted with all that it can
\* bring about.
At(kinds, place) == Cardinality({t \in Tasks : Step(t, kinds, place)})

ResearchLoad ==
  11 * At(Research, "queued") + 10 * At(Research, "plan")
  + 9 * At(Research, "implement") + 8 * At(Research, "work")
  + 7 * At(Research, "read")
ReviewLoad ==
  30 * At({"review"}, "queued") + 29 * At({"review"}, "review")
  + 28 * At({"review"}, "rounds") + 27 * At({"review"}, "verify")
  + 8 * At({"review"}, "last") + 7 * At({"review"}, "wrap")
Load ==
  31 * events["Pending"] + 12 * (events["Verify"] + events["Failed"])
  + (IF card = "Failed" THEN 0 ELSE 6) + ResearchLoad + ReviewLoad

\* The server winds down: only its user gives it more to do.  Each of its own
\* steps leaves less, also those that move the card to a column that starts
\* a task, and a review that fails late and takes the card of a failed run out
\* of Failed; and a fault adds nothing (server.py:196, 416-427, 533, 600-612).
WindsDown ==
  [][ moves' = moves =>
        /\ 0 <= Load' /\ Load' <= Load
        /\ faults' = faults => Load' < Load ]_vars

\* The server comes to rest when its user does: its own moves of the card do
\* not keep starting tasks that move the card, even if every run fails
\* (server.py:533, 600-612).
Settles == <>[]Quiet

-----------------------------------------------------------------------------
(* What documents of the repository say, and the code does not do.         *)

\* The checkpoints of the two graphs do not conflict: a run that waits for its
\* plan to be approved is resumed, not started afresh, when its card is moved to
\* Verify (llm-reliability-and-spec-review-graph/design.md:131, server.py:15).
GraphsApart ==
  [][ Started /\ careful /\ faults = 0 => own # Pending("gate") ]_vars
=============================================================================
