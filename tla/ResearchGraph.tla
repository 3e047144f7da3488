--------------------------- MODULE ResearchGraph ---------------------------
(***************************************************************************)
(* One project's research thread: the LangGraph graph that                 *)
(* framework/graph.py builds around a plugin, the background tasks of      *)
(* framework/api/server.py that invoke it, and the loop_metrics rows and   *)
(* reports it leaves behind.                                               *)
(*                                                                         *)
(*   plan -> implement -> test -> analyze -+- PASS ------> summarize       *)
(*               ^                         |               record_metrics  *)
(*               |                         +- FAIL ------> revise          *)
(*               +-- revise                +- TERMINATE -> record_terminate*)
(*                                            terminate_summarize          *)
(*                                            final_summary                *)
(*                                                                         *)
(* A node's updates become durable when LangGraph writes the checkpoint    *)
(* that follows it; everything the node did to the database, to local      *)
(* files and to Planka is durable before that.  A node that is cut short   *)
(* between the two is executed again by the next resume.                   *)
(*                                                                         *)
(* Plans, prompts, metrics and reports are abstracted to what tells them   *)
(* apart: which run and which test of the run produced them.  loop_index   *)
(* only names files (it stays 0 until the PASS that ends the run).         *)
(***************************************************************************)
EXTENDS Integers, FiniteSets

CONSTANTS
  Plugins,     \* the plugins a project may be bound to
  LoopLimits,  \* the values of max_loops projects are configured with
  MaxLoops,    \* bound: the largest of them
  MaxRuns,     \* bound: fresh starts of the thread
  MaxStops     \* bound: crashes of the process and exceptions of a node

AllPlugins == {"quant_alpha", "demo", "dummy", "sample"}

ASSUME PluginsAssumption == Plugins \subseteq AllPlugins
ASSUME MaxLoopsAssumption == MaxLoops \in Nat /\ LoopLimits \subseteq 1 .. MaxLoops
ASSUME BoundsAssumption == MaxRuns \in Nat /\ MaxStops \in Nat

VARIABLES
  plugin,      \* the plugin named by the project's spec
  sink,        \* is a PlankaSink configured?
  next,        \* node the thread's latest checkpoint has pending
  st,          \* ResearchState of that checkpoint
  mode,        \* what the background task that invokes the graph is doing
  answer,      \* decision carried by Command(resume=...), until it is used
  card,        \* column of the project's card
  rows,        \* table loop_metrics of the project
  file,        \* local report files, by artifact type
  attached,    \* reports attached to the card
  runs,        \* number of fresh starts so far
  stops,       \* number of crashes and exceptions so far
  paused,      \* history: the plan of this run was put to the operator
  missed       \* history: attempts of this run whose last row write failed

threadVars == <<next, st, mode, answer, card>>
storeVars  == <<rows, file, attached, missed>>
vars == <<plugin, sink, threadVars, storeVars, runs, stops, paused>>

Nodes == {"plan", "implement", "test", "analyze", "revise", "summarize",
          "record_metrics", "record_terminate_metrics",
          "terminate_summarize", "final_summary"}
LoopNodes == {"plan", "implement", "test", "analyze", "revise"}
Results == {"UNKNOWN", "PLAN_READY", "PASS", "FAIL", "TERMINATE"}
Reasons == {"none", "plan", "analysis", "rejected", "limit", "gave_up",
            "revised", "exhausted", "summary"}
Decisions == {"continue", "terminate", "approve", "reject"}
Columns == {"Planning", "Verify", "Review", "Done", "Failed"}
Reports == {"summary", "terminate_summary"}

None == [run |-> 0, test |-> 0]
Measures == [run : Nat, test : Nat]
Row == [result : {"none", "PASS", "FAIL", "TERMINATE"}, reason : Reasons,
        report : BOOLEAN, metrics : Measures, recorded_at : Nat]
NoRow == [result |-> "none", reason |-> "none", report |-> FALSE,
          metrics |-> None, recorded_at |-> 0]
Report == [kind : Reports \cup {"final"}, run : Nat, attempt : Nat]
NoFile == [run |-> 0, attempt |-> 0]
ResearchState ==
  [last_result : Results, last_reason : Reasons, max_loops : LoopLimits,
   attempt_index : Nat, attempt_count : Nat, needs_human_approval : BOOLEAN,
   test_metrics : Measures, artifacts : SUBSET Reports]

-----------------------------------------------------------------------------
(* The plugins: what each node of each plugin answers.                     *)

NeedsApproval(p) == p \in {"demo", "sample"}

PlanUpdate(p, s) ==
  IF p = "quant_alpha"
  THEN [s EXCEPT !.needs_human_approval = FALSE,
                 !.last_result = "PLAN_READY", !.last_reason = "plan"]
  ELSE [s EXCEPT !.needs_human_approval = NeedsApproval(p)]

\* analyze_node returns the TERMINATE it finds in the state.
Propagates(p) == p \in {"quant_alpha", "demo"}

\* Fault: the TERMINATE in the state is not looked at.
VerdictsForget(p, s) ==
  IF p = "quant_alpha" THEN {"PASS", "FAIL", "TERMINATE"} ELSE {"PASS"}

\* demo: win_rate - threshold = 0.07 * attempt - 0.06.  sample: _CONFIGS[0]
\* misses the accuracy threshold, every configuration revise picks meets it.
Verdicts(p, s) ==
  IF Propagates(p) /\ s.last_result = "TERMINATE" THEN {"TERMINATE"}
  ELSE IF p = "quant_alpha" THEN {"PASS", "FAIL", "TERMINATE"}
  ELSE IF p = "demo" THEN {IF 7 * s.attempt_count < 6 THEN "FAIL" ELSE "PASS"}
  ELSE {IF s.attempt_count < 2 THEN "FAIL" ELSE "PASS"}

\* Faults: revise starts the count of attempts again; the operator is asked
\* about the revised plan too.
ReviseResets(p, s) == {[s EXCEPT !.attempt_index = 0]}
ReviseAsks(p, s) == {[s EXCEPT !.needs_human_approval = NeedsApproval(p)]}

\* quant_alpha gives up at the third failed test, or when its LLM says so.
ReviseUpdates(p, s) ==
  LET stop(why) == [s EXCEPT !.last_result = "TERMINATE", !.last_reason = why]
      retry == [s EXCEPT !.last_reason = "revised"]
  IN IF p = "sample" THEN {s}
     ELSE IF p # "quant_alpha"
     THEN {[retry EXCEPT !.needs_human_approval =
              IF p = "demo" THEN FALSE ELSE @]}
     ELSE IF s.attempt_count >= 3 THEN {stop("limit")}
     ELSE {stop("gave_up"), [retry EXCEPT !.needs_human_approval = FALSE]}

-----------------------------------------------------------------------------
(* The framework around the plugin.                                        *)

\* server._build_initial_state
InitialState(max) ==
  [last_result |-> "UNKNOWN", last_reason |-> "none", max_loops |-> max,
   attempt_index |-> 0, attempt_count |-> 0, needs_human_approval |-> FALSE,
   test_metrics |-> None, artifacts |-> {}]

\* Faults of the wrapper: max_loops checked one attempt late, never, the
\* analyst's TERMINATE obeyed, a TERMINATE of the state overridden.
JudgeAs(s, v, exhausted, early) ==
  [s EXCEPT !.attempt_index = @ + 1,
            !.last_result = IF exhausted THEN "TERMINATE"
                            ELSE IF early THEN "FAIL" ELSE v,
            !.last_reason = IF exhausted THEN "exhausted" ELSE "analysis"]
JudgeLate(s, v) == JudgeAs(s, v, v # "PASS" /\ s.attempt_index >= s.max_loops,
                           v = "TERMINATE" /\ s.last_result # "TERMINATE")
JudgeForever(s, v) == JudgeAs(s, v, FALSE, v = "TERMINATE")
JudgeObeys(s, v) ==
  JudgeAs(s, v, v # "PASS" /\ s.attempt_index + 1 >= s.max_loops, FALSE)
JudgeOverrides(s, v) ==
  JudgeAs(s, v, v # "PASS" /\ s.attempt_index + 1 >= s.max_loops,
          v = "TERMINATE")

\* The wrapper of analyze_node: v is the verdict of the plugin on state s.
Judge(s, v) ==
  LET new == s.attempt_index + 1
      exhausted == v # "PASS" /\ new >= s.max_loops
      early == v = "TERMINATE" /\ s.last_result # "TERMINATE"
      kept == v = "TERMINATE" /\ s.last_result = "TERMINATE"
  IN [s EXCEPT
        !.attempt_index = new,
        !.last_result = IF exhausted THEN "TERMINATE"
                        ELSE IF early THEN "FAIL" ELSE v,
        !.last_reason = IF exhausted THEN "exhausted"
                        ELSE IF kept THEN @ ELSE "analysis"]

\* Fault: only FAIL leads back to revise and only PASS to summarize, the rest
\* is revised too.
RouteRetries(s) ==
  IF s.last_result = "PASS" THEN "summarize" ELSE "revise"

\* _analyze_router and the edges it selects
Route(s) ==
  IF s.last_result = "PASS" THEN "summarize"
  ELSE IF s.last_result = "TERMINATE" THEN "record_terminate_metrics"
  ELSE "revise"

\* Faults of the upsert: an existing row is kept; the attempt counts from 0.
UpsertKeeps(s, hasReport) ==
  [rows EXCEPT ![s.attempt_index] =
     IF @ # NoRow THEN @
     ELSE [result |-> s.last_result, reason |-> s.last_reason,
           report |-> hasReport, recorded_at |-> runs,
           metrics |-> s.test_metrics]]
UpsertFromZero(s, hasReport) ==
  [rows EXCEPT ![s.attempt_index - 1] =
     [result |-> s.last_result, reason |-> s.last_reason,
      report |-> hasReport, recorded_at |-> runs,
      metrics |-> s.test_metrics]]

\* queries.record_loop_metrics: the conflict clause of the upsert updates the
\* result, the reason, the report and the time, and leaves the metrics.
Upsert(s, hasReport) ==
  [rows EXCEPT ![s.attempt_index] =
     [result |-> s.last_result, reason |-> s.last_reason,
      report |-> hasReport, recorded_at |-> runs,
      metrics |-> IF @ = NoRow THEN s.test_metrics ELSE @.metrics]]

\* The write fails without stopping the node, or succeeds.
RecordLoopMetrics(s, hasReport) ==
  \/ /\ rows' = Upsert(s, hasReport)
     /\ missed' = missed \ {s.attempt_index}
  \/ /\ missed' = missed \cup {s.attempt_index}
     /\ UNCHANGED rows

\* sink.upload_spec_attachment after sink.resolve_card_id: either may fail,
\* and neither raises.
MayAttach(kind) ==
  \/ UNCHANGED attached
  \/ /\ sink
     /\ attached' = attached \cup
          {[kind |-> kind, run |-> runs, attempt |-> st.attempt_index]}

\* The report a plugin writes stays only where there is no card for it.
LocalFile(kind) ==
  [file EXCEPT ![kind] =
     IF sink THEN NoFile ELSE [run |-> runs, attempt |-> st.attempt_index]]

\* _move_planka_card gives up without an exception: the card may stay.
MoveTo(column) == card' \in {card, column}

\* The checkpoint after a node: s is the new state and n the pending node.
\* Or the node is cut short first, by a crash of the process (the card stays)
\* or an exception the background task reports (the card moves to Failed).
Save(s, n) ==
  \/ /\ st' = s /\ next' = n /\ answer' = "none"
     /\ UNCHANGED <<mode, card, stops>>
  \/ /\ stops < MaxStops
     /\ stops' = stops + 1
     /\ mode' = "stopped"
     /\ MoveTo("Failed")
     /\ UNCHANGED <<st, next, answer>>

At(n) == mode = "running" /\ next = n

-----------------------------------------------------------------------------
Init ==
  /\ plugin \in Plugins /\ sink \in BOOLEAN
  /\ next = "none" /\ mode = "idle" /\ answer = "none"
  /\ \E max \in LoopLimits : st = InitialState(max)
  /\ card = "Planning"
  /\ rows = [i \in 1 .. MaxLoops |-> NoRow]
  /\ file = [k \in Reports |-> NoFile]
  /\ attached = {} /\ missed = {} /\ runs = 0 /\ stops = 0 /\ paused = FALSE

\* A move to Verify with no node pending, or with a checkpoint the webhook
\* fails to read: _run_start_bg invokes the graph with a new state.
StartRun ==
  /\ mode # "running"
  /\ runs < MaxRuns
  /\ runs' = runs + 1
  /\ \E max \in LoopLimits : st' = InitialState(max)
  /\ next' = "plan" /\ mode' = "running"
  /\ answer' = "none" /\ card' = "Verify"
  /\ paused' = FALSE /\ missed' = {}
  /\ UNCHANGED <<plugin, sink, rows, file, attached, stops>>

\* Fault: only an interrupted run is resumed, not one that was cut short.
ResumeInterrupted(d) ==
  /\ mode = "waiting" /\ next \in Nodes
  /\ mode' = "running" /\ answer' = d
  /\ UNCHANGED <<card, plugin, sink, next, st, storeVars, runs, stops, paused>>

\* A node is pending: a move to Verify continues, a move to Failed
\* terminates (_run_resume_bg), a HITL driver approves or rejects.
Resume(d) ==
  /\ mode \in {"waiting", "stopped"}
  /\ next \in Nodes
  /\ mode' = "running" /\ answer' = d
  /\ card' = CASE d = "continue" -> "Verify"
               [] d = "terminate" -> "Failed"
               [] OTHER -> card
  /\ UNCHANGED <<plugin, sink, next, st, storeVars, runs, stops, paused>>

\* The process dies, or a node raises, before the node has done anything.
Stop ==
  /\ mode = "running"
  /\ stops < MaxStops
  /\ stops' = stops + 1
  /\ mode' = "stopped"
  /\ MoveTo("Failed")
  /\ UNCHANGED <<plugin, sink, next, st, answer, storeVars, runs, paused>>

Plan ==
  /\ At("plan")
  /\ Save(PlanUpdate(plugin, st), "implement")
  /\ UNCHANGED <<plugin, sink, storeVars, runs, paused>>

\* interrupt(): the invocation returns and the card moves to Review.
AwaitApproval ==
  /\ At("implement")
  /\ st.needs_human_approval /\ answer = "none"
  /\ mode' = "waiting" /\ MoveTo("Review") /\ paused' = TRUE
  /\ UNCHANGED <<plugin, sink, next, st, answer, storeVars, runs, stops>>

RejectPlan ==
  /\ At("implement")
  /\ st.needs_human_approval /\ answer = "reject"
  /\ Save([st EXCEPT !.last_result = "TERMINATE", !.last_reason = "rejected",
                     !.needs_human_approval = FALSE], "test")
  /\ UNCHANGED <<plugin, sink, storeVars, runs, paused>>

Implement ==
  /\ At("implement")
  /\ st.needs_human_approval => answer \in Decisions \ {"reject"}
  /\ Save([st EXCEPT !.needs_human_approval = FALSE], "test")
  /\ UNCHANGED <<plugin, sink, storeVars, runs, paused>>

Test ==
  /\ At("test")
  /\ LET k == st.attempt_count + 1
     IN Save([st EXCEPT !.attempt_count = k,
                        !.test_metrics = [run |-> runs, test |-> k]],
             "analyze")
  /\ UNCHANGED <<plugin, sink, storeVars, runs, paused>>

Analyze ==
  /\ At("analyze")
  /\ \E v \in Verdicts(plugin, st) :
       LET s == Judge(st, v) IN
       /\ IF s.last_result = "FAIL"
          THEN RecordLoopMetrics(s, FALSE)
          ELSE UNCHANGED <<rows, missed>>
       /\ Save(s, Route(s))
  /\ UNCHANGED <<plugin, sink, file, attached, runs, paused>>

Revise ==
  /\ At("revise")
  /\ \E s \in ReviseUpdates(plugin, st) :
       Save(s, "implement")
  /\ UNCHANGED <<plugin, sink, storeVars, runs, paused>>

\* Fault: the report is never an artifact of the run.
SummaryForgotten == [st EXCEPT !.last_reason = "summary", !.attempt_count = 0]

SummaryUpdate ==
  [st EXCEPT !.last_reason = "summary", !.attempt_count = 0,
             !.artifacts = IF sink THEN @ ELSE @ \cup {"summary"}]

\* The plugin writes the report; with a sink the wrapper uploads it, deletes
\* it whatever became of the upload, and forgets the artifact.
Summarize ==
  /\ At("summarize")
  /\ MayAttach("summary")
  /\ file' = LocalFile("summary")
  /\ Save(SummaryUpdate, "record_metrics")
  /\ UNCHANGED <<plugin, sink, rows, missed, runs, paused>>

RecordMetrics ==
  /\ At("record_metrics")
  /\ RecordLoopMetrics(st, "summary" \in st.artifacts)
  /\ Save(st, "end")
  /\ UNCHANGED <<plugin, sink, file, attached, runs, paused>>

RecordTerminateMetrics ==
  /\ At("record_terminate_metrics")
  /\ RecordLoopMetrics(st, FALSE)
  /\ Save(st, "terminate_summarize")
  /\ UNCHANGED <<plugin, sink, file, attached, runs, paused>>

\* As Summarize, but the artifact stays in the state.
TerminateSummarize ==
  /\ At("terminate_summarize")
  /\ MayAttach("terminate_summary")
  /\ file' = LocalFile("terminate_summary")
  /\ Save([st EXCEPT !.last_reason = "summary",
                     !.artifacts = @ \cup {"terminate_summary"}],
          "final_summary")
  /\ UNCHANGED <<plugin, sink, rows, missed, runs, paused>>

FinalSummary ==
  /\ At("final_summary")
  /\ MayAttach("final")
  /\ Save(st, "end")
  /\ UNCHANGED <<plugin, sink, rows, file, missed, runs, paused>>

\* Fault: a terminated run is taken for an unexpected result.
FinishOnPassOnly(result) == IF result = "PASS" THEN "Done" ELSE "Planning"

\* server._finish_run
FinishColumn(result) ==
  CASE result = "PASS" -> "Done"
    [] result = "TERMINATE" -> "Review"
    [] OTHER -> "Planning"

Finish ==
  /\ At("end")
  /\ mode' = "idle"
  /\ MoveTo(FinishColumn(st.last_result))
  /\ UNCHANGED <<plugin, sink, next, st, answer, storeVars, runs, stops,
                 paused>>

GraphStep ==
  \/ Plan \/ AwaitApproval \/ RejectPlan \/ Implement \/ Test \/ Analyze
  \/ Revise \/ Summarize \/ RecordMetrics \/ RecordTerminateMetrics
  \/ TerminateSummarize \/ FinalSummary \/ Finish

Operator == \E d \in Decisions : Resume(d)

Next == StartRun \/ Operator \/ Stop \/ GraphStep

Spec == Init /\ [][Next]_vars

\* An invoked graph runs on; an operator answers a pause or a failure.
FairSpec == Spec /\ WF_vars(GraphStep) /\ WF_vars(Operator)

-----------------------------------------------------------------------------
(* Properties.                                                             *)

Ending == {"record_terminate_metrics", "terminate_summarize",
           "final_summary", "end"}

\* Every variable keeps to its values: the types of ResearchState
\* (graph.py:52), of the loop_metrics rows (queries.py:85) and of the card.
TypeOK ==
  /\ plugin \in Plugins /\ sink \in BOOLEAN
  /\ next \in Nodes \cup {"none", "end"}
  /\ st \in ResearchState
  /\ mode \in {"idle", "running", "waiting", "stopped"}
  /\ answer \in Decisions \cup {"none"}
  /\ card \in Columns
  /\ rows \in [1 .. MaxLoops -> Row]
  /\ file \in [Reports -> [run : Nat, attempt : Nat]]
  /\ attached \in SUBSET Report
  /\ missed \in SUBSET (1 .. MaxLoops)
  /\ runs \in Nat /\ stops \in Nat /\ paused \in BOOLEAN

\* max_loops bounds the verdicts of a run, whatever the plugin answers and
\* however often nodes are executed again: a run that is still looping has a
\* verdict left (graph.py:92).
AttemptBound ==
  /\ st.attempt_index <= st.max_loops
  /\ next \in LoopNodes => st.attempt_index < st.max_loops

\* The pending node of a checkpoint tells which verdict led to it, so that a
\* run resumed from it cannot write PASS where the analyst did not pass it or
\* revise what was to be terminated (graph.py:316, 502-518).
VerdictAtNode ==
  /\ next \in LoopNodes => st.last_result # "PASS"
  /\ next \in {"none", "plan", "revise"} => st.last_result # "TERMINATE"
  /\ next \in LoopNodes /\ st.last_result = "TERMINATE" =>
       st.last_reason \in {"rejected", "limit", "gave_up"}
  /\ next \in {"summarize", "record_metrics"} => st.last_result = "PASS"
  /\ next \in Ending \ {"end"} => st.last_result = "TERMINATE"
  /\ next = "end" => st.last_result \in {"PASS", "TERMINATE"}
  /\ next \in Nodes \cup {"end"} /\ next \notin LoopNodes =>
       st.attempt_index > 0

\* A run ends without PASS before max_loops only on a decision taken outside
\* analyze, by the reviewer of the plan or by revise_node: the TERMINATE of an
\* analyze_node never gets through (graph.py:95-98).
SanctionedStop ==
  next = "record_terminate_metrics" =>
    IF st.attempt_index = st.max_loops
    THEN st.last_reason = "exhausted"
    ELSE st.last_reason \in {"rejected", "limit", "gave_up"}

\* A finished run leaves its whole history in loop_metrics: a FAIL row for
\* each attempt but the last, the final result in the last one, all written
\* during this run, over the rows of earlier runs and of nodes executed
\* twice.  Only rows whose write failed are missing (graph.py:99, 337, 367).
HistoryComplete ==
  next = "end" =>
    \A i \in (1 .. st.attempt_index) \ missed :
      /\ rows[i].recorded_at = runs
      /\ rows[i].result = IF i < st.attempt_index
                          THEN "FAIL" ELSE st.last_result

\* The metrics written for attempt i of a first run come from its i-th test:
\* attempt_index, which the framework counts in analyze, and attempt_count,
\* which the plugin counts in test, agree (graph.py:85, queries.py:108).
MetricsOfAttempt ==
  runs = 1 => \A i \in 1 .. MaxLoops :
    rows[i] # NoRow => rows[i].metrics = [run |-> 1, test |-> i]

\* _finish_run (server.py:199) never meets an unexpected result, and a card
\* is in Done only when the run it shows has ended with PASS.
FinishOutcome ==
  /\ runs > 0 => card # "Planning"
  /\ card = "Done" => next = "end" /\ st.last_result = "PASS"

\* Without a sink nothing is uploaded and nothing is deleted: the report a
\* row refers to is the local file of that run (graph.py:128, 350).
ReportOfRow ==
  next = "end" /\ ~sink /\ st.last_result = "PASS" /\ missed = {} =>
    /\ rows[st.attempt_index].report
    /\ file["summary"] = [run |-> runs, attempt |-> st.attempt_index]

\* TERMINATE is final: for the plugins whose analyze_node propagates it, no
\* step of the run, no crash and no resume turns it into anything else
\* (graph.py:83, plugin.py propagation).
TerminateIsFinal ==
  [][ /\ st.last_result = "TERMINATE" /\ Propagates(plugin)
      /\ runs' = runs
      => st'.last_result = "TERMINATE" ]_vars

\* Attempts are counted one by one, by analyze alone, and a run is never set
\* back by a crash, an exception or a resume.
AttemptsCount ==
  [][ runs' = runs /\ st'.attempt_index # st.attempt_index =>
        /\ next = "analyze" /\ mode = "running"
        /\ st'.attempt_index = st.attempt_index + 1 ]_vars

\* The checkpoints a run has before it at most: a round of the loop is four
\* nodes and costs one of the verdicts max_loops allows.
LoopRank(n) ==
  CASE n = "analyze" -> 0 [] n = "test" -> 1 [] n = "implement" -> 2
    [] OTHER -> 3
Distance(n, s) ==
  CASE n \in LoopNodes -> 4 * (s.max_loops - s.attempt_index) + LoopRank(n)
    [] n = "record_terminate_metrics" -> 3
    [] n \in {"terminate_summarize", "summarize"} -> 2
    [] n \in {"final_summary", "record_metrics"} -> 1
    [] OTHER -> 0

\* Between two checkpoints there are at most a pause and its answer; a crash
\* or an exception, and the resume after it, add two steps.
Effort ==
  4 * Distance(next, st) + 2 * (MaxStops - stops)
    + CASE mode = "running" -> IF answer = "none" THEN 3 ELSE 1
        [] mode \in {"waiting", "stopped"} -> 2
        [] OTHER -> 0

\* Every step of a run brings it nearer to its end, so that one started with
\* max_loops = n is over within 16 * n + 15 steps and two more per crash:
\* neither a plugin that never answers PASS, nor revise, nor a node executed
\* twice, nor an operator who keeps resuming, sets it back (graph.py:90, 316;
\* server.py:156).
NearsEnd ==
  [][ runs' = runs => 0 <= Effort' /\ Effort' < Effort ]_vars

\* A run that was started reaches its end, as long as invoked graphs run on
\* and an operator answers pauses and failures: max_loops cuts the loop
\* analyze -> revise -> implement, and a crash costs no more than one node.
RunEnds == (next = "plan") ~> (next = "end")

\* The run seen from outside: the phase the contract speaks of.  sample has
\* no contract: its analyze_node forgets that the plan was rejected.
Bound == plugin # "sample"

Phase ==
  CASE ~Bound \/ next = "none" -> "idle"
    [] Bound /\ next \in LoopNodes ->
         IF st.last_result = "TERMINATE" THEN "stopping" ELSE "looping"
    [] OTHER -> IF st.last_result = "PASS" THEN "passed" ELSE "terminated"

Attempts == IF Bound THEN st.attempt_index ELSE 0

Limit == IF Bound THEN st.max_loops ELSE 1

Contract ==
  INSTANCE ResearchContract
    WITH phase <- Phase, attempts <- Attempts, limit <- Limit

\* The graph implements the contract of a research run: at most max_loops
\* verdicts, and no PASS once the run was told to stop.
ImplementsContract == Contract!Spec

\* The thread as the server sees it, who knows only what is pending.
Pending ==
  CASE next = "plan" -> "plan"
    [] next = "implement" /\ st.needs_human_approval -> "gate"
    [] next \in {"none", "end"} -> "nothing"
    [] OTHER -> "work"

Outcome == IF next = "end" THEN st.last_result ELSE "UNKNOWN"

Thread ==
  INSTANCE ThreadContract
    WITH hitl <- NeedsApproval(plugin), pending <- Pending, result <- Outcome

\* The graph is what ProjectThread takes it for: a plan that needs approval is
\* followed by the gate, which no later round of the loop and no node
\* executed twice brings back, and a run leaves PASS or TERMINATE, whatever
\* was decided at the gate (graph.py:487-518, server.py:171-220).
ImplementsThread == Thread!Spec

-----------------------------------------------------------------------------
(* What documents and comments of the repository say, and the code does not *)
(* do.                                                                      *)

\* A card moved to Failed terminates the run that waits for its plan to be
\* approved (server.py:16 and 506).
TerminateEndsRun ==
  [][ /\ At("implement") /\ st.needs_human_approval /\ answer = "terminate"
      /\ st' # st
      => st'.last_result = "TERMINATE" ]_vars

\* The graph pauses for the plan's approval before it implements the plan
\* (hitl-interrupts/spec.md:4).
PauseBeforeImplement ==
  [][ next = "implement" /\ next' = "test" /\ st.needs_human_approval
      => paused ]_vars

\* It does, in any run of a thread that no crash and no exception ever cut
\* short: only then can a decision that was meant for a failure be taken for
\* the operator's approval (server.py:164).
PausesUnlessCut ==
  [][ /\ next = "implement" /\ next' = "test" /\ st.needs_human_approval
      /\ stops = 0
      => paused ]_vars
=============================================================================
