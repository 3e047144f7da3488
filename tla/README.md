# Verification of the agentic research framework

This directory holds TLA+ models of the framework, the TLC configurations that
check them on small instances, and theorems about them that TLAPS proves for
every value of the constants. Source paths are relative to the repository.

## The system

A **project** is a card on a Planka board, a row of table `projects`, rows of
`loop_metrics`, and one LangGraph thread. A FastAPI server receives a webhook
for each change of a card; the column the card enters decides what happens:

| column entered | what runs | source |
|---|---|---|
| Spec Pending Review | `_run_spec_review_bg`, the spec review graph | `framework/api/server.py`, `framework/spec_review_graph.py` |
| Verify | the research graph, afresh or resumed with `continue` | `server.py`, `framework/graph.py` |
| Failed | the pending research, resumed with `terminate` | `server.py` |

Every webhook starts a background task of its own; nothing in the server
serialises tasks of one project. What they share is the row, the card and the
checkpoints of the thread.

### Inventory

| component | state | operations | hard behaviour | correct when |
|---|---|---|---|---|
| research graph (`framework/graph.py`) | `ResearchState` in the checkpoint, pending node | the ten nodes, wrappers, router | a node cut short runs again; its side effects are already done; interrupts | bounded attempts, TERMINATE final, rows tell the history |
| webhook and research tasks (`server.py`) | none of their own; webhook calls under way | `planka_webhook`, `_run_start_bg`, `_run_resume_bg`, `_finish_run` | calls and tasks in any order, crash before the card moves, the server's own moves coming back as calls, two graphs on one thread | one invocation at a time, a waiting run is resumed, the card shows the outcome, the server comes to rest |
| plugins (`projects/*/plugin.py`) | files under `ARTIFACTS_DIR` | seven nodes each | propagation of TERMINATE by hand, own limits, shared files | keep the node contract |
| database (`framework/db`) | `projects`, `loop_metrics` | upserts, flag update | conflict clauses that keep or replace columns | last write wins |
| Planka sink (`framework/planka.py`) | card ids in memory and in the row | comments, attachments, download, finding the card | every call may fail silently; the id is forgotten, the card deleted or taken to another board | never a stranger's card, and the project's own when it is there |
| spec review (`server.py`, `spec_review_graph.py`) | `review_in_progress` in the row, `SpecReviewState` | check, stub, download, init, two rounds, finalize, clean-up | concurrent tasks, stale flags, crashes, faults half-way | only passed specs are researched, flag and card are never left behind |
| spec agent (`framework/spec_clarifier.py`) | files in the work directory | `run_spec_agent`, `parse_spec_md` | status files missing, LLM errors | an answer or questions |
| scheduler (`server.py`) | none | `_scan_stalled_reviews` | acts on what it read before | clears stale flags only |
| LLM runner (`framework/llm_agent`) | the files agents write | `run_once` | quota retries asleep on a worker thread, time-outs, files of other projects and of earlier calls | the answer read is the one asked for, or an exception the caller knows |
| preflight (`framework/llm_preflight.py`) | cache file | `preflight_check` | stale cache, outages, a changed chain | starts on fresh checks only, and whenever all is well |
| providers, registry, tag parser, MinIO client, freqtrade back end, board set-up | none shared | | | |

How they interact: the review's finalize writes the row and moves the card to
Verify, which makes Planka call the webhook, which starts the research; the
research uploads reports to the card the next review downloads its spec from;
a failed task moves its card to Failed, which makes the webhook resume it.
`PROJECT.json` lists the hazards this gives rise to, each at its line.

## Modules

| module | models |
|---|---|
| `ResearchGraph` | one project's research thread: graph, wrappers, four plugins, tasks, rows, reports, card |
| `ResearchContract` | what a research run promises, without nodes or storage |
| `SpecReview` | the review gate: any number of concurrent review tasks, the scheduler, user and research as seen from there |
| `ProjectThread` | one project as the server sees it: webhook calls, the tasks they start, both graphs on one checkpoint thread |
| `AgentCalls` | the tasks' calls of command-line agents: quota retries, worker threads, and the files answers are read from |
| `ProjectCards` | how the process starts (columns, preflight and its cache), and by what a project's card is found |
| `ThreadContract` | what the checkpoints of a thread say, one after the other, whoever writes them |
| `ReviewContract` | what the review gate promises of a project, without flag, graph or card columns |
| `...Proofs` | theorems about the module of that name, but for the contracts |
| `MC...` | values of the constants for TLC |

`ProjectThread` composes the research and the review, each reduced to what it
does to card, row and thread; `ResearchGraph` and `SpecReview` have the two in
detail, and `AgentCalls` and `ProjectCards` what both rely on. The reduction of
the research is justified through `ThreadContract`, which `ResearchGraph`
implements with all its nodes and `ProjectThread` follows with all its tasks.

### ResearchGraph

`next` and `st` are the latest checkpoint (pending node and `ResearchState`),
`mode` says what the task that invokes the graph is doing, `answer` is the
value of `Command(resume=...)` until `interrupt()` or a finished node uses it
up. Each node is one action named after it, with the framework's wrapper and
the plugin's update in it. `Save` ends every node: the checkpoint is written,
or the node is cut short after its effects on the database, files and Planka
and before the checkpoint, by a crash or an exception. `Stop` cuts it short
before those effects. `Resume` is the webhook's and the HITL driver's
`Command(resume=...)`, on whatever node is pending; `StartRun` the fresh start
over finished or unreadable checkpoints. `MoveTo` and `MayAttach` let every
card move and upload fail silently, `RecordLoopMetrics` lets the row write
fail. Plugins differ in `PlanUpdate`, `Verdicts`, `Propagates`,
`ReviseUpdates`: quant_alpha's LLM verdict is any of the three, demo's and
sample's simulated metrics are reduced to the attempt that meets the
threshold. Operators marked *Fault* are mutations used to show that the
properties can fail; no action of the specification uses them.

Abstractions: metrics, plans and reports are the run and test that made them; a
row stores a test's metrics as one, where `record_loop_metrics` takes the flat
keys it has columns for and leaves the others NULL (`framework/db/queries.py:115-118`).
`loop_index` only names files. At most one invocation of a thread is going on
at a time: `ProjectThread` shows as `OneInvocation` when that is so. `max_loops` is positive. LangGraph is taken to have a node's checkpoint
durable before the next node has effects. A database URL is configured. Faults
before the graph is invoked (unknown project or plugin) are left out.

### ResearchContract

Phases idle, looping, stopping, passed, terminated and a count of attempts: at
most `max_loops` verdicts, PASS only before somebody decided to stop, a
premature end only after it. `ResearchGraph!Contract` instantiates it with
`Phase`, `Attempts` and `Limit`. The plugin sample is mapped to idle, for it breaks the
contract: its `analyze_node` (`projects/sample/plugin.py:158-177`) never looks at
the TERMINATE a rejected plan left, so that such a plan is researched all the
same, while `docs/AGENT_CONTEXT.md:83` says of a rejection that the graph
terminates. The other three implement it. Another difference from the documents
that shows in this module: the conflict clause of `record_loop_metrics`
(`framework/db/queries.py:108`) leaves the metric columns alone, so a second
run writes its results beside the first run's metrics, which is why
`MetricsOfAttempt` speaks of a first run only; the `database-schema` spec of
`baseline-tech-spec` (line 88) promises the values of the second call.

### ThreadContract

What is pending (nothing, plan, the gate before `implement`, the rest of the
work) and the result: a run is planned, waits at the gate if its plan is to be
approved, is worked on, and leaves PASS or TERMINATE with nothing pending. It is
the interface of two modules. `ResearchGraph!Thread` instantiates it with
`Pending` and `Outcome`, which reduce the ten nodes to what the server can see:
the gate comes once in a run, no node executed twice and no later round of the
loop brings it back (`ImplementsThread`). `ProjectThread!Thread` instantiates it
with `own`: the tasks, whichever they are and however they interleave, write
such checkpoints one after another (`OwnFollows`), as long as the user is
careful and no review has written over them. So what `ProjectThread` has of the
research, `Plan`, `Implement` and `Work`, is what `ResearchGraph` does, and the
one invocation at a time that `ResearchGraph` takes for granted is what
`ProjectThread` shows.

### SpecReview

`review[r]` is one background task with its `SpecReviewState`; `pc` is its
place in `_run_spec_review_bg` and the graph. `row` is the project's row (flag,
staleness of `review_started_at`, plugin, spec), `talk` the order of comments
around the last question, `latest` what `download_latest_spec_attachment`
would find. A task's steps are split where other tasks may see the difference:
read of the flag, stub, download, the nodes, the upsert and the move of
finalize, the final clearing. `ClearAndMove` is one step, with every combination
of failures of its two halves. `Fail` is the `except` clause, at the places
where something in the `try` block can raise. `Crash` ends every task; nothing
resumes them. `Scan` and `Sweep` are the two halves of the scheduler's scan.
`Expire` makes the flag stale at any time, since two rounds of 1800 s outlast
`REVIEW_STALE_TIMEOUT`. Specs and plugins are named after the review they come
from. The research is one action, `Research`; its details are in
`ResearchGraph`. A user who moves the card elsewhere than to Spec Pending
Review is left out. `overlap` and `faults` are history.

### ReviewContract

Each review is waiting, submitted, reviewing, accepted or closed, and has passed
some rounds; the project has an accepted spec or none, and is released for
research or not. A review that begins takes the accepted spec away; it is
accepted after both rounds only, may release the project once, and does nothing
after it is closed. `SpecReview!Contract` instantiates it with `Stage`, `Passes`,
the spec of the row and the column Verify. It holds for overlapping reviews as
well, so it does not say that a released project has an accepted spec: a review
that begins meanwhile takes that away (`VerifiedSpec` says when it has one).

### ProjectThread

`card` and `events` are Planka: a move of the card to a watched column, by its
user or by the server, is a webhook call under way (`Put`, `Notify`), answered in
any order (`Handle`) or lost. `task` are the background tasks: what they are,
where they are, and for a review the checkpoint its graph began with. `thread`
is the latest checkpoint as the research graph reads it: the pending node and
the result. `Start`, `Resume`, `Plan`, `Implement`, `Work` each end with a
checkpoint; two tasks may be at it, each from the checkpoint it loaded, and the
last write counts. `Finish` reads the thread again and moves the card, `Fail` is
the `except` clause, possible at every place. A review is `ReviewStub` (which
leaves the row without a registered plugin), `ReviewInvoke`, and `spec_finalize`
in its steps: the upsert, the move to Verify, and after it the last checkpoint,
`ReviewLast`, and the uploads, `ReviewWrap`. `ReviewFail` is its early returns and
its `except` clause, which covers the last checkpoint and the uploads as well: a
review that fails there takes the card to Planning, wherever the research it
released has taken it meanwhile.

Both graphs are invoked with the project's id as `thread_id` and nothing else.
What the research graph sees when it reads a checkpoint of the review graph is
LangGraph's affair; `inherits` is chosen once and covers both possibilities:
nothing, or the research's state as the review graph found it. `own` and
`shadowed` record the last checkpoint the research wrote and whether a review has
hidden it; `careful` records that the user never moved the card while the server
was busy. Handlers never await between reading the thread and queueing the task,
so each is one action.

Abstractions: the nodes after `implement` are one step; no two reviews at a time
(they are in `SpecReview`); a restarted process may find calls still under way.

### AgentCalls

`call[c]` is a background task's present or last call: which node it is for, how
often the task has called, the attempt, how the process ended, which files the
agent of this call wrote, and what the task read. `file` names for each path the
task and call that wrote it last. A worker thread is taken once and kept to the
task's end (`Take`, `Leave`), `sleep` included. `Begin` deletes the status files
of a review and nothing of a research (`Cleaned`); `Write` is the agent, which
may write all, some or none of its files; `Exit` ends the process in one of four
ways; `AfterExit` is the retry loop of `run_once`, and what it raises leaves
nothing to be read (`Without`). `Fallback`, `NodeFails`, `ReadAnswer`,
`ReadParams` are what the nodes of quant_alpha do then, `AskAnyway` and
`ReadStatus` what `run_spec_agent` does. Readable answers are told from
unreadable ones by choice.

A node without an answer goes by a rule (`ByRule`). It may also raise, and the run
with it (`Fails`): plan for a time-out, and for JSON that is no object
(`projects/quant_alpha/plugin.py:264`); revise for such JSON in its second file
(542); analyze and revise in the rule itself, which counts with values of the plan
that nobody has checked (482, 538), a string for a number say. So there is no
node of the loop in which a run cannot fail for its agent; what is claimed is that
it does not fail over the answer of another call (`OwnAnswer`).

Left out: command lines of the targets, extraction of text from their output,
tasks that call no agent. The files of an attempt that the quota ended are those
of the same call, so `PassIsFresh` counts a pass file among them as fresh: it
tells rounds apart, not attempts.

### ProjectCards

`memory`, `row` and the board are the three places `resolve_card_id` looks in,
in this order (`Cached`, `Scan`, `Resolve`); `Move` is `_move_planka_card` with its
second look when the card is gone, `Comment` is `post_comment`. `Start` is
`_lifespan`: columns, preflight, memory empty; its board and its chain are those
of the environment of that process. `services` are the things a check would find
well now, `cache` is the file of results with its age told by `Expire`. A review
is followed as far as it concerns the card: it remembers the card, replaces the
config of the row (and the card id in it), writes the project's id into the
description, and moves the card; it ends at once when it cannot read the row
(`Unread`). A result that could not be written (`Unsaved`) counts as an outage. Users delete cards, take them to another board
and change descriptions; `claims` records the cards that ever were a project's.
`last` is what the latest step moved, commented or started.

Abstractions: the lists within a board, custom fields and labels; a request that
meets an outage fails, and requests of one move meet the same outage.

## Runs

| run | instance | shows |
|---|---|---|
| `research_safety` | all plugins, `max_loops` 2 and 4, 2 runs, 1 stop | invariants, `TerminateIsFinal`, both contracts, `NearsEnd` and termination of `ResearchGraph` |
| `review_safety` | 2 reviews, 1 fault | invariants, contract and liveness of `SpecReview` |
| `thread_safety` | 2 workers, 2 moves by the user, 2 faults | invariants, `RunKept`, the thread contract (`OwnFollows`), `WindsDown` and `Settles` of `ProjectThread` |
| `agents` | 2 researches, 1 review, 2 workers, 1 retry, 3 calls in all | whose answers are read, that all tasks are served |
| `cards` | 2 cards of one name, 2 projects, 2 boards, 2 chains, 2 outages, changes or restarts | which card is reached, and when a server starts |
| `terminate_ends` | demo | a card moved to Failed approves the plan that waits |
| `pause_first` | demo, 1 stop | a plan is implemented that nobody was shown |
| `duplicate` | 2 reviews | a duplicate trigger clears the other review's flag |
| `refine` | 2 reviews | no refinement finds its draft |
| `report_as_spec` | 2 reviews | a research report is reviewed as the spec |
| `abort_final` | 2 reviews | an abort in the first node is overwritten |
| `graphs_apart` | 2 workers, 2 moves, no fault | a review's last checkpoint hides a run at its interrupt, and the next move to Verify, its approval, starts it afresh |

The last seven check what a document, comment or docstring of the repository
says and the code does not do; `PROJECT.json` quotes each under "findings".

**Bounds.** `LoopLimits` are the values of `max_loops` a run may be started
with, and `MaxLoops` the largest of them. With 2 the framework's limit ends a
run; with 4 quant_alpha's own limit of three tests does, which the default of
3 never reaches. Two successive runs may differ in it. Two runs suffice for rows and reports of an earlier run
to be written over; one stop per behaviour cuts each node once, and the proofs
cover any number. Two reviews make every pair of steps race, one fault spoils
any one request or kills the process once; with three reviews the safety
properties were checked too, and the proofs cover any number.

In `ProjectThread` two workers give every pair of tasks, and two moves of the
user a decision on a run that waits, a second review, or a hasty user; the
second fault lets a crash meet a failed move. In `AgentCalls` three tasks on two
workers make one of them wait, and one retry makes the counter reach its limit.
Three calls in all are one for each task, or all for one research, which then
plans, analyzes and revises, or, resumed at revise, revises, analyzes and revises
again with the files of its first revision before it; or a review with a file
from an earlier round. Plan, analyze and revise stand for the nodes: the one
that catches less, the one with one file, the one with two. In
`ProjectCards` two events make a card disappear and the memory with it; cards,
boards and chains are interchangeable (`SYMMETRY`, sound here as the run has no
liveness property). Deadlock is not
checked: a run that has ended, or a project no one triggers any more, stops.

**Faults that are excused.** Some properties speak of histories without a fault,
where the repository promises no recovery: `VerifyIsBusy` excuses a crash between
a graph's end and the move of its card; `NotStranded` a crash between the
upsert of a review and its move, and a review that dies because the database
is down when it starts. `PROJECT.json` says so at these hazards.

**Fairness.** `WF(GraphStep)`: an invoked graph runs on. `WF(Operator)`: who
sees a paused or failed card answers it in the end; without that a run may
wait for ever, by design. In `SpecReview`, weak fairness of each task, of time
(`Expire`) and of the scheduler, which loops every 60 seconds. In
`ProjectThread`, of the event loop (`Handle`) and of each task; the calls that
have arrived are answered, and a node that is executed ends. In `AgentCalls`, of
worker threads, of the end of a process (`subprocess.run` has a timeout), of
`sleep` and of the steps after it; not of what the agent writes. `ProjectCards`
has none. No fairness of triggers, users, crashes or the research. In the passing instances faults are
bounded, so they cannot go on for ever.

**Liveness** (TLC only): `RunEnds` (every run reaches its end),
`FlagCleared` (a review mark is always taken down), `NotStranded` (a card
leaves Spec Pending Review unless a fault intervened), `Settles` (the server comes
to rest although its own moves of the card call it again), `Served` (every task
gets a worker although tasks sleep on theirs). The part of them that is a matter
of safety is stated by itself and proved; what stays with TLC is that a step is
enabled until the end is reached, and that fairness takes it:

| liveness | what is proved of it |
|---|---|
| `RunEnds` | `NearsEnd`: a run started with `max_loops` = n has at most 16n + 15 steps before it, and two more for each crash or exception |
| `NotStranded` | `PendingHasMover`: without a fault, a card in Spec Pending Review has a task that has yet to move it; `ReviewsAdvance`: each step of a task leaves it fewer, crashes included |
| `Settles` | `WindsDown`: each step of the server leaves it less to do, its own moves of the card and all they bring about counted, and a fault adds nothing |
| `Served` | `CallsEnd`: a call never goes back to a process without using up a retry |

## Proofs

`ResearchGraphProofs`, from the assumptions that `Plugins` are plugins of
`projects/` and every value of `max_loops` is positive and bounded. The inductive invariant is `TypeOK` with
`Fits(st, next)`: what the pending node says of the verdict and the attempts in
the state (`FitsInv` shows it equivalent to `AttemptBound`, `VerdictAtNode` and
`SanctionedStop` together; none of the three is inductive without the others,
as the router's choice depends on the verdict, and the verdict on the count).
`Fits` has the state and the node as parameters because each node either saves
a new pair or leaves the old one. Proved from it:

- `TypeCorrect`, `AttemptsBounded`, `VerdictsAtNodes`, `StopsSanctioned`;
- `TerminateFinal` and `AttemptsCounted` (attempts grow one by one, in
  `analyze` only), by `StepFacts`, which says what any
  step of a run does to verdict and count;
- `ContractImplemented`: initial states and steps map to those of the
  contract. It needs `Willing`: dummy neither asks for approval nor stops;
- `HistoryKept`: needs `History`, that each attempt so far that is not missing
  has its row, with the pending node telling whether the last one is due;
- `OutcomeShown`, inductive with the above, as no node moves the card to Done;
- `ReportKept`, from `Reported`: from summarize on, a run that passed has its
  report in the state and in the file;
- `MetricsRight`, from `Measured`: at each node, how `attempt_count`, counted in
  test, stands to `attempt_index`, counted in analyze, and which test the
  metrics in the state are of;
- `RunNearsEnd`: `Effort` is a variant. It counts the checkpoints a run has
  before it (`Distance`: four nodes for each verdict `max_loops` still allows),
  the pauses and answers between two of them, and the stops to come. It needs
  the inductive invariant: that `Distance` is not negative is the bound on the
  attempts, and that the router leaves the loop is its condition on verdict and count;
- `ThreadImplemented`: the `ThreadContract`. That the gate does not come
  back needs `GateClosed`: from `test` on, no state asks for an approval;
- `PausesFirst`, from `Asked`: in a thread never cut short, an approved plan was shown.
  Without that condition run `pause_first` refutes it.

`SpecReviewProofs`, for any set of reviews. `NextEffect` reduces each step to
one of five effects on row, card and history, or one of the environment's;
the theorems are proved from the effects: `TypeCorrect`, `MarkOwned`
(inductive as it stands), `SpecPassed` (with `Progress`: how many rounds a
task has passed, from where it is), `VerifyHasSpec` (with `Alone`: without
overlap one task is active and it alone decides on row and card), and
`ContractImplemented` (each effect is a step of the contract or none; needs
`Progress` to know both rounds passed when a spec is persisted), `PendingMoves`
(inductive as it stands, too: a task that ends without having moved the card was at
`wrap`, where it had not been counted on) and `AllAdvance` (each effect takes
from the steps and rounds left).

`ProjectThreadProofs`, for any finite set of workers and any number of moves and
faults: `TypeCorrect`; `OneInvocationCorrect` from `Alone`: as long as the
user is careful there is one token, a webhook call, a research task or a review
that has not moved the card yet, and each step of the server hands it on;
`RunKeptCorrect` from `Kept`: what a queued fresh start will find pending; `VerifyIsBusyCorrect`; `CardTellsRunCorrect` from `Told`, which
with no research task left relates the card to the run's last checkpoint;
`OwnFollowsCorrect` from `Continues`: where a task is tells what the run's last
checkpoint says, so none continues from a superseded one; `WindsDownCorrect`, with no
assumption on the user, from `Placed` (researches and reviews have places of their
own). A review that fails late takes the card of a failed run out of Failed, from
where it may be moved back once more: the places after the move to Verify weigh
more than that. `Load` is a weighted sum of cardinalities; `OneMoves` says how a step of one
task changes each, `TaskMoves` sums them up to the difference of the two `Rank`s,
and each action is then an inequality.

`AgentCallsProofs`, for any sets of tasks and any limits: `TypeCorrect`;
`AnswerOfSuccessCorrect` from `Exited`, how the
process ended where a task is; `PassIsFreshCorrect` from `Fresh`: a status file in
a review's directory is of the present call; `OwnAnswerCorrect` from `Mine`: a
file the present agent wrote is still its own as long as no other research
called for the same node; `CallsEndCorrect` from `InOrder`: a task that sleeps for
its quota has an attempt left.

`ProjectCardsProofs`, for any sets and any slug: `TypeCorrect`;
`ReachesClaimedCorrect` from `Claimed` (memory, row and descriptions hold claimed
cards only); `ChainCheckedCorrect` and `StartsWhenWellCorrect` from what the cache
may hold; `MoveReachesCorrect`, `MoveHealsCorrect` and `TaggedByReviewCorrect` from
what was remembered while nothing was down or edited.

`AttemptsCounted`, `PausesFirst`, `PendingMoves`, `AllAdvance` and
`CallsEndCorrect` state properties that no run lists; TLC found each to hold on the instances of the runs before it was proved.

Model-checked only: the five liveness properties (ENABLED and fairness are out
of the prover's reach; the table above says what is proved of them), and the
violations. No property rests on what a recursive definition computes.

## Plan

Done: `ResearchGraph` and `SpecReview` with their contracts, `ProjectThread`,
`AgentCalls` and `ProjectCards`, each with proofs of every safety property its run
checks; `ThreadContract` between `ResearchGraph` and `ProjectThread`; variants for
the liveness properties.

Left, in order:

1. `FlagCleared`: without a fault a mark has a task that will take it down
   (`FlagHasOwner`, `ReviewsAdvance`); the scheduler's half has no such pair yet.
2. `ProjectThread` with several reviews at a time, and `ReviewContract` as its
   interface with `SpecReview`.
3. Parsing: the answers of `spec_clarifier` (`_parse_agent_response`,
   `_format_qa_history`) against a reference definition.

## Not modelled

The HTTP details of Planka and MinIO, LLM clients and prompts, freqtrade's
arithmetic, the labels and custom fields of a board, and the deployment files:
they keep no state the system's behaviour depends on. The checkpointer of a
cached graph is one connection that does not come back after the database was
restarted (`framework/graph.py:519`); the models have each failed read and
invocation by itself, not that they go on failing. What LangGraph does with keys a
node returns and its state does not declare (`is_metrics` and `oos_metrics` of
quant_alpha) lies outside the repository; the verdict is nondeterministic for it.
