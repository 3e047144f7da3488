------------------------------ MODULE AgentCalls ------------------------------
(***************************************************************************)
(* The background tasks' calls of command-line LLM agents: run_once of     *)
(* framework/llm_agent/llm_svc.py with its retries on quota errors, and    *)
(* the two places that call it.                                            *)
(*                                                                         *)
(* An agent's standard output is not its answer: the caller names files in *)
(* the prompt, waits for the process and reads them.  Every research task  *)
(* of quant_alpha uses the one directory ARTIFACTS_DIR with fixed file     *)
(* names and deletes nothing before a call; a spec review has a directory  *)
(* of its own, used for all its rounds, and run_spec_agent deletes the     *)
(* status files before each call.  A file is its writer and the number of  *)
(* that task's call.                                                       *)
(***************************************************************************)
EXTENDS Integers, FiniteSets

CONSTANTS
  Researches,  \* tasks that run a quant_alpha research
  Reviews,     \* tasks that run a spec review
  NodeOps,     \* the nodes of quant_alpha that call an agent
  Workers,     \* worker threads for background tasks
  MaxRetries,  \* LLM_QUOTA_MAX_RETRIES
  MaxCalls     \* bound: calls of all tasks together

Callers == Researches \cup Reviews

ASSUME CallersAssumption ==
  /\ Researches \cap Reviews = {} /\ IsFiniteSet(Callers)
  /\ {"nobody", "ARTIFACTS_DIR"} \cap Callers = {}
ASSUME OpsAssumption ==
  NodeOps \subseteq {"plan", "analyze", "revise", "summarize", "terminate"}
ASSUME BoundsAssumption ==
  Workers \in Nat \ {0} /\ MaxRetries \in Nat /\ MaxCalls \in Nat

VARIABLES
  call,        \* each task's current or last call of an agent
  file         \* the files agents write, by directory and name

vars == <<call, file>>

FilesOf(op) ==
  CASE op = "plan"      -> {"plan_output.json"}
    [] op = "analyze"   -> {"analyze_result.txt"}
    [] op = "revise"    -> {"revise_result.txt", "revised_params.json"}
    [] op = "summarize" -> {"loop_summary.md"}
    [] op = "terminate" -> {"termination_report.md"}
    [] op = "review"    -> {"status_pass.txt", "status_need_update.txt"}

Names == {"plan_output.json", "analyze_result.txt", "revise_result.txt",
          "revised_params.json", "loop_summary.md", "termination_report.md",
          "status_pass.txt", "status_need_update.txt"}
Paths == (Reviews \cup {"ARTIFACTS_DIR"}) \X Names
Dir(c) == IF c \in Reviews THEN c ELSE "ARTIFACTS_DIR"

Stamp   == [by : Callers \cup {"nobody"}, nth : Nat]
Missing == [by |-> "nobody", nth |-> 0]

\* The nodes of the graph that may call an agent after a node has.
Following(op) ==
  NodeOps \cap CASE op = "analyze" -> {"revise", "summarize", "terminate"}
                 [] op \in {"plan", "revise"} -> {"analyze", "terminate"}
                 [] op = "none" -> NodeOps
                 [] OTHER -> {}

OpsOf(c) == IF c \in Reviews THEN {"review"} ELSE Following(call[c].op)

Exits == {"none", "ok", "quota", "failed", "timeout"}
Call ==
  [at : {"queued", "ready", "process", "sleep", "read", "reread", "raise",
         "gone"},
   op : NodeOps \cup {"none", "review"}, nth : Nat,
   attempt : 0 .. MaxRetries, exit : Exits, wrote : SUBSET Names,
   overlap : BOOLEAN, seen : SUBSET Stamp,
   result : {"none", "read", "passed", "asked", "fallback", "failed"}]

NoCall == [at |-> "queued", op |-> "none", nth |-> 0, attempt |-> 0,
           exit |-> "none", wrote |-> {}, overlap |-> FALSE, seen |-> {},
           result |-> "none"]

-----------------------------------------------------------------------------
Calling(c) == call[c].at \notin {"queued", "ready", "gone"}
Working(c) == call[c].at \notin {"queued", "gone"}

\* Another task runs an agent for the same node.
Rival(c, d) == c # d /\ {c, d} \subseteq Researches /\ Calling(d)

Own(c) == [by |-> c, nth |-> call[c].nth]
Finds(c, name) == file[<<Dir(c), name>>]
There(c, name) == Finds(c, name) # Missing

\* The row of a call that has come to nothing.
Without(c) == [NoCall EXCEPT !.op = call[c].op, !.nth = call[c].nth]

\* The call returns, with what was in the files or without: the node, or the
\* review, goes on.
Return(c, result, seen) ==
  call' = [call EXCEPT ![c].at = "ready", ![c].result = result, ![c].seen = seen]

ReturnWithout(c, result) ==
  call' = [call EXCEPT ![c] =
             [Without(c) EXCEPT !.at = "ready", !.result = result]]

-----------------------------------------------------------------------------
Init ==
  /\ call = [c \in Callers |-> NoCall]
  /\ file = [p \in Paths |-> Missing]

\* The event loop hands the task to a worker, which it keeps to its end.
Take(c) ==
  /\ call[c].at = "queued"
  /\ Cardinality({d \in Callers : Working(d)}) < Workers
  /\ call' = [call EXCEPT ![c].at = "ready"]
  /\ UNCHANGED file

\* Fault: the status files of the round before are left in the directory.
KeepStatus(c) == file

\* run_spec_agent unlinks both; quant_alpha deletes nothing.
Cleaned(c) ==
  [p \in Paths |-> IF p[1] = c /\ c \in Reviews THEN Missing ELSE file[p]]

\* The row of a task that begins a call, and of each other task.
Begun(c, op) ==
  [NoCall EXCEPT !.at = "process", !.op = op, !.nth = call[c].nth + 1,
                 !.overlap = \E d \in Callers : Rival(c, d) /\ call[d].op = op]
Beside(c, op, d) ==
  [call[d] EXCEPT !.overlap = @ \/ (Rival(c, d) /\ call[d].op = op)]

\* The calls begun so far.
Calls == UNION {{c} \X (1 .. call[c].nth) : c \in Callers}

Begin(c, op) ==
  /\ call[c].at = "ready" /\ Cardinality(Calls) < MaxCalls
  /\ call' = [d \in Callers |->
                IF d = c THEN Begun(c, op) ELSE Beside(c, op, d)]
  /\ file' = Cleaned(c)

\* The agent writes what it was told to, or some of it, or nothing.
Write(c, name) ==
  /\ call[c].at = "process" /\ name \in FilesOf(call[c].op)
  /\ Finds(c, name) # Own(c)
  /\ file' = [file EXCEPT ![<<Dir(c), name>>] = Own(c)]
  /\ call' = [call EXCEPT ![c].wrote = @ \cup {name}]

-----------------------------------------------------------------------------
(* run_once.                                                               *)

\* Faults: a failed process counts as an answer; a process without quota is
\* tried once too often.
AfterExitUnchecked(exit, attempt) ==
  CASE exit = "quota" /\ attempt < MaxRetries -> "sleep"
    [] exit = "timeout" -> "raise"
    [] OTHER -> "read"
AfterExitLate(exit, attempt) ==
  CASE exit = "ok" -> "read"
    [] exit = "quota" /\ attempt <= MaxRetries -> "sleep"
    [] OTHER -> "raise"

\* quota_attempt runs over range(_max_retries + 1).
AfterExit(exit, attempt) ==
  CASE exit = "ok" -> "read"
    [] exit = "quota" /\ attempt < MaxRetries -> "sleep"
    [] OTHER -> "raise"

\* The process ends: well; badly, with words of quota or rate limits (or a
\* 429) in its output or without, opencode also by an error event; not in
\* time; or there is no such command.  What raises leaves nothing to be read.
Exit(c, exit) ==
  LET next == AfterExit(exit, call[c].attempt)
      row  == IF next = "raise" THEN Without(c) ELSE call[c] IN
  /\ call[c].at = "process"
  /\ call' = [call EXCEPT ![c] =
       [row EXCEPT !.at = next, !.exit = exit,
                   !.attempt = IF next = "sleep" THEN @ ELSE 0]]
  /\ UNCHANGED file

\* Fault: the attempts are not counted.
WakeUncounted(c) ==
  /\ call[c].at = "sleep"
  /\ call' = [call EXCEPT ![c].at = "process", ![c].exit = "none"]
  /\ UNCHANGED file

Wake(c) ==
  /\ call[c].at = "sleep"
  /\ call' = [call EXCEPT ![c].at = "process", ![c].exit = "none",
                          ![c].attempt = @ + 1]
  /\ UNCHANGED file

-----------------------------------------------------------------------------
(* The nodes of quant_alpha.                                               *)

\* The node raises, after what it has read, and the run fails with it.
Fails(c, seen) ==
  call' = [call EXCEPT ![c].at = "gone", ![c].result = "failed",
                       ![c].seen = seen]

\* Without an answer the node goes by a rule.  That of analyze and revise counts
\* with the plan, whose values an agent chose and nobody has checked.
ByRule(c) ==
  \/ ReturnWithout(c, "fallback")
  \/ call[c].op \in {"analyze", "revise"} /\ Fails(c, {})

\* plan_node has no clause for TimeoutExpired.
Catches(op, exit) == op # "plan" \/ exit # "timeout"

Fallback(c) ==
  /\ call[c].at = "raise" /\ c \in Researches
  /\ Catches(call[c].op, call[c].exit)
  /\ ByRule(c)

NodeFails(c) ==
  /\ call[c].at = "raise" /\ c \in Researches
  /\ ~Catches(call[c].op, call[c].exit)
  /\ Fails(c, {})

AnswerFile(op) ==
  CASE op = "plan"      -> "plan_output.json"
    [] op = "analyze"   -> "analyze_result.txt"
    [] op = "revise"    -> "revise_result.txt"
    [] op = "summarize" -> "loop_summary.md"
    [] op = "terminate" -> "termination_report.md"

\* Fault: the parameters of the plan are taken for the revised ones.
ParamsFileOfPlan == "plan_output.json"
ParamsFile == "revised_params.json"

\* A file that is missing, empty or unreadable leads to the rule, and in plan
\* one that is JSON but no object to an exception; a revision that is not
\* TERMINATE is in a second file.
ReadAnswer(c) ==
  LET name == AnswerFile(call[c].op) IN
  /\ call[c].at = "read" /\ c \in Researches
  /\ \/ ByRule(c)
     \/ There(c, name) /\ Return(c, "read", {Finds(c, name)})
     \/ There(c, name) /\ call[c].op = "plan" /\ Fails(c, {Finds(c, name)})
     \/ /\ There(c, name) /\ call[c].op = "revise"
        /\ call' = [call EXCEPT ![c].at = "reread",
                                ![c].seen = {Finds(c, name)}]

ReadParams(c) ==
  LET seen == call[c].seen \cup {Finds(c, ParamsFile)} IN
  /\ call[c].at = "reread"
  /\ \/ ByRule(c)
     \/ There(c, ParamsFile) /\ (Return(c, "read", seen) \/ Fails(c, seen))

-----------------------------------------------------------------------------
(* run_spec_agent.                                                         *)

\* Every exception is a question to the user.
AskAnyway(c) ==
  /\ call[c].at = "raise" /\ c \in Reviews
  /\ ReturnWithout(c, "asked")

\* The pass file wins; no file at all is a question as well.
ReadStatus(c) ==
  /\ call[c].at = "read" /\ c \in Reviews
  /\ \/ /\ There(c, "status_pass.txt")
        /\ Return(c, "passed", {Finds(c, "status_pass.txt")})
     \/ /\ ~There(c, "status_pass.txt") /\ There(c, "status_need_update.txt")
        /\ Return(c, "asked", {Finds(c, "status_need_update.txt")})
     \/ /\ ~There(c, "status_pass.txt") /\ ~There(c, "status_need_update.txt")
        /\ ReturnWithout(c, "asked")

\* The task has made its last call.
Leave(c) ==
  /\ call[c].at = "ready"
  /\ call' = [call EXCEPT ![c] = [NoCall EXCEPT !.at = "gone", !.nth = call[c].nth]]

-----------------------------------------------------------------------------
Answer(c) ==
  /\ \/ Fallback(c) \/ NodeFails(c) \/ ReadAnswer(c) \/ ReadParams(c)
     \/ AskAnyway(c) \/ ReadStatus(c) \/ Leave(c)
  /\ UNCHANGED file

Ends(c) == \E exit \in Exits \ {"none"} : Exit(c, exit)

Next ==
  \E c \in Callers :
    \/ Take(c) \/ \E op \in OpsOf(c) : Begin(c, op)
    \/ \E name \in Names : Write(c, name)
    \/ Ends(c) \/ Wake(c) \/ Answer(c)

Spec == Init /\ [][Next]_vars

\* Threads run on, subprocess.run has a timeout, and sleep returns.
FairSpec ==
  /\ Spec
  /\ \A c \in Callers :
       WF_vars(Take(c)) /\ WF_vars(Ends(c)) /\ WF_vars(Wake(c))
         /\ WF_vars(Answer(c))

-----------------------------------------------------------------------------
(* Properties.                                                             *)

\* Every variable keeps to its values; no process is tried more often than
\* LLM_QUOTA_MAX_RETRIES allows (llm_svc.py:206, 232).
TypeOK == call \in [Callers -> Call] /\ file \in [Paths -> Stamp]

\* No answer is taken from the files after a process that failed: neither when
\* the retries are used up nor after a time-out (llm_svc.py:221-244).
AnswerOfSuccess ==
  \A c \in Callers :
    call[c].result \in {"read", "passed"} => call[c].exit = "ok"

\* A review's round passes by the word of its own agent, never by a status
\* file that an earlier round left in the directory (spec_clarifier.py:80-82).
PassIsFresh ==
  \A c \in Reviews :
    call[c].result = "passed" =>
      call[c].seen = {Own(c)} /\ "status_pass.txt" \in call[c].wrote

\* Although all researches share their files and never delete one, a node that
\* goes by the answer of another project or of an earlier loop, or fails over
\* it, does so for one of two reasons: its own agent wrote less than it was told
\* to, or another project called an agent for the same node meanwhile
\* (quant_alpha/plugin.py:260-264, 421, 521-529, 542).
OwnAnswer ==
  \A c \in Researches :
    call[c].result \in {"read", "failed"} /\ ~call[c].overlap
      /\ FilesOf(call[c].op) \subseteq call[c].wrote =>
        call[c].seen \subseteq {Own(c)}

\* What a call still has before it: the processes that may be tried, each with
\* its end, and the reading of the files.
Remaining(s) ==
  CASE s.at = "process" -> 3 + 2 * (MaxRetries - s.attempt)
    [] s.at = "sleep" -> 2 + 2 * (MaxRetries - s.attempt)
    [] s.at = "read" -> 2
    [] s.at \in {"reread", "raise"} -> 1
    [] OTHER -> 0

\* A call comes to its end, whatever its processes come to and the other tasks
\* do to the files: it never goes back to a process without using up one of the
\* LLM_QUOTA_MAX_RETRIES, nor leaves a failure for anything but the return
\* (llm_svc.py:197-244).
CallsEnd ==
  [][ \A c \in Callers : Calling(c) /\ call'[c].at # call[c].at =>
        /\ 0 <= Remaining(call'[c])
        /\ Remaining(call'[c]) < Remaining(call[c]) ]_vars

\* Every task gets a worker and comes to its end, although the tasks at work
\* keep their workers while they sleep for their quota, and all of them may
\* (llm_svc.py:233).
Served == <>(\A c \in Callers : call[c].at = "gone")
=============================================================================
