------------------------- MODULE ResearchGraphProofs -------------------------
(***************************************************************************)
(* Theorems about ResearchGraph, for every set of plugins, every max_loops *)
(* and any number of runs, crashes and resumes.  They rest on one          *)
(* inductive invariant, Inv: the types, the bound on the attempts, and     *)
(* what the pending node says of the verdict that led to it.               *)
(***************************************************************************)
EXTENDS ResearchGraph, TLAPS

Inv == TypeOK /\ AttemptBound /\ VerdictAtNode /\ SanctionedStop

\* The max_loops of a state is one of those within the bound.
LEMMA MaxFacts ==
  ASSUME NEW s \in ResearchState
  PROVE  s.max_loops \in 1 .. MaxLoops /\ s.max_loops \in Nat /\ MaxLoops \in Nat
<1>1. s.max_loops \in LoopLimits
  BY DEF ResearchState
<1>2. MaxLoops \in Nat /\ LoopLimits \subseteq 1 .. MaxLoops
  BY MaxLoopsAssumption
<1>3. \A max \in LoopLimits : max \in 1 .. MaxLoops
  BY <1>2
<1>4. s.max_loops \in 1 .. MaxLoops
  BY <1>1, <1>3
<1> QED BY <1>2, <1>4

-----------------------------------------------------------------------------
(* What the plugins and the wrapper of analyze_node return.                *)

\* plan_node keeps the attempts and never answers TERMINATE or PASS.
LEMMA PlanUpdateFacts ==
  ASSUME NEW p \in AllPlugins, NEW s \in ResearchState,
         s.last_result \notin {"PASS", "TERMINATE"}
  PROVE  /\ PlanUpdate(p, s) \in ResearchState
         /\ PlanUpdate(p, s).attempt_index = s.attempt_index
         /\ PlanUpdate(p, s).max_loops = s.max_loops
         /\ PlanUpdate(p, s).last_result \notin {"PASS", "TERMINATE"}
<1>1. CASE p = "quant_alpha"
  BY <1>1 DEF PlanUpdate, ResearchState, Results, Reasons
<1>2. CASE p # "quant_alpha"
  <2>1. NeedsApproval(p) \in BOOLEAN
    BY SMT DEF NeedsApproval
  <2> QED BY <1>2, <2>1 DEF PlanUpdate, ResearchState
<1> QED BY <1>1, <1>2

\* analyze_node answers one of three verdicts, and for the plugins that
\* propagate it the TERMINATE of the state.
LEMMA VerdictsFacts ==
  ASSUME NEW p \in AllPlugins, NEW s \in ResearchState,
         NEW v \in Verdicts(p, s)
  PROVE  /\ v \in {"PASS", "FAIL", "TERMINATE"}
         /\ Propagates(p) /\ s.last_result = "TERMINATE" => v = "TERMINATE"
BY DEF Verdicts

\* The wrapper counts one attempt and turns any verdict but PASS into
\* TERMINATE once max_loops is reached; before that TERMINATE only passes if
\* it was in the state already.
LEMMA JudgeFacts ==
  ASSUME NEW s \in ResearchState, NEW v \in {"PASS", "FAIL", "TERMINATE"},
         s.attempt_index < s.max_loops
  PROVE  LET r == Judge(s, v)
         IN  /\ r \in ResearchState
             /\ r.attempt_index = s.attempt_index + 1
             /\ r.max_loops = s.max_loops /\ r.max_loops \in Nat
             /\ r.attempt_index \in 1 .. r.max_loops
             /\ r.attempt_index \in 1 .. MaxLoops
             /\ r.last_result \in {"PASS", "FAIL", "TERMINATE"}
             /\ r.last_result = "PASS" <=> v = "PASS"
             /\ r.last_result = "FAIL" => r.attempt_index < r.max_loops
             /\ r.last_result = "TERMINATE" /\ r.attempt_index = r.max_loops
                  => r.last_reason = "exhausted"
             /\ r.last_result = "TERMINATE" /\ r.attempt_index < r.max_loops
                  => /\ s.last_result = "TERMINATE"
                     /\ r.last_reason = s.last_reason
             /\ v = "TERMINATE" /\ s.last_result = "TERMINATE"
                  => r.last_result = "TERMINATE"
<1> DEFINE r == Judge(s, v)
<1>1. /\ s.attempt_index \in Nat /\ s.last_reason \in Reasons
      /\ s.last_result \in Results
  BY DEF ResearchState
<1>2. r.attempt_index = s.attempt_index + 1
  BY <1>1 DEF Judge, ResearchState
<1>3. r.last_result =
        IF v # "PASS" /\ s.attempt_index + 1 >= s.max_loops THEN "TERMINATE"
        ELSE IF v = "TERMINATE" /\ s.last_result # "TERMINATE" THEN "FAIL"
        ELSE v
  BY DEF Judge, ResearchState
<1>4. r.last_reason =
        IF v # "PASS" /\ s.attempt_index + 1 >= s.max_loops THEN "exhausted"
        ELSE IF v = "TERMINATE" /\ s.last_result = "TERMINATE"
        THEN s.last_reason ELSE "analysis"
  BY DEF Judge, ResearchState
<1>5. r \in ResearchState
  <2>1. s.attempt_index + 1 \in Nat
    BY <1>1
  <2>2. r = [s EXCEPT !.attempt_index = s.attempt_index + 1,
                      !.last_result = r.last_result,
                      !.last_reason = r.last_reason]
    BY <1>1 DEF Judge, ResearchState
  <2>3. r.last_result \in Results /\ r.last_reason \in Reasons
    BY <1>1, <1>3, <1>4 DEF Results, Reasons
  <2> QED BY <2>1, <2>2, <2>3 DEF ResearchState
<1>6. r.max_loops = s.max_loops
  BY DEF Judge, ResearchState
<1>7. s.max_loops \in 1 .. MaxLoops /\ s.max_loops \in Nat /\ MaxLoops \in Nat
  BY MaxFacts
<1> QED
  BY <1>1, <1>2, <1>3, <1>4, <1>5, <1>6, <1>7

\* revise_node keeps the attempts; it leaves FAIL alone or decides to stop.
LEMMA ReviseFacts ==
  ASSUME NEW p \in AllPlugins, NEW s \in ResearchState,
         NEW r \in ReviseUpdates(p, s)
  PROVE  /\ r \in ResearchState
         /\ r.attempt_index = s.attempt_index /\ r.max_loops = s.max_loops
         /\ \/ r.last_result = s.last_result
            \/ r.last_result = "TERMINATE"
               /\ r.last_reason \in {"limit", "gave_up"}
<1>1. CASE p = "sample"
  BY <1>1 DEF ReviseUpdates
<1>2. CASE p \notin {"sample", "quant_alpha"}
  BY <1>2 DEF ReviseUpdates, ResearchState, Reasons
<1>3. CASE p = "quant_alpha"
  <2> DEFINE stop(why) == [s EXCEPT !.last_result = "TERMINATE",
                                    !.last_reason = why]
             retry == [s EXCEPT !.last_reason = "revised",
                                !.needs_human_approval = FALSE]
  <2>1. r \in {stop("limit"), stop("gave_up"), retry}
    BY <1>3 DEF ReviseUpdates, ResearchState
  <2>2. CASE r \in {stop("limit"), stop("gave_up")}
    BY <2>2 DEF ResearchState, Reasons, Results
  <2>3. CASE r = retry
    BY <2>3 DEF ResearchState, Reasons
  <2> QED BY <2>1, <2>2, <2>3
<1> QED BY <1>1, <1>2, <1>3

\* A row of the table keeps its type when a final verdict is written.
LEMMA UpsertType ==
  ASSUME TypeOK, NEW s \in ResearchState, NEW b \in BOOLEAN,
         s.last_result \in {"PASS", "FAIL", "TERMINATE"}
  PROVE  Upsert(s, b) \in [1 .. MaxLoops -> Row]
<1> DEFINE i == s.attempt_index
           row == [result |-> s.last_result, reason |-> s.last_reason,
                   report |-> b, recorded_at |-> runs,
                   metrics |-> IF rows[i] = NoRow THEN s.test_metrics
                               ELSE rows[i].metrics]
<1>1. Upsert(s, b) = [rows EXCEPT ![i] = row]
  BY DEF Upsert
<1>2. ASSUME i \in 1 .. MaxLoops PROVE row \in Row
  BY <1>2 DEF TypeOK, Row, ResearchState
<1> QED BY <1>1, <1>2 DEF TypeOK

-----------------------------------------------------------------------------
(* The checkpoint.  Fits(s, n) is what Inv says of state s with node n      *)
(* pending.                                                                 *)

Fits(s, n) ==
  /\ s.attempt_index <= s.max_loops
  /\ n \in LoopNodes =>
       /\ s.attempt_index < s.max_loops
       /\ s.last_result # "PASS"
       /\ s.last_result = "TERMINATE" =>
            s.last_reason \in {"rejected", "limit", "gave_up"}
  /\ n \in {"none", "plan", "revise"} => s.last_result # "TERMINATE"
  /\ n \in {"summarize", "record_metrics"} => s.last_result = "PASS"
  /\ n \in Ending \ {"end"} => s.last_result = "TERMINATE"
  /\ n = "end" => s.last_result \in {"PASS", "TERMINATE"}
  /\ n \in Nodes \cup {"end"} /\ n \notin LoopNodes => s.attempt_index > 0
  /\ n = "record_terminate_metrics" =>
       IF s.attempt_index = s.max_loops THEN s.last_reason = "exhausted"
       ELSE s.last_reason \in {"rejected", "limit", "gave_up"}

\* Fits restates the three invariants below the types.
LEMMA FitsInv == Inv <=> TypeOK /\ Fits(st, next)
BY DEF Inv, Fits, AttemptBound, VerdictAtNode, SanctionedStop

LEMMA SaveType ==
  ASSUME TypeOK, NEW s \in ResearchState, NEW n \in Nodes \cup {"end"},
         Save(s, n)
  PROVE  /\ st' \in ResearchState
         /\ next' \in Nodes \cup {"none", "end"}
         /\ mode' \in {"idle", "running", "waiting", "stopped"}
         /\ answer' \in Decisions \cup {"none"}
         /\ card' \in Columns
         /\ stops' \in Nat
BY DEF TypeOK, Save, MoveTo, Columns

LEMMA SaveFits ==
  ASSUME Fits(st, next), NEW s, NEW n, Fits(s, n), Save(s, n)
  PROVE  Fits(st, next)'
<1>1. CASE st' = s /\ next' = n
  BY <1>1 DEF Fits
<1>2. CASE UNCHANGED <<st, next>>
  BY <1>2 DEF Fits
<1> QED BY <1>1, <1>2 DEF Save

LEMMA RecordType ==
  ASSUME TypeOK, NEW s \in ResearchState, NEW b \in BOOLEAN,
         s.last_result \in {"PASS", "FAIL", "TERMINATE"},
         s.attempt_index \in 1 .. MaxLoops, RecordLoopMetrics(s, b)
  PROVE  rows' \in [1 .. MaxLoops -> Row] /\ missed' \in SUBSET (1 .. MaxLoops)
<1>1. Upsert(s, b) \in [1 .. MaxLoops -> Row]
  BY UpsertType
<1> QED BY <1>1 DEF RecordLoopMetrics, TypeOK

LEMMA AttachType ==
  ASSUME TypeOK, NEW k \in Reports \cup {"final"}, MayAttach(k)
  PROVE  attached' \in SUBSET Report
<1>1. [kind |-> k, run |-> runs, attempt |-> st.attempt_index] \in Report
  BY DEF TypeOK, ResearchState, Report
<1> QED BY <1>1 DEF MayAttach, TypeOK

-----------------------------------------------------------------------------
(* Inv is inductive.                                                        *)

\* What a fresh start puts into the checkpoint.
LEMMA InitialFacts ==
  ASSUME NEW max \in LoopLimits
  PROVE  /\ InitialState(max) \in ResearchState
         /\ \A n \in {"none", "plan"} : Fits(InitialState(max), n)
<1>1. max \in Nat /\ max > 0
  BY MaxLoopsAssumption
<1>2. InitialState(max) \in ResearchState
  BY DEF InitialState, ResearchState, Results, Reasons, Measures, None
<1>3. ASSUME NEW n \in {"none", "plan"} PROVE Fits(InitialState(max), n)
  BY <1>1 DEF InitialState, Fits, LoopNodes, Nodes, Ending
<1> QED BY <1>2, <1>3

LEMMA InvInit == Init => Inv
<1> SUFFICES ASSUME Init PROVE Inv
  OBVIOUS
<1>1. st \in ResearchState /\ Fits(st, "none")
  BY InitialFacts DEF Init
<1>2. TypeOK
  <2>1. NoRow \in Row
    BY DEF NoRow, Row, Reasons, Measures, None
  <2> QED
    BY <1>1, <2>1 DEF Init, TypeOK, Columns, NoFile, Decisions
<1>3. Fits(st, next)
  BY <1>1 DEF Init
<1> QED BY <1>2, <1>3, FitsInv

\* Every step keeps the types and what the checkpoint says.
LEMMA InvNext ==
  ASSUME TypeOK, Fits(st, next), [Next]_vars
  PROVE  TypeOK' /\ Fits(st, next)'
<1> USE PluginsAssumption, MaxLoopsAssumption
<1> st \in ResearchState /\ plugin \in AllPlugins
  BY DEF TypeOK
<1>1. CASE StartRun
  <2>1. PICK max \in LoopLimits : st' = InitialState(max)
    BY <1>1 DEF StartRun
  <2>2. TypeOK'
    <3>1. st' \in ResearchState /\ next' \in Nodes
      BY <1>1, <2>1, InitialFacts DEF StartRun, Nodes
    <3>2. /\ mode' \in {"idle", "running", "waiting", "stopped"}
          /\ answer' \in Decisions \cup {"none"} /\ card' \in Columns
          /\ missed' \in SUBSET (1 .. MaxLoops)
      BY <1>1 DEF StartRun, TypeOK, Columns
    <3>3. runs' \in Nat
      BY <1>1 DEF StartRun, TypeOK
    <3>4. paused' \in BOOLEAN
      BY <1>1 DEF StartRun
    <3> QED BY <1>1, <3>1, <3>2, <3>3, <3>4 DEF StartRun, TypeOK
  <2>3. Fits(st', "plan")
    BY <2>1, InitialFacts
  <2> QED BY <1>1, <2>2, <2>3 DEF StartRun, Fits
<1>2. CASE Operator
  <2>1. PICK d \in Decisions : Resume(d)
    BY <1>2 DEF Operator
  <2>2. TypeOK'
    <3>1. card' \in Columns
      BY <2>1 DEF Resume, TypeOK, Columns, Decisions
    <3> QED BY <2>1, <3>1 DEF Resume, TypeOK, storeVars
  <2>3. Fits(st, next)'
    BY <2>1 DEF Resume, Fits
  <2> QED BY <2>2, <2>3
<1>3. CASE Stop
  <2>1. TypeOK'
    BY <1>3 DEF Stop, MoveTo, TypeOK, Columns, storeVars
  <2>2. Fits(st, next)'
    BY <1>3 DEF Stop, Fits
  <2> QED BY <2>1, <2>2
<1>4. CASE Plan
  <2> DEFINE s == PlanUpdate(plugin, st)
  <2>1. st.last_result \notin {"PASS", "TERMINATE"}
    BY <1>4 DEF Plan, At, Fits, LoopNodes
  <2>2. /\ s \in ResearchState
        /\ s.attempt_index = st.attempt_index /\ s.max_loops = st.max_loops
        /\ s.last_result \notin {"PASS", "TERMINATE"}
    BY <2>1, PlanUpdateFacts
  <2>3. Fits(s, "implement")
    BY <1>4, <2>2 DEF Plan, At, Fits, LoopNodes, Nodes, Ending
  <2>4. Save(s, "implement") /\ "implement" \in Nodes
    BY <1>4 DEF Plan, Nodes
  <2> HIDE DEF s
  <2>5. TypeOK'
    BY <1>4, <2>2, <2>4, SaveType DEF Plan, TypeOK, storeVars
  <2> QED BY <2>3, <2>4, <2>5, SaveFits
<1>5. CASE AwaitApproval
  <2>1. TypeOK'
    BY <1>5 DEF AwaitApproval, MoveTo, TypeOK, Columns, storeVars
  <2>2. Fits(st, next)'
    BY <1>5 DEF AwaitApproval, Fits
  <2> QED BY <2>1, <2>2
<1>6. CASE RejectPlan
  <2> DEFINE s == [st EXCEPT !.last_result = "TERMINATE",
                             !.last_reason = "rejected",
                             !.needs_human_approval = FALSE]
  <2>1. s \in ResearchState
    BY DEF ResearchState, Results, Reasons
  <2>2. Fits(s, "test")
    BY <1>6 DEF RejectPlan, At, Fits, LoopNodes, Nodes, Ending, ResearchState
  <2>3. Save(s, "test") /\ "test" \in Nodes
    BY <1>6 DEF RejectPlan, Nodes
  <2> HIDE DEF s
  <2>4. TypeOK'
    BY <1>6, <2>1, <2>3, SaveType DEF RejectPlan, TypeOK, storeVars
  <2> QED BY <2>2, <2>3, <2>4, SaveFits
<1>7. CASE Implement
  <2> DEFINE s == [st EXCEPT !.needs_human_approval = FALSE]
  <2>1. s \in ResearchState
    BY DEF ResearchState
  <2>2. Fits(s, "test")
    BY <1>7 DEF Implement, At, Fits, LoopNodes, Nodes, Ending, ResearchState
  <2>3. Save(s, "test") /\ "test" \in Nodes
    BY <1>7 DEF Implement, Nodes
  <2> HIDE DEF s
  <2>4. TypeOK'
    BY <1>7, <2>1, <2>3, SaveType DEF Implement, TypeOK, storeVars
  <2> QED BY <2>2, <2>3, <2>4, SaveFits
<1>8. CASE Test
  <2> DEFINE k == st.attempt_count + 1
             s == [st EXCEPT !.attempt_count = k,
                             !.test_metrics = [run |-> runs, test |-> k]]
  <2>1. s \in ResearchState
    <3>1. k \in Nat /\ [run |-> runs, test |-> k] \in Measures
      BY DEF ResearchState, Measures, TypeOK
    <3> HIDE DEF k
    <3> QED BY <3>1 DEF ResearchState
  <2>2. Fits(s, "analyze")
    BY <1>8 DEF Test, At, Fits, LoopNodes, Nodes, Ending, ResearchState
  <2>3. Save(s, "analyze") /\ "analyze" \in Nodes
    BY <1>8 DEF Test, Nodes
  <2> HIDE DEF s
  <2>4. TypeOK'
    BY <1>8, <2>1, <2>3, SaveType DEF Test, TypeOK, storeVars
  <2> QED BY <2>2, <2>3, <2>4, SaveFits
<1>9. CASE Analyze
  <2>1. PICK v \in Verdicts(plugin, st) :
          LET s == Judge(st, v) IN
            /\ IF s.last_result = "FAIL" THEN RecordLoopMetrics(s, FALSE)
               ELSE UNCHANGED <<rows, missed>>
            /\ Save(s, Route(s))
    BY <1>9 DEF Analyze
  <2> DEFINE s == Judge(st, v)
  <2>2. /\ v \in {"PASS", "FAIL", "TERMINATE"}
        /\ st.attempt_index < st.max_loops
        /\ st.last_result = "TERMINATE" =>
             st.last_reason \in {"rejected", "limit", "gave_up"}
    BY <1>9, VerdictsFacts DEF Analyze, At, Fits, LoopNodes
  <2>3. /\ s \in ResearchState
        /\ s.max_loops = st.max_loops /\ s.max_loops \in Nat
        /\ s.attempt_index \in 1 .. s.max_loops
        /\ s.attempt_index \in 1 .. MaxLoops
        /\ s.last_result \in {"PASS", "FAIL", "TERMINATE"}
        /\ s.last_result = "FAIL" => s.attempt_index < s.max_loops
        /\ s.last_result = "TERMINATE" /\ s.attempt_index = s.max_loops
             => s.last_reason = "exhausted"
        /\ s.last_result = "TERMINATE" /\ s.attempt_index < s.max_loops
             => /\ st.last_result = "TERMINATE"
                /\ s.last_reason = st.last_reason
    BY <2>2, JudgeFacts
  <2>4. /\ Save(s, Route(s))
        /\ IF s.last_result = "FAIL" THEN RecordLoopMetrics(s, FALSE)
           ELSE UNCHANGED <<rows, missed>>
    BY <2>1
  <2> HIDE DEF s
  <2>5. Fits(s, Route(s)) /\ Route(s) \in Nodes
    BY <2>2, <2>3 DEF Route, Fits, LoopNodes, Nodes, Ending
  <2>6. /\ rows' \in [1 .. MaxLoops -> Row]
        /\ missed' \in SUBSET (1 .. MaxLoops)
    BY <2>3, <2>4, RecordType DEF TypeOK
  <2>7. TypeOK'
    BY <1>9, <2>3, <2>4, <2>5, <2>6, SaveType DEF Analyze, TypeOK
  <2> QED BY <2>4, <2>5, <2>7, SaveFits
<1>10. CASE Revise
  <2>1. PICK s \in ReviseUpdates(plugin, st) : Save(s, "implement")
    BY <1>10 DEF Revise
  <2>2. /\ s \in ResearchState
        /\ s.attempt_index = st.attempt_index /\ s.max_loops = st.max_loops
        /\ \/ s.last_result = st.last_result
           \/ s.last_result = "TERMINATE"
              /\ s.last_reason \in {"limit", "gave_up"}
    BY ReviseFacts
  <2>3. Fits(s, "implement") /\ "implement" \in Nodes
    BY <1>10, <2>2 DEF Revise, At, Fits, LoopNodes, Nodes, Ending
  <2>4. TypeOK'
    BY <1>10, <2>1, <2>2, <2>3, SaveType DEF Revise, TypeOK, storeVars
  <2> QED BY <2>1, <2>3, <2>4, SaveFits
<1>11. CASE Summarize
  <2> DEFINE s == SummaryUpdate
  <2>1. s \in ResearchState
    BY DEF SummaryUpdate, ResearchState, Reasons, Reports
  <2>2. Fits(s, "record_metrics")
    BY <1>11 DEF Summarize, At, Fits, LoopNodes, Nodes, Ending,
                 SummaryUpdate, ResearchState
  <2>3. Save(s, "record_metrics") /\ "record_metrics" \in Nodes
    BY <1>11 DEF Summarize, Nodes
  <2>4. attached' \in SUBSET Report
    BY <1>11, AttachType DEF Summarize, Reports
  <2>5. file' \in [Reports -> [run : Nat, attempt : Nat]]
    BY <1>11 DEF Summarize, LocalFile, TypeOK, NoFile, ResearchState
  <2> HIDE DEF s
  <2>6. TypeOK'
    BY <1>11, <2>1, <2>3, <2>4, <2>5, SaveType DEF Summarize, TypeOK
  <2> QED BY <2>2, <2>3, <2>6, SaveFits
<1>12. CASE RecordMetrics
  <2>1. /\ st.last_result = "PASS" /\ st.attempt_index \in 1 .. MaxLoops
        /\ Fits(st, "end")
    BY <1>12, MaxFacts DEF RecordMetrics, At, Fits, LoopNodes, Nodes,
                           Ending, ResearchState
  <2>2. RecordLoopMetrics(st, "summary" \in st.artifacts) /\ Save(st, "end")
    BY <1>12 DEF RecordMetrics
  <2>3. /\ rows' \in [1 .. MaxLoops -> Row]
        /\ missed' \in SUBSET (1 .. MaxLoops)
    <3>1. ("summary" \in st.artifacts) \in BOOLEAN
      OBVIOUS
    <3> QED BY <2>1, <2>2, <3>1, RecordType
  <2>4. TypeOK'
    BY <1>12, <2>2, <2>3, SaveType DEF RecordMetrics, TypeOK
  <2> QED BY <2>1, <2>2, <2>4, SaveFits
<1>13. CASE RecordTerminateMetrics
  <2>1. /\ st.last_result = "TERMINATE" /\ st.attempt_index \in 1 .. MaxLoops
        /\ Fits(st, "terminate_summarize")
    BY <1>13, MaxFacts DEF RecordTerminateMetrics, At, Fits, LoopNodes,
                           Nodes, Ending, ResearchState
  <2>2. /\ RecordLoopMetrics(st, FALSE) /\ Save(st, "terminate_summarize")
        /\ "terminate_summarize" \in Nodes
    BY <1>13 DEF RecordTerminateMetrics, Nodes
  <2>3. /\ rows' \in [1 .. MaxLoops -> Row]
        /\ missed' \in SUBSET (1 .. MaxLoops)
    BY <2>1, <2>2, RecordType
  <2>4. TypeOK'
    BY <1>13, <2>2, <2>3, SaveType DEF RecordTerminateMetrics, TypeOK
  <2> QED BY <2>1, <2>2, <2>4, SaveFits
<1>14. CASE TerminateSummarize
  <2> DEFINE s == [st EXCEPT !.last_reason = "summary",
                             !.artifacts = @ \cup {"terminate_summary"}]
  <2>1. s \in ResearchState
    BY DEF ResearchState, Reasons, Reports
  <2>2. Fits(s, "final_summary")
    BY <1>14 DEF TerminateSummarize, At, Fits, LoopNodes, Nodes, Ending,
                 ResearchState
  <2>3. Save(s, "final_summary") /\ "final_summary" \in Nodes
    BY <1>14 DEF TerminateSummarize, Nodes
  <2>4. attached' \in SUBSET Report
    BY <1>14, AttachType DEF TerminateSummarize, Reports
  <2>5. file' \in [Reports -> [run : Nat, attempt : Nat]]
    BY <1>14 DEF TerminateSummarize, LocalFile, TypeOK, NoFile,
                 ResearchState
  <2> HIDE DEF s
  <2>6. TypeOK'
    BY <1>14, <2>1, <2>3, <2>4, <2>5, SaveType DEF TerminateSummarize, TypeOK
  <2> QED BY <2>2, <2>3, <2>6, SaveFits
<1>15. CASE FinalSummary
  <2>1. Fits(st, "end")
    BY <1>15 DEF FinalSummary, At, Fits, LoopNodes, Nodes, Ending
  <2>2. Save(st, "end")
    BY <1>15 DEF FinalSummary
  <2>3. attached' \in SUBSET Report
    BY <1>15, AttachType DEF FinalSummary
  <2>4. TypeOK'
    BY <1>15, <2>2, <2>3, SaveType DEF FinalSummary, TypeOK
  <2> QED BY <2>1, <2>2, <2>4, SaveFits
<1>16. CASE Finish
  <2>1. TypeOK'
    BY <1>16 DEF Finish, MoveTo, FinishColumn, TypeOK, Columns, storeVars
  <2>2. Fits(st, next)'
    BY <1>16 DEF Finish, Fits
  <2> QED BY <2>1, <2>2
<1>17. CASE UNCHANGED vars
  BY <1>17 DEF vars, threadVars, storeVars, TypeOK, Fits
<1> QED
  BY <1>1, <1>2, <1>3, <1>4, <1>5, <1>6, <1>7, <1>8, <1>9, <1>10, <1>11,
     <1>12, <1>13, <1>14, <1>15, <1>16, <1>17 DEF Next, GraphStep

LEMMA Invariance == Spec => [](TypeOK /\ Fits(st, next))
<1>1. Init => TypeOK /\ Fits(st, next)
  BY InvInit, FitsInv
<1>2. TypeOK /\ Fits(st, next) /\ [Next]_vars => (TypeOK /\ Fits(st, next))'
  BY InvNext
<1> QED BY <1>1, <1>2, PTL DEF Spec

\* Every variable of the thread, of the table and of the card keeps its type.
THEOREM TypeCorrect == Spec => []TypeOK
BY Invariance, PTL

\* For every max_loops, a run is judged at most max_loops times, and one that
\* still loops has a verdict left.
THEOREM AttemptsBounded == Spec => []AttemptBound
<1>1. TypeOK /\ Fits(st, next) => AttemptBound
  BY FitsInv DEF Inv
<1> QED BY <1>1, Invariance, PTL

\* The pending node agrees with the verdict in the state.
THEOREM VerdictsAtNodes == Spec => []VerdictAtNode
<1>1. TypeOK /\ Fits(st, next) => VerdictAtNode
  BY FitsInv DEF Inv
<1> QED BY <1>1, Invariance, PTL

\* Short of max_loops only a reviewer's rejection or revise ends a run
\* without PASS.
THEOREM StopsSanctioned == Spec => []SanctionedStop
<1>1. TypeOK /\ Fits(st, next) => SanctionedStop
  BY FitsInv DEF Inv
<1> QED BY <1>1, Invariance, PTL

-----------------------------------------------------------------------------
(* Action properties.                                                       *)

LEMMA PluginFixed == [Next]_vars => plugin' = plugin
BY DEF Next, vars, StartRun, Operator, Resume, Stop, GraphStep, Plan,
       AwaitApproval, RejectPlan, Implement, Test, Analyze, Revise,
       Summarize, RecordMetrics, RecordTerminateMetrics, TerminateSummarize,
       FinalSummary, Finish

\* What a step does to the state and to the pending node: nothing, or one of
\* the moves of the graph.
LEMMA StepFacts ==
  ASSUME TypeOK, Fits(st, next), [Next]_vars
  PROVE  \/ UNCHANGED <<st, next>>
         \/ /\ runs' = runs + 1 /\ next' = "plan"
            /\ \E max \in LoopLimits : st' = InitialState(max)
         \/ /\ next \in {"plan", "implement", "test", "revise"}
            /\ next' \in {"implement", "test", "analyze"}
            /\ st'.attempt_index = st.attempt_index
            /\ st'.max_loops = st.max_loops
            /\ st.last_result = "TERMINATE" => st'.last_result = "TERMINATE"
         \/ /\ next = "analyze" /\ mode = "running" /\ next' = Route(st')
            /\ \E v \in Verdicts(plugin, st) : st' = Judge(st, v)
         \/ /\ next \in Nodes \ LoopNodes /\ next' \in (Nodes \ LoopNodes) \cup {"end"}
            /\ st'.attempt_index = st.attempt_index
            /\ st'.max_loops = st.max_loops
            /\ st'.last_result = st.last_result
<1> USE PluginsAssumption
<1> st \in ResearchState /\ plugin \in AllPlugins
  BY DEF TypeOK
<1>1. CASE StartRun
  BY <1>1 DEF StartRun
<1>2. CASE Operator \/ Stop \/ AwaitApproval \/ Finish \/ UNCHANGED vars
  BY <1>2 DEF Operator, Resume, Stop, AwaitApproval, Finish, vars, threadVars
<1>3. CASE Plan
  <2>1. st.last_result \notin {"PASS", "TERMINATE"} /\ next = "plan"
    BY <1>3 DEF Plan, At, Fits, LoopNodes
  <2>2. /\ PlanUpdate(plugin, st).attempt_index = st.attempt_index
        /\ PlanUpdate(plugin, st).max_loops = st.max_loops
    BY <2>1, PlanUpdateFacts
  <2> QED BY <1>3, <2>1, <2>2 DEF Plan, Save
<1>4. CASE RejectPlan
  BY <1>4 DEF RejectPlan, At, Save, ResearchState
<1>5. CASE Implement
  BY <1>5 DEF Implement, At, Save, ResearchState
<1>6. CASE Test
  BY <1>6 DEF Test, At, Save, ResearchState
<1>7. CASE Analyze
  BY <1>7 DEF Analyze, At, Save
<1>8. CASE Revise
  <2>1. PICK s \in ReviseUpdates(plugin, st) : Save(s, "implement")
    BY <1>8 DEF Revise
  <2>2. /\ s.attempt_index = st.attempt_index /\ s.max_loops = st.max_loops
        /\ s.last_result = st.last_result \/ s.last_result = "TERMINATE"
    BY ReviseFacts
  <2> QED BY <1>8, <2>1, <2>2 DEF Revise, At, Save
<1>9. CASE Summarize
  BY <1>9 DEF Summarize, SummaryUpdate, At, Save, ResearchState, Nodes,
              LoopNodes
<1>10. CASE RecordMetrics \/ RecordTerminateMetrics \/ FinalSummary
  BY <1>10 DEF RecordMetrics, RecordTerminateMetrics, FinalSummary, At, Save,
               Nodes, LoopNodes
<1>11. CASE TerminateSummarize
  BY <1>11 DEF TerminateSummarize, At, Save, ResearchState, Nodes, LoopNodes
<1> QED
  BY <1>1, <1>2, <1>3, <1>4, <1>5, <1>6, <1>7, <1>8, <1>9, <1>10, <1>11
     DEF Next, GraphStep

\* With the plugins that propagate it, TERMINATE is final in every run.
THEOREM TerminateFinal == Spec => TerminateIsFinal
<1>1. ASSUME TypeOK, Fits(st, next), [Next]_vars,
             st.last_result = "TERMINATE", Propagates(plugin), runs' = runs
      PROVE  st'.last_result = "TERMINATE"
  <2>1. st \in ResearchState /\ plugin \in AllPlugins /\ runs \in Nat
    BY <1>1, PluginsAssumption DEF TypeOK
  <2>2. ASSUME next = "analyze", NEW v \in Verdicts(plugin, st),
               st' = Judge(st, v)
        PROVE  st'.last_result = "TERMINATE"
    <3>1. v = "TERMINATE" /\ st.attempt_index < st.max_loops
      BY <1>1, <2>1, <2>2, VerdictsFacts DEF Fits, LoopNodes
    <3> QED BY <1>1, <2>1, <2>2, <3>1, JudgeFacts
  <2> QED BY <1>1, <2>1, <2>2, StepFacts
<1>2. TypeOK /\ Fits(st, next) /\ [Next]_vars
        => [st.last_result = "TERMINATE" /\ Propagates(plugin) /\ runs' = runs
              => st'.last_result = "TERMINATE"]_vars
  BY <1>1
<1> QED BY <1>2, Invariance, PTL DEF Spec, TerminateIsFinal

\* Attempts are counted by analyze, one by one.
THEOREM AttemptsCounted == Spec => AttemptsCount
<1>1. ASSUME TypeOK, Fits(st, next), [Next]_vars, runs' = runs,
             st'.attempt_index # st.attempt_index
      PROVE  /\ next = "analyze" /\ mode = "running"
             /\ st'.attempt_index = st.attempt_index + 1
  <2>1. st \in ResearchState /\ plugin \in AllPlugins /\ runs \in Nat
    BY <1>1, PluginsAssumption DEF TypeOK
  <2>2. ASSUME NEW v \in Verdicts(plugin, st), st' = Judge(st, v)
        PROVE  st'.attempt_index = st.attempt_index + 1
    BY <2>1, <2>2 DEF Judge, ResearchState
  <2> QED BY <1>1, <2>1, <2>2, StepFacts
<1>2. TypeOK /\ Fits(st, next) /\ [Next]_vars
        => [runs' = runs /\ st'.attempt_index # st.attempt_index =>
              /\ next = "analyze" /\ mode = "running"
              /\ st'.attempt_index = st.attempt_index + 1]_vars
  BY <1>1
<1> QED BY <1>2, Invariance, PTL DEF Spec, AttemptsCount

-----------------------------------------------------------------------------
(* The graph implements the contract of a run.                             *)

LEMMA PhaseFacts ==
  /\ ~Bound => Phase = "idle"
  /\ Bound /\ next = "none" => Phase = "idle"
  /\ Bound /\ next \in LoopNodes =>
       Phase = IF st.last_result = "TERMINATE" THEN "stopping" ELSE "looping"
  /\ Bound /\ next # "none" /\ next \notin LoopNodes =>
       Phase = IF st.last_result = "PASS" THEN "passed" ELSE "terminated"
BY DEF Phase, LoopNodes

\* The same in the next state.
LEMMA PhaseFactsPrimed ==
  /\ ~Bound' => Phase' = "idle"
  /\ Bound' /\ next' = "none" => Phase' = "idle"
  /\ Bound' /\ next' \in LoopNodes =>
       Phase' = IF st'.last_result = "TERMINATE" THEN "stopping" ELSE "looping"
  /\ Bound' /\ next' # "none" /\ next' \notin LoopNodes =>
       Phase' = IF st'.last_result = "PASS" THEN "passed" ELSE "terminated"
BY DEF Phase, LoopNodes

\* dummy neither asks for approval nor gives up, so that nobody ever tells a
\* run of it to stop.
Willing ==
  plugin = "dummy" =>
    /\ ~st.needs_human_approval
    /\ next \in LoopNodes => st.last_result # "TERMINATE"

LEMMA WillingInit == Init => Willing
BY DEF Init, InitialState, Willing

LEMMA WillingNext ==
  ASSUME TypeOK, Fits(st, next), Willing, [Next]_vars
  PROVE  Willing'
<1> SUFFICES ASSUME plugin = "dummy"
             PROVE  /\ ~st'.needs_human_approval
                    /\ next' \in LoopNodes => st'.last_result # "TERMINATE"
  BY PluginFixed DEF Willing
<1> st \in ResearchState
  BY DEF TypeOK
<1>0. ~st.needs_human_approval
  BY DEF Willing
<1>1. CASE UNCHANGED <<st, next>>
  BY <1>1 DEF Willing
<1>2. CASE StartRun
  BY <1>2 DEF StartRun, InitialState
<1>3. CASE Plan
  <2>1. NeedsApproval("dummy") = FALSE
    BY DEF NeedsApproval
  <2>2. PlanUpdate(plugin, st) = [st EXCEPT !.needs_human_approval = FALSE]
    BY <2>1 DEF PlanUpdate
  <2>3. next \in LoopNodes
    BY <1>3 DEF Plan, At, LoopNodes
  <2> QED
    BY <1>1, <1>3, <2>2, <2>3 DEF Plan, Save, Willing, ResearchState
<1>4. CASE RejectPlan
  BY <1>0, <1>4 DEF RejectPlan
<1>5. CASE Implement
  BY <1>1, <1>5 DEF Implement, At, Save, Willing, LoopNodes, ResearchState
<1>6. CASE Test
  BY <1>1, <1>6 DEF Test, At, Save, Willing, LoopNodes, ResearchState
<1>7. CASE Analyze
  <2>1. CASE UNCHANGED <<st, next>>
    BY <1>1, <2>1
  <2>2. ASSUME NEW v \in Verdicts(plugin, st), st' = Judge(st, v),
               next' = Route(st')
        PROVE  /\ ~st'.needs_human_approval
               /\ next' \in LoopNodes => st'.last_result # "TERMINATE"
    <3>1. ~Judge(st, v).needs_human_approval
      BY <1>0 DEF Judge, ResearchState
    <3> QED BY <2>2, <3>1 DEF Route, LoopNodes
  <2> QED BY <1>7, <2>1, <2>2 DEF Analyze, Save
<1>8. CASE Revise
  <2>1. PICK s \in ReviseUpdates(plugin, st) : Save(s, "implement")
    BY <1>8 DEF Revise
  <2>2. s = [st EXCEPT !.last_reason = "revised"] \/
        s = [st EXCEPT !.last_reason = "revised",
                       !.needs_human_approval = st.needs_human_approval]
    BY <2>1 DEF ReviseUpdates
  <2>3. next \in LoopNodes
    BY <1>8 DEF Revise, At, LoopNodes
  <2> QED BY <1>0, <1>1, <2>1, <2>2, <2>3 DEF Save, Willing, ResearchState
<1>9. CASE Summarize
  BY <1>0, <1>1, <1>9 DEF Summarize, SummaryUpdate, Save, LoopNodes,
                          ResearchState
<1>10. CASE RecordMetrics \/ RecordTerminateMetrics \/ FinalSummary
  BY <1>0, <1>1, <1>10 DEF RecordMetrics, RecordTerminateMetrics,
                           FinalSummary, Save, LoopNodes
<1>11. CASE TerminateSummarize
  BY <1>0, <1>1, <1>11 DEF TerminateSummarize, Save, LoopNodes, ResearchState
<1>12. CASE Operator \/ Stop \/ AwaitApproval \/ Finish \/ UNCHANGED vars
  BY <1>1, <1>12
     DEF Operator, Resume, Stop, AwaitApproval, Finish, vars, threadVars
<1> QED
  BY <1>2, <1>3, <1>4, <1>5, <1>6, <1>7, <1>8, <1>9, <1>10, <1>11, <1>12
     DEF Next, GraphStep

\* Every step of the graph is a step of the contract or leaves it alone.
LEMMA ContractStep ==
  ASSUME TypeOK, Fits(st, next), Willing, [Next]_vars
  PROVE  [Contract!Next]_(Contract!contractVars)
<1> USE PluginsAssumption, MaxLoopsAssumption
<1>0. st \in ResearchState /\ plugin \in AllPlugins /\ plugin' = plugin
  BY PluginFixed DEF TypeOK
<1>1. CASE ~Bound
  <2>1. Bound' = Bound
    BY <1>0 DEF Bound
  <2> QED
    BY <1>1, <2>1, PhaseFacts, PhaseFactsPrimed
       DEF Attempts, Limit, Contract!contractVars
<1>2. CASE Bound
  <2>0. /\ Bound' /\ Attempts = st.attempt_index /\ Attempts' = st'.attempt_index
        /\ Limit = st.max_loops /\ Limit' = st'.max_loops
    BY <1>0, <1>2 DEF Bound, Attempts, Limit
  <2>1. CASE UNCHANGED <<st, next>>
    BY <1>2, <2>0, <2>1, PhaseFacts, PhaseFactsPrimed
       DEF Contract!contractVars
  <2>2. CASE /\ runs' = runs + 1 /\ next' = "plan"
             /\ \E max \in LoopLimits : st' = InitialState(max)
    <3>1. Phase' = "looping" /\ Attempts' = 0 /\ Limit' \in Contract!Limits
      BY <2>0, <2>2, PhaseFactsPrimed
         DEF InitialState, LoopNodes, Contract!Limits
    <3> QED BY <3>1 DEF Contract!Next, Contract!Begin
  <2>3. CASE /\ next \in {"plan", "implement", "test", "revise"}
             /\ next' \in {"implement", "test", "analyze"}
             /\ st'.attempt_index = st.attempt_index
             /\ st'.max_loops = st.max_loops
             /\ st.last_result = "TERMINATE" => st'.last_result = "TERMINATE"
    <3>1. /\ Phase = IF st.last_result = "TERMINATE"
                     THEN "stopping" ELSE "looping"
          /\ Phase' = IF st'.last_result = "TERMINATE"
                      THEN "stopping" ELSE "looping"
      BY <1>2, <2>0, <2>3, PhaseFacts, PhaseFactsPrimed DEF LoopNodes
    <3> QED
      BY <2>0, <2>3, <3>1
         DEF Contract!Next, Contract!Decide, Contract!contractVars
  <2>4. CASE /\ next = "analyze" /\ next' = Route(st')
             /\ \E v \in Verdicts(plugin, st) : st' = Judge(st, v)
    <3>1. PICK v \in Verdicts(plugin, st) : st' = Judge(st, v)
      BY <2>4
    <3>2. /\ v \in {"PASS", "FAIL", "TERMINATE"}
          /\ st.last_result = "TERMINATE" => v = "TERMINATE"
          /\ st.attempt_index < st.max_loops
          /\ Phase = IF st.last_result = "TERMINATE"
                     THEN "stopping" ELSE "looping"
      <4>1. st.last_result = "TERMINATE" => Propagates(plugin)
        BY <1>0, <1>2, <2>4
           DEF AllPlugins, Bound, Propagates, Willing, LoopNodes
      <4>2. next \in LoopNodes /\ st.attempt_index < st.max_loops
        BY <2>4 DEF LoopNodes, Fits
      <4> QED
        BY <1>0, <1>2, <3>1, <4>1, <4>2, VerdictsFacts, PhaseFacts
    <3> DEFINE s == Judge(st, v)
    <3>3. /\ s.attempt_index = st.attempt_index + 1
          /\ s.max_loops = st.max_loops /\ s.max_loops \in Nat
          /\ s.last_result \in {"PASS", "FAIL", "TERMINATE"}
          /\ s.last_result = "PASS" <=> v = "PASS"
          /\ s.last_result = "FAIL" => s.attempt_index < s.max_loops
          /\ s.last_result = "TERMINATE" /\ s.attempt_index < s.max_loops
               => st.last_result = "TERMINATE"
          /\ v = "TERMINATE" /\ st.last_result = "TERMINATE"
               => s.last_result = "TERMINATE"
          /\ s.attempt_index \in 1 .. s.max_loops
      BY <1>0, <3>2, JudgeFacts
    <3>4. st' = s /\ next' = Route(s)
      BY <2>4, <3>1
    <3> HIDE DEF s
    <3>5. Phase' = CASE s.last_result = "PASS" -> "passed"
                     [] s.last_result = "TERMINATE" -> "terminated"
                     [] s.last_result = "FAIL" -> "looping"
      <4>1. CASE s.last_result = "FAIL"
        BY <2>0, <3>4, <4>1, PhaseFactsPrimed DEF Route, LoopNodes
      <4>2. CASE s.last_result # "FAIL"
        <5>1. next' # "none" /\ next' \notin LoopNodes
          BY <3>3, <3>4, <4>2 DEF Route, LoopNodes
        <5> QED BY <2>0, <3>3, <3>4, <4>2, <5>1, PhaseFactsPrimed
      <4> QED BY <4>1, <4>2
    <3>6. CASE s.last_result = "PASS"
      BY <2>0, <3>2, <3>3, <3>4, <3>5, <3>6
         DEF Contract!Next, Contract!Pass, Contract!Judged
    <3>7. CASE s.last_result = "FAIL"
      <4>1. st.last_result # "TERMINATE"
        BY <3>2, <3>3, <3>7
      <4> QED
        BY <1>0, <2>0, <3>2, <3>3, <3>4, <3>5, <3>7, <4>1
           DEF Contract!Next, Contract!Retry, Contract!Judged, ResearchState
    <3>8. CASE s.last_result = "TERMINATE"
      <4>1. CASE st.last_result = "TERMINATE"
        BY <2>0, <3>2, <3>3, <3>4, <3>5, <3>8, <4>1
           DEF Contract!Next, Contract!GiveUp, Contract!Judged
      <4>2. CASE st.last_result # "TERMINATE"
        <5>1. s.attempt_index = s.max_loops
          BY <3>3, <3>8, <4>2
        <5> QED
          BY <2>0, <3>2, <3>3, <3>4, <3>5, <3>8, <4>2, <5>1
             DEF Contract!Next, Contract!Exhaust, Contract!Judged
      <4> QED BY <4>1, <4>2
    <3> QED BY <3>3, <3>6, <3>7, <3>8
  <2>5. CASE /\ next \in Nodes \ LoopNodes
             /\ next' \in (Nodes \ LoopNodes) \cup {"end"}
             /\ st'.attempt_index = st.attempt_index
             /\ st'.max_loops = st.max_loops
             /\ st'.last_result = st.last_result
    <3>1. next # "none" /\ next' # "none"
      BY <2>5 DEF Nodes
    <3>2. next' \notin LoopNodes
      BY <2>5 DEF LoopNodes
    <3> QED
      BY <1>2, <2>0, <2>5, <3>1, <3>2, PhaseFacts, PhaseFactsPrimed
         DEF Contract!contractVars
  <2> QED BY <2>1, <2>2, <2>3, <2>4, <2>5, StepFacts
<1> QED BY <1>1, <1>2

\* The graph implements the contract, whatever the plugins of its projects,
\* max_loops, and the crashes and resumes of a run.
THEOREM ContractImplemented == Spec => ImplementsContract
<1>1. Init => Contract!Init
  BY MaxLoopsAssumption
     DEF Init, InitialState, Phase, Attempts, Limit, LoopNodes,
         Contract!Init, Contract!Limits
<1>2. TypeOK /\ Fits(st, next) /\ Willing /\ [Next]_vars
        => Willing' /\ [Contract!Next]_(Contract!contractVars)
  BY WillingNext, ContractStep
<1> QED
  BY <1>1, <1>2, WillingInit, Invariance, PTL
     DEF Spec, ImplementsContract, Contract!Spec

-----------------------------------------------------------------------------
(* The history in loop_metrics.                                            *)

\* Attempt i has its row: FAIL if the run went on after it, else the final
\* result, once the node that writes it is behind.
Recorded(i) ==
  /\ i < st.attempt_index \/ (i = st.attempt_index /\ next \in LoopNodes) =>
       rows[i].result = "FAIL" /\ rows[i].recorded_at = runs
  /\ /\ i = st.attempt_index
     /\ next \in {"terminate_summarize", "final_summary", "end"}
     => rows[i].result = st.last_result /\ rows[i].recorded_at = runs

History == next # "none" => \A i \in (1 .. MaxLoops) \ missed : Recorded(i)

\* A write of the row of s touches no other row, and unless it is missed the
\* row shows the result of s.
LEMMA RecordFacts ==
  ASSUME TypeOK, NEW s \in ResearchState, NEW b,
         RecordLoopMetrics(s, b), NEW i \in (1 .. MaxLoops) \ missed'
  PROVE  /\ i # s.attempt_index => i \notin missed /\ rows'[i] = rows[i]
         /\ i = s.attempt_index => /\ rows'[i].result = s.last_result
                                   /\ rows'[i].recorded_at = runs
<1>1. CASE rows' = Upsert(s, b) /\ missed' = missed \ {s.attempt_index}
  <2>1. CASE i # s.attempt_index
    BY <1>1, <2>1 DEF Upsert, TypeOK
  <2>2. CASE i = s.attempt_index
    BY <1>1, <2>2 DEF Upsert, TypeOK
  <2> QED BY <2>1, <2>2
<1>2. CASE missed' = missed \cup {s.attempt_index} /\ UNCHANGED rows
  BY <1>2
<1> QED BY <1>1, <1>2 DEF RecordLoopMetrics

LEMMA HistoryNext ==
  ASSUME TypeOK, Fits(st, next), History, [Next]_vars
  PROVE  History'
<1> USE MaxLoopsAssumption
<1> st \in ResearchState /\ st.attempt_index \in Nat
  BY DEF TypeOK, ResearchState
<1> SUFFICES ASSUME next' # "none", NEW i \in (1 .. MaxLoops) \ missed'
             PROVE  Recorded(i)'
  BY DEF History
<1>1. ASSUME i \notin missed, next # "none"
      PROVE  Recorded(i)
  BY <1>1 DEF History
<1>2. CASE UNCHANGED <<st, next, rows, missed, runs>>
  BY <1>1, <1>2 DEF Recorded
<1>3. CASE StartRun
  BY <1>3 DEF StartRun, InitialState, Recorded
<1>4. CASE Plan \/ RejectPlan \/ Implement \/ Test \/ Revise
  <2>1. UNCHANGED <<rows, missed, runs>> /\ next \in LoopNodes
    BY <1>4 DEF Plan, RejectPlan, Implement, Test, Revise, At, LoopNodes,
                storeVars
  <2>2. CASE UNCHANGED <<st, next>>
    BY <1>2, <2>1, <2>2
  <2>3. CASE /\ next' \in LoopNodes
             /\ st'.attempt_index = st.attempt_index
    BY <1>1, <2>1, <2>3 DEF Recorded, LoopNodes
  <2>4. next # "analyze" /\ runs \in Nat
    BY <1>4 DEF Plan, RejectPlan, Implement, Test, Revise, At, TypeOK
  <2>5. \/ UNCHANGED <<st, next>>
        \/ /\ next' \in LoopNodes
           /\ st'.attempt_index = st.attempt_index
    BY <2>1, <2>4, StepFacts DEF LoopNodes
  <2> QED BY <2>2, <2>3, <2>5
<1>5. CASE Analyze
  <2>1. PICK v \in Verdicts(plugin, st) :
          LET s == Judge(st, v) IN
            /\ IF s.last_result = "FAIL" THEN RecordLoopMetrics(s, FALSE)
               ELSE UNCHANGED <<rows, missed>>
            /\ Save(s, Route(s))
    BY <1>5 DEF Analyze
  <2> DEFINE s == Judge(st, v)
  <2>2. /\ v \in {"PASS", "FAIL", "TERMINATE"}
        /\ st.attempt_index < st.max_loops /\ next = "analyze" /\ runs' = runs
    BY <1>5, PluginsAssumption, VerdictsFacts
       DEF Analyze, At, Fits, LoopNodes, TypeOK
  <2>3. /\ s \in ResearchState
        /\ s.attempt_index = st.attempt_index + 1
        /\ s.last_result \in {"PASS", "FAIL", "TERMINATE"}
    BY <2>2, JudgeFacts
  <2>4. /\ Save(s, Route(s))
        /\ IF s.last_result = "FAIL" THEN RecordLoopMetrics(s, FALSE)
           ELSE UNCHANGED <<rows, missed>>
    BY <2>1
  <2> HIDE DEF s
  <2>5. ASSUME i <= st.attempt_index
        PROVE  rows'[i].result = "FAIL" /\ rows'[i].recorded_at = runs
    <3>1. i # s.attempt_index
      BY <2>3, <2>5
    <3>2. i \notin missed /\ rows'[i] = rows[i]
      <4>1. CASE s.last_result = "FAIL"
        BY <2>3, <2>4, <3>1, <4>1, RecordFacts
      <4>2. CASE s.last_result # "FAIL"
        BY <2>4, <4>2
      <4> QED BY <4>1, <4>2
    <3> QED BY <1>1, <2>2, <2>5, <3>2 DEF Recorded, LoopNodes
  <2>6. ASSUME i = s.attempt_index, s.last_result = "FAIL"
        PROVE  rows'[i].result = "FAIL" /\ rows'[i].recorded_at = runs
    BY <2>3, <2>4, <2>6, RecordFacts
  <2>7. CASE UNCHANGED <<st, next>>
    BY <2>2, <2>5, <2>7 DEF Recorded, LoopNodes
  <2>8. CASE st' = s /\ next' = Route(s)
    BY <2>2, <2>3, <2>5, <2>6, <2>8 DEF Recorded, Route, LoopNodes
  <2> QED BY <2>4, <2>7, <2>8 DEF Save
<1>6. CASE RecordMetrics \/ RecordTerminateMetrics
  <2>1. PICK b : RecordLoopMetrics(st, b)
    BY <1>6 DEF RecordMetrics, RecordTerminateMetrics
  <2>2. /\ runs' = runs
        /\ next \in {"record_metrics", "record_terminate_metrics"}
    BY <1>6 DEF RecordMetrics, RecordTerminateMetrics, At
  <2>3. /\ st' = st
        /\ \/ next' = next
           \/ next' \in {"end", "terminate_summarize"}
    BY <1>6 DEF RecordMetrics, RecordTerminateMetrics, Save
  <2>4. CASE i # st.attempt_index
    BY <1>1, <2>1, <2>2, <2>3, <2>4, RecordFacts DEF Recorded, LoopNodes
  <2>5. CASE i = st.attempt_index
    BY <2>1, <2>2, <2>3, <2>5, RecordFacts DEF Recorded, LoopNodes
  <2> QED BY <2>4, <2>5
<1>7. CASE Summarize \/ TerminateSummarize \/ FinalSummary
  <2>1. /\ UNCHANGED <<rows, missed, runs>>
        /\ next \in {"summarize", "terminate_summarize", "final_summary"}
    BY <1>7 DEF Summarize, TerminateSummarize, FinalSummary, At
  <2>2. \/ UNCHANGED <<st, next>>
        \/ /\ st'.attempt_index = st.attempt_index
           /\ st'.last_result = st.last_result
           /\ next = "summarize" => next' = "record_metrics"
           /\ next' \in {"record_metrics", "final_summary", "end"}
    BY <1>7 DEF Summarize, TerminateSummarize, FinalSummary, Save, At,
                SummaryUpdate, ResearchState
  <2> QED BY <1>1, <1>2, <2>1, <2>2 DEF Recorded, LoopNodes
<1>8. CASE Operator \/ Stop \/ AwaitApproval \/ Finish \/ UNCHANGED vars
  BY <1>2, <1>8 DEF Operator, Resume, Stop, AwaitApproval, Finish, vars,
                    threadVars, storeVars
<1> QED
  BY <1>3, <1>4, <1>5, <1>6, <1>7, <1>8 DEF Next, GraphStep

\* A finished run left its whole history in loop_metrics, but for the rows
\* whose write failed.
THEOREM HistoryKept == Spec => []HistoryComplete
<1>1. Init => History
  BY DEF Init, History
<1>2. TypeOK /\ Fits(st, next) /\ History /\ [Next]_vars => History'
  BY HistoryNext
<1>3. TypeOK /\ Fits(st, next) /\ History => HistoryComplete
  <2> SUFFICES ASSUME TypeOK, Fits(st, next), History, next = "end",
                      NEW i \in (1 .. st.attempt_index) \ missed
               PROVE  /\ rows[i].recorded_at = runs
                      /\ rows[i].result = IF i < st.attempt_index
                                          THEN "FAIL" ELSE st.last_result
    BY DEF HistoryComplete
  <2>1. st.attempt_index \in Nat /\ i \in 1 .. MaxLoops
    <3>1. st \in ResearchState /\ st.attempt_index \in Nat
      BY DEF TypeOK, ResearchState
    <3> QED BY <3>1, MaxFacts DEF Fits
  <2>2. Recorded(i)
    BY <2>1 DEF History
  <2>3. CASE i < st.attempt_index
    BY <2>2, <2>3 DEF Recorded
  <2>4. CASE i = st.attempt_index
    <3>1. /\ rows[i].recorded_at = runs
          /\ rows[i].result = st.last_result
      BY <2>2, <2>4 DEF Recorded
    <3>2. ~(i < st.attempt_index)
      BY <2>1, <2>4
    <3> QED BY <3>1, <3>2
  <2> QED BY <2>1, <2>3, <2>4
<1> QED BY <1>1, <1>2, <1>3, Invariance, PTL DEF Spec

-----------------------------------------------------------------------------
(* The card, the report and the metrics at the end of a run.               *)

\* The nodes leave the card alone or, cut short, let it move to Failed.
LEMMA NodeCard ==
  ASSUME GraphStep
  PROVE  \/ Finish
         \/ /\ mode = "running" /\ next \in Nodes /\ runs' = runs
            /\ card' \in {card, "Failed", "Review"}
BY DEF GraphStep, Plan, AwaitApproval, RejectPlan, Implement, Test, Analyze,
       Revise, Summarize, RecordMetrics, RecordTerminateMetrics,
       TerminateSummarize, FinalSummary, At, Save, MoveTo, Nodes

LEMMA OutcomeNext ==
  ASSUME TypeOK, Fits(st, next), FinishOutcome, [Next]_vars
  PROVE  FinishOutcome'
<1> runs \in Nat /\ "end" \notin Nodes
  BY DEF TypeOK, Nodes
<1>1. CASE StartRun
  BY <1>1 DEF StartRun, FinishOutcome
<1>2. CASE Operator
  <2>1. PICK d \in Decisions : Resume(d)
    BY <1>2 DEF Operator
  <2>2. card # "Done" /\ card' \in {card, "Verify", "Failed"} /\ runs' = runs
    BY <2>1 DEF Resume, FinishOutcome, Decisions
  <2> QED BY <2>2 DEF FinishOutcome
<1>3. CASE Stop
  BY <1>3 DEF Stop, MoveTo, FinishOutcome
<1>4. CASE Finish
  <2>1. st.last_result \in {"PASS", "TERMINATE"} /\ next = "end"
    BY <1>4 DEF Finish, At, Fits
  <2>2. FinishColumn(st.last_result) = IF st.last_result = "PASS"
                                       THEN "Done" ELSE "Review"
    BY <2>1 DEF FinishColumn
  <2> QED BY <1>4, <2>1, <2>2 DEF Finish, MoveTo, FinishOutcome
<1>5. CASE GraphStep /\ ~Finish
  <2>1. /\ next \in Nodes /\ runs' = runs
        /\ card' \in {card, "Failed", "Review"}
    BY <1>5, NodeCard
  <2> QED BY <2>1 DEF FinishOutcome
<1>6. CASE UNCHANGED vars
  BY <1>6 DEF vars, threadVars, FinishOutcome
<1> QED BY <1>1, <1>2, <1>3, <1>4, <1>5, <1>6 DEF Next

\* No run ends in Planning, and Done shows a run that ended with PASS.
THEOREM OutcomeShown == Spec => []FinishOutcome
<1>1. Init => FinishOutcome
  BY DEF Init, FinishOutcome
<1> QED BY <1>1, OutcomeNext, Invariance, PTL DEF Spec

\* Without a sink, a run that passed keeps its report from summarize on, and
\* its row refers to it unless the write was missed.
Reported ==
  ~sink /\ st.last_result = "PASS" =>
    /\ next \in {"record_metrics", "end"} =>
         /\ "summary" \in st.artifacts
         /\ file["summary"] = [run |-> runs, attempt |-> st.attempt_index]
    /\ next = "end" =>
         st.attempt_index \in missed \/ rows[st.attempt_index].report

\* A row that is written refers to a report if it was told to.
LEMMA RecordReport ==
  ASSUME TypeOK, NEW s, NEW b \in BOOLEAN, s.attempt_index \in 1 .. MaxLoops,
         RecordLoopMetrics(s, b)
  PROVE  \/ s.attempt_index \in missed'
         \/ rows'[s.attempt_index].report = b
<1>1. CASE rows' = Upsert(s, b)
  <2>1. rows'[s.attempt_index] =
          [result |-> s.last_result, reason |-> s.last_reason,
           report |-> b, recorded_at |-> runs,
           metrics |-> IF rows[s.attempt_index] = NoRow THEN s.test_metrics
                       ELSE rows[s.attempt_index].metrics]
    BY <1>1 DEF Upsert, TypeOK
  <2> QED BY <2>1
<1>2. CASE missed' = missed \cup {s.attempt_index}
  BY <1>2
<1> QED BY <1>1, <1>2 DEF RecordLoopMetrics

LEMMA ReportedNext ==
  ASSUME TypeOK, Fits(st, next), Reported, [Next]_vars
  PROVE  Reported'
<1> st \in ResearchState /\ next \in Nodes \cup {"none", "end"}
  BY DEF TypeOK
<1> sink' = sink
  BY DEF Next, vars, StartRun, Operator, Resume, Stop, GraphStep, Plan,
         AwaitApproval, RejectPlan, Implement, Test, Analyze, Revise,
         Summarize, RecordMetrics, RecordTerminateMetrics,
         TerminateSummarize, FinalSummary, Finish
<1>1. CASE StartRun
  BY <1>1 DEF StartRun, Reported
<1>2. CASE Operator \/ Stop \/ AwaitApproval \/ Finish \/ UNCHANGED vars
  BY <1>2 DEF Operator, Resume, Stop, AwaitApproval, Finish, vars,
              threadVars, storeVars, Reported
<1>3. CASE Plan \/ RejectPlan \/ Implement \/ Test \/ Revise \/ Analyze
  <2>1. next \in {"plan", "implement", "test", "revise", "analyze"}
    BY <1>3 DEF Plan, RejectPlan, Implement, Test, Revise, Analyze, At
  <2>2. next' \notin {"record_metrics", "end"}
    BY <1>3, <2>1 DEF Plan, RejectPlan, Implement, Test, Revise, Analyze,
                      Save, Route
  <2> QED BY <2>2 DEF Reported
<1>4. CASE Summarize
  <2>1. next = "summarize" /\ runs' = runs /\ file' = LocalFile("summary")
    BY <1>4 DEF Summarize, At
  <2>2. CASE UNCHANGED <<st, next>>
    BY <2>1, <2>2 DEF Reported
  <2>3. CASE st' = SummaryUpdate /\ next' = "record_metrics"
    <3>1. /\ st'.attempt_index = st.attempt_index
          /\ ~sink => "summary" \in st'.artifacts
      BY <2>3 DEF SummaryUpdate, ResearchState
    <3>2. ~sink => file'["summary"] = [run |-> runs,
                                       attempt |-> st.attempt_index]
      BY <2>1 DEF LocalFile, TypeOK, Reports
    <3> QED BY <2>1, <2>3, <3>1, <3>2 DEF Reported
  <2> QED BY <1>4, <2>2, <2>3 DEF Summarize, Save
<1>5. CASE RecordMetrics
  <2>1. /\ next = "record_metrics" /\ runs' = runs /\ file' = file
        /\ st' = st /\ next' \in {"record_metrics", "end"}
        /\ RecordLoopMetrics(st, "summary" \in st.artifacts)
    BY <1>5 DEF RecordMetrics, At, Save
  <2>2. st.attempt_index \in 1 .. MaxLoops
    BY <2>1, MaxFacts DEF Fits, Nodes, LoopNodes, ResearchState
  <2>3. \/ st.attempt_index \in missed'
        \/ rows'[st.attempt_index].report = ("summary" \in st.artifacts)
    <3>1. RecordLoopMetrics(st, "summary" \in st.artifacts)
      BY <2>1
    <3>2. ("summary" \in st.artifacts) \in BOOLEAN
      OBVIOUS
    <3> QED BY <2>2, <3>1, <3>2, RecordReport, Zenon
  <2> QED BY <2>1, <2>3 DEF Reported
<1>6. CASE RecordTerminateMetrics \/ TerminateSummarize \/ FinalSummary
  <2>1. st.last_result = "TERMINATE"
    BY <1>6 DEF RecordTerminateMetrics, TerminateSummarize, FinalSummary, At,
                Fits, Ending
  <2>2. st'.last_result = st.last_result
    BY <1>6 DEF RecordTerminateMetrics, TerminateSummarize, FinalSummary,
                Save, ResearchState
  <2> QED BY <2>1, <2>2 DEF Reported
<1> QED BY <1>1, <1>2, <1>3, <1>4, <1>5, <1>6 DEF Next, GraphStep

\* The report that the row of a passed run refers to is the one of that run.
THEOREM ReportKept == Spec => []ReportOfRow
<1>1. Init => Reported
  BY DEF Init, Reported
<1>2. Reported => ReportOfRow
  BY DEF Reported, ReportOfRow
<1> QED BY <1>1, <1>2, ReportedNext, Invariance, PTL DEF Spec

\* The framework's count of attempts and the plugin's count of tests, as the
\* pending node has them; the metrics in the state are those of the last test.
Counted(s, n, r) ==
  /\ n \in {"plan", "implement", "test"} => s.attempt_count = s.attempt_index
  /\ n = "analyze" =>
       /\ s.attempt_count = s.attempt_index + 1
       /\ s.test_metrics = [run |-> r, test |-> s.attempt_count]
  /\ n \in {"revise", "record_terminate_metrics"} =>
       s.attempt_count = s.attempt_index
  /\ n \in {"revise", "record_terminate_metrics", "summarize",
            "record_metrics"} =>
       s.test_metrics = [run |-> r, test |-> s.attempt_index]

Measured ==
  /\ Counted(st, next, runs)
  /\ runs = 0 => next = "none" /\ \A i \in 1 .. MaxLoops : rows[i] = NoRow
  /\ MetricsOfAttempt

\* The nodes that decide keep the count of tests and their metrics.
LEMMA CountKept ==
  ASSUME NEW s \in ResearchState, NEW p \in AllPlugins
  PROVE  /\ PlanUpdate(p, s).attempt_count = s.attempt_count
         /\ PlanUpdate(p, s).attempt_index = s.attempt_index
         /\ \A v : /\ Judge(s, v).attempt_count = s.attempt_count
                   /\ Judge(s, v).test_metrics = s.test_metrics
                   /\ Judge(s, v).attempt_index = s.attempt_index + 1
         /\ \A r \in ReviseUpdates(p, s) :
              /\ r.attempt_count = s.attempt_count
              /\ r.attempt_index = s.attempt_index
<1>1. /\ PlanUpdate(p, s).attempt_count = s.attempt_count
      /\ PlanUpdate(p, s).attempt_index = s.attempt_index
  <2>1. CASE p = "quant_alpha"
    BY <2>1 DEF PlanUpdate, ResearchState
  <2>2. CASE p # "quant_alpha"
    BY <2>2 DEF PlanUpdate, ResearchState
  <2> QED BY <2>1, <2>2
<1>2. ASSUME NEW v
      PROVE  /\ Judge(s, v).attempt_count = s.attempt_count
             /\ Judge(s, v).test_metrics = s.test_metrics
             /\ Judge(s, v).attempt_index = s.attempt_index + 1
  BY DEF Judge, ResearchState
<1>3. ASSUME NEW r \in ReviseUpdates(p, s)
      PROVE  /\ r.attempt_count = s.attempt_count
             /\ r.attempt_index = s.attempt_index
  BY <1>3 DEF ReviseUpdates, ResearchState
<1> QED BY <1>1, <1>2, <1>3

\* A row that is written gets the metrics of the state, if they are those of
\* its attempt; the other rows keep theirs.
LEMMA RecordMeasures ==
  ASSUME TypeOK, MetricsOfAttempt, NEW s \in ResearchState, NEW b,
         RecordLoopMetrics(s, b), runs' = runs,
         s.test_metrics = [run |-> runs, test |-> s.attempt_index]
  PROVE  MetricsOfAttempt'
<1> SUFFICES ASSUME runs = 1, NEW i \in 1 .. MaxLoops, rows'[i] # NoRow
             PROVE  rows'[i].metrics = [run |-> 1, test |-> i]
  BY DEF MetricsOfAttempt
<1>1. rows[i] # NoRow => rows[i].metrics = [run |-> 1, test |-> i]
  BY DEF MetricsOfAttempt
<1>2. CASE UNCHANGED rows
  BY <1>1, <1>2
<1>3. CASE rows' = Upsert(s, b) /\ i # s.attempt_index
  BY <1>1, <1>3 DEF Upsert, TypeOK
<1>4. CASE rows' = Upsert(s, b) /\ i = s.attempt_index
  <2>1. rows'[i].metrics = IF rows[i] = NoRow THEN s.test_metrics
                           ELSE rows[i].metrics
    BY <1>4 DEF Upsert, TypeOK
  <2> QED BY <1>1, <1>4, <2>1
<1> QED BY <1>2, <1>3, <1>4 DEF RecordLoopMetrics

LEMMA MeasuredNext ==
  ASSUME TypeOK, Fits(st, next), Measured, [Next]_vars
  PROVE  Measured'
<1> USE PluginsAssumption
<1> st \in ResearchState /\ plugin \in AllPlugins /\ runs \in Nat
  BY DEF TypeOK
<1>0. st.attempt_index \in Nat /\ st.attempt_count \in Nat
  BY DEF ResearchState
<1>1. CASE StartRun
  <2>1. Counted(st', next', runs')
    BY <1>1 DEF StartRun, InitialState, Counted
  <2>2. runs' = runs + 1 /\ UNCHANGED rows
    BY <1>1 DEF StartRun
  <2>3. MetricsOfAttempt'
    BY <2>2 DEF MetricsOfAttempt, Measured
  <2> QED BY <2>1, <2>2, <2>3 DEF Measured
<1>2. CASE Operator \/ Stop \/ AwaitApproval \/ Finish \/ UNCHANGED vars
  BY <1>2 DEF Operator, Resume, Stop, AwaitApproval, Finish, vars,
              threadVars, storeVars, Measured, MetricsOfAttempt
<1>3. ASSUME GraphStep, ~Finish
      PROVE  runs # 0 /\ runs' = runs
  BY <1>3, NodeCard DEF Measured, Nodes
<1>4. ASSUME UNCHANGED <<rows, runs>>, runs # 0, Counted(st', next', runs')
      PROVE  Measured'
  BY <1>4 DEF Measured, MetricsOfAttempt
<1>5. ASSUME NEW s, NEW n, Save(s, n), Counted(s, n, runs), runs' = runs
      PROVE  Counted(st', next', runs')
  <2>1. CASE UNCHANGED <<st, next>>
    BY <1>5, <2>1 DEF Measured
  <2>2. CASE st' = s /\ next' = n
    BY <1>5, <2>2
  <2> QED BY <1>5, <2>1, <2>2 DEF Save
<1>6. CASE Plan
  <2>1. Counted(PlanUpdate(plugin, st), "implement", runs)
    BY <1>6, CountKept DEF Plan, At, Measured, Counted
  <2> QED BY <1>3, <1>4, <1>5, <1>6, <2>1
          DEF Plan, GraphStep, Finish, At, storeVars
<1>7. CASE RejectPlan \/ Implement
  <2> DEFINE s == IF RejectPlan
                  THEN [st EXCEPT !.last_result = "TERMINATE",
                                  !.last_reason = "rejected",
                                  !.needs_human_approval = FALSE]
                  ELSE [st EXCEPT !.needs_human_approval = FALSE]
  <2>1. Counted(s, "test", runs)
    BY <1>7 DEF RejectPlan, Implement, At, Measured, Counted, ResearchState
  <2>2. Save(s, "test") /\ UNCHANGED rows
    BY <1>7 DEF RejectPlan, Implement, storeVars
  <2>3. next # "end"
    BY <1>7 DEF RejectPlan, Implement, At
  <2> QED BY <1>3, <1>4, <1>5, <1>7, <2>1, <2>2, <2>3
          DEF GraphStep, Finish, At
<1>8. CASE Test
  <2> DEFINE k == st.attempt_count + 1
             s == [st EXCEPT !.attempt_count = k,
                             !.test_metrics = [run |-> runs, test |-> k]]
  <2>1. Counted(s, "analyze", runs)
    BY <1>0, <1>8 DEF Test, At, Measured, Counted, ResearchState
  <2>2. Save(s, "analyze") /\ UNCHANGED rows /\ next # "end"
    BY <1>8 DEF Test, At, storeVars
  <2> QED BY <1>3, <1>4, <1>5, <1>8, <2>1, <2>2 DEF GraphStep, Finish, At
<1>9. CASE Analyze
  <2>1. PICK v \in Verdicts(plugin, st) :
          LET s == Judge(st, v) IN
            /\ IF s.last_result = "FAIL" THEN RecordLoopMetrics(s, FALSE)
               ELSE UNCHANGED <<rows, missed>>
            /\ Save(s, Route(s))
    BY <1>9 DEF Analyze
  <2> DEFINE s == Judge(st, v)
  <2>2. next = "analyze" /\ v \in {"PASS", "FAIL", "TERMINATE"}
    BY <1>9, VerdictsFacts DEF Analyze, At
  <2>3. s \in ResearchState
    BY <2>2, JudgeFacts DEF Fits, LoopNodes
  <2>4. /\ s.attempt_count = s.attempt_index
        /\ s.test_metrics = [run |-> runs, test |-> s.attempt_index]
    BY <1>0, <2>2, CountKept DEF Measured, Counted
  <2>5. Counted(s, Route(s), runs)
    BY <2>4 DEF Counted, Route
  <2>6. runs # 0 /\ runs' = runs
    BY <1>3, <1>9, <2>2 DEF GraphStep, Finish, At
  <2>7. MetricsOfAttempt'
    <3>1. CASE s.last_result = "FAIL"
      BY <2>1, <2>3, <2>4, <2>6, <3>1, RecordMeasures DEF Measured
    <3>2. CASE s.last_result # "FAIL"
      BY <2>1, <2>6, <3>2 DEF Measured, MetricsOfAttempt
    <3> QED BY <3>1, <3>2
  <2> QED BY <1>5, <2>1, <2>5, <2>6, <2>7 DEF Measured
<1>10. CASE Revise
  <2>1. PICK s \in ReviseUpdates(plugin, st) : Save(s, "implement")
    BY <1>10 DEF Revise
  <2>2. Counted(s, "implement", runs)
    BY <1>10, <2>1, CountKept DEF Revise, At, Measured, Counted
  <2> QED BY <1>3, <1>4, <1>5, <1>10, <2>1, <2>2
          DEF Revise, GraphStep, Finish, At, storeVars
<1>11. CASE Summarize \/ TerminateSummarize \/ FinalSummary
  <2>1. /\ UNCHANGED rows
        /\ next \in {"summarize", "terminate_summarize", "final_summary"}
    BY <1>11 DEF Summarize, TerminateSummarize, FinalSummary, At
  <2>2. \/ UNCHANGED <<st, next>>
        \/ /\ next' \in {"record_metrics", "final_summary", "end"}
           /\ st'.test_metrics = st.test_metrics
           /\ st'.attempt_index = st.attempt_index
           /\ next' = "record_metrics" => next = "summarize"
    BY <1>11 DEF Summarize, TerminateSummarize, FinalSummary, At, Save,
                 SummaryUpdate, ResearchState
  <2>3. runs # 0 /\ runs' = runs
    BY <1>3, <1>11, <2>1 DEF GraphStep, Finish, At
  <2>4. Counted(st', next', runs')
    BY <2>2, <2>3 DEF Measured, Counted
  <2> QED BY <1>4, <2>1, <2>3, <2>4
<1>12. CASE RecordMetrics \/ RecordTerminateMetrics
  <2>1. PICK b : RecordLoopMetrics(st, b)
    BY <1>12 DEF RecordMetrics, RecordTerminateMetrics
  <2>2. next \in {"record_metrics", "record_terminate_metrics"}
    BY <1>12 DEF RecordMetrics, RecordTerminateMetrics, At
  <2>3. \/ UNCHANGED <<st, next>>
        \/ next' \in {"end", "terminate_summarize"} /\ st' = st
    BY <1>12 DEF RecordMetrics, RecordTerminateMetrics, Save
  <2>4. runs # 0 /\ runs' = runs
    BY <1>3, <1>12, <2>2 DEF GraphStep, Finish, At
  <2>5. MetricsOfAttempt'
    BY <2>1, <2>2, <2>4, RecordMeasures DEF Measured, Counted
  <2>6. Counted(st', next', runs')
    BY <2>3, <2>4 DEF Measured, Counted
  <2> QED BY <2>4, <2>5, <2>6 DEF Measured
<1> QED
  BY <1>1, <1>2, <1>6, <1>7, <1>8, <1>9, <1>10, <1>11, <1>12
     DEF Next, GraphStep

\* In a first run the row of attempt i has the metrics of the i-th test.
THEOREM MetricsRight == Spec => []MetricsOfAttempt
<1>1. Init => Measured
  BY DEF Init, InitialState, Measured, Counted, MetricsOfAttempt
<1>2. Measured => MetricsOfAttempt
  BY DEF Measured
<1> QED BY <1>1, <1>2, MeasuredNext, Invariance, PTL DEF Spec
-----------------------------------------------------------------------------
(* The run comes nearer to its end with every step.                         *)

\* The checkpoints left are a number, of those that fit their node.
LEMMA DistanceType ==
  ASSUME NEW n, NEW s \in ResearchState, Fits(s, n)
  PROVE  /\ Distance(n, s) \in Nat
         /\ n \in LoopNodes =>
              /\ Distance(n, s) =
                   4 * (s.max_loops - s.attempt_index) + LoopRank(n)
              /\ Distance(n, s) >= 4
<1>1. s.max_loops \in Nat /\ s.attempt_index \in Nat
  BY MaxFacts DEF ResearchState
<1>2. CASE n \in LoopNodes
  <2>1. s.max_loops - s.attempt_index >= 1 /\ s.max_loops - s.attempt_index \in Nat
    BY <1>1, <1>2 DEF Fits
  <2>2. LoopRank(n) \in 0 .. 3
    BY DEF LoopRank
  <2>3. Distance(n, s) = 4 * (s.max_loops - s.attempt_index) + LoopRank(n)
    BY <1>2 DEF Distance, LoopNodes
  <2> QED BY <2>1, <2>2, <2>3
<1>3. CASE n \notin LoopNodes
  BY <1>3 DEF Distance
<1> QED BY <1>2, <1>3

\* A node that completes leaves fewer of them.
LEMMA Nearer ==
  ASSUME TypeOK, Fits(st, next), NEW s \in ResearchState,
         NEW n \in Nodes \cup {"end"}, Fits(s, n), s.max_loops = st.max_loops,
         \/ /\ <<next, n>> \in {<<"plan", "implement">>, <<"implement", "test">>,
                                <<"test", "analyze">>, <<"revise", "implement">>}
            /\ s.attempt_index = st.attempt_index
         \/ /\ next = "analyze"
            /\ n \in {"revise", "summarize", "record_terminate_metrics"}
            /\ s.attempt_index = st.attempt_index + 1
         \/ <<next, n>> \in {<<"summarize", "record_metrics">>,
                             <<"record_metrics", "end">>,
                             <<"record_terminate_metrics", "terminate_summarize">>,
                             <<"terminate_summarize", "final_summary">>,
                             <<"final_summary", "end">>}
  PROVE  Distance(n, s) < Distance(next, st)
<1> st \in ResearchState
  BY DEF TypeOK
<1>1. /\ st.max_loops \in Nat /\ st.attempt_index \in Nat
      /\ s.max_loops \in Nat /\ s.attempt_index \in Nat
  BY MaxFacts DEF ResearchState
<1>2. CASE /\ <<next, n>> \in {<<"plan", "implement">>, <<"implement", "test">>,
                               <<"test", "analyze">>, <<"revise", "implement">>}
           /\ s.attempt_index = st.attempt_index
  <2>1. next \in LoopNodes /\ n \in LoopNodes /\ LoopRank(n) < LoopRank(next)
    BY <1>2 DEF LoopNodes, LoopRank
  <2>2. LoopRank(n) \in Nat /\ LoopRank(next) \in Nat
    BY DEF LoopRank
  <2> QED BY <1>1, <1>2, <2>1, <2>2, DistanceType
<1>3. CASE /\ next = "analyze"
           /\ n \in {"revise", "summarize", "record_terminate_metrics"}
           /\ s.attempt_index = st.attempt_index + 1
  <2>1. /\ next \in LoopNodes /\ LoopRank(next) = 0
        /\ Distance(next, st) = 4 * (st.max_loops - st.attempt_index)
        /\ Distance(next, st) >= 4
    BY <1>1, <1>3, DistanceType DEF LoopNodes, LoopRank
  <2>2. CASE n = "revise"
    <3>1. LoopRank(n) = 3 /\ n \in LoopNodes
      BY <2>2 DEF LoopRank, LoopNodes
    <3>2. Distance(n, s) = 4 * (s.max_loops - s.attempt_index) + 3
      BY <3>1, DistanceType
    <3> QED BY <1>1, <1>3, <2>1, <3>2
  <2>3. CASE n # "revise"
    <3>1. Distance(n, s) <= 3
      BY <1>3, <2>3 DEF Distance, LoopNodes
    <3> QED BY <2>1, <3>1, DistanceType
  <2> QED BY <2>2, <2>3
<1>4. CASE <<next, n>> \in {<<"summarize", "record_metrics">>,
                            <<"record_metrics", "end">>,
                            <<"record_terminate_metrics", "terminate_summarize">>,
                            <<"terminate_summarize", "final_summary">>,
                            <<"final_summary", "end">>}
  BY <1>4 DEF Distance, LoopNodes
<1> QED BY <1>2, <1>3, <1>4

\* A checkpoint of a node: where it leads, and that it leads nearer.
Advances ==
  /\ mode = "running" /\ mode' = "running" /\ answer' = "none"
  /\ stops' = stops
  /\ Distance(next', st') < Distance(next, st)

\* The steps between two checkpoints.
Delays ==
  /\ UNCHANGED <<st, next>>
  /\ \/ /\ mode = "running" /\ stops < MaxStops
        /\ stops' = stops + 1 /\ mode' = "stopped"
     \/ /\ mode = "running" /\ answer = "none"
        /\ stops' = stops /\ mode' = "waiting"
     \/ /\ mode \in {"waiting", "stopped"}
        /\ stops' = stops /\ mode' = "running" /\ answer' \in Decisions
     \/ /\ mode = "running"
        /\ stops' = stops /\ mode' = "idle"

\* Each step of a run is one or the other.
LEMMA RunMoves ==
  ASSUME TypeOK, Fits(st, next), [Next]_vars, runs' = runs
  PROVE  Advances \/ Delays \/ UNCHANGED vars
<1> USE PluginsAssumption, MaxLoopsAssumption
<1> st \in ResearchState /\ plugin \in AllPlugins /\ runs \in Nat
  BY DEF TypeOK
<1>0. TypeOK' /\ Fits(st, next)'
  BY InvNext
<1>1. CASE StartRun
  BY <1>1 DEF StartRun
<1>2. CASE Operator
  BY <1>2 DEF Operator, Resume, Delays
<1>3. CASE Stop \/ AwaitApproval \/ Finish
  BY <1>3 DEF Stop, AwaitApproval, Finish, At, Delays
<1>4. ASSUME NEW s, NEW n, At(next), Save(s, n), mode = "running",
             /\ \/ /\ <<next, n>> \in {<<"plan", "implement">>,
                                 <<"implement", "test">>, <<"test", "analyze">>,
                                 <<"revise", "implement">>}
                   /\ s.attempt_index = st.attempt_index
                \/ /\ next = "analyze"
                   /\ n \in {"revise", "summarize", "record_terminate_metrics"}
                   /\ s.attempt_index = st.attempt_index + 1
                \/ <<next, n>> \in {<<"summarize", "record_metrics">>,
                     <<"record_metrics", "end">>,
                     <<"record_terminate_metrics", "terminate_summarize">>,
                     <<"terminate_summarize", "final_summary">>,
                     <<"final_summary", "end">>}
             /\ s.max_loops = st.max_loops
      PROVE  Advances \/ Delays
  <2>1. CASE st' = s /\ next' = n /\ answer' = "none" /\ UNCHANGED <<mode, stops>>
    <3>1. st' \in ResearchState /\ Fits(st', next')
      BY <1>0 DEF TypeOK, Fits
    <3>2. n \in Nodes \cup {"end"}
      BY <1>4 DEF Nodes
    <3>3. Distance(n, s) < Distance(next, st)
      BY <1>4, <2>1, <3>1, <3>2, Nearer
    <3> QED BY <1>4, <2>1, <3>3 DEF Advances
  <2>2. CASE stops < MaxStops /\ stops' = stops + 1 /\ mode' = "stopped"
             /\ UNCHANGED <<st, next>>
    BY <1>4, <2>2 DEF Delays
  <2> QED BY <1>4, <2>1, <2>2 DEF Save
<1>5. CASE Plan
  <2>1. st.last_result \notin {"PASS", "TERMINATE"} /\ next = "plan" /\ At(next)
    BY <1>5 DEF Plan, At, Fits, LoopNodes
  <2>2. /\ PlanUpdate(plugin, st).attempt_index = st.attempt_index
        /\ PlanUpdate(plugin, st).max_loops = st.max_loops
    BY <2>1, PlanUpdateFacts
  <2> QED BY <1>4, <1>5, <2>1, <2>2 DEF Plan, At
<1>6. CASE RejectPlan
  <2> DEFINE s == [st EXCEPT !.last_result = "TERMINATE",
                             !.last_reason = "rejected",
                             !.needs_human_approval = FALSE]
  <2>1. s.attempt_index = st.attempt_index /\ s.max_loops = st.max_loops
    BY DEF ResearchState
  <2> QED BY <1>4, <1>6, <2>1 DEF RejectPlan, At
<1>7. CASE Implement
  <2> DEFINE s == [st EXCEPT !.needs_human_approval = FALSE]
  <2>1. s.attempt_index = st.attempt_index /\ s.max_loops = st.max_loops
    BY DEF ResearchState
  <2> QED BY <1>4, <1>7, <2>1 DEF Implement, At
<1>8. CASE Test
  <2> DEFINE k == st.attempt_count + 1
             s == [st EXCEPT !.attempt_count = k,
                             !.test_metrics = [run |-> runs, test |-> k]]
  <2>1. s.attempt_index = st.attempt_index /\ s.max_loops = st.max_loops
    BY DEF ResearchState
  <2> QED BY <1>4, <1>8, <2>1 DEF Test, At
<1>9. CASE Analyze
  <2>1. PICK v \in Verdicts(plugin, st) : Save(Judge(st, v), Route(Judge(st, v)))
    BY <1>9 DEF Analyze
  <2>2. next = "analyze" /\ mode = "running" /\ st.attempt_index < st.max_loops
    BY <1>9 DEF Analyze, At, Fits, LoopNodes
  <2>3. /\ Judge(st, v).attempt_index = st.attempt_index + 1
        /\ Judge(st, v).max_loops = st.max_loops
    BY <2>2, VerdictsFacts, JudgeFacts
  <2>4. Route(Judge(st, v)) \in {"revise", "summarize", "record_terminate_metrics"}
    BY DEF Route
  <2> QED BY <1>4, <2>1, <2>2, <2>3, <2>4 DEF At
<1>10. CASE Revise
  <2>1. PICK s \in ReviseUpdates(plugin, st) : Save(s, "implement")
    BY <1>10 DEF Revise
  <2>2. s.attempt_index = st.attempt_index /\ s.max_loops = st.max_loops
    BY ReviseFacts
  <2> QED BY <1>4, <1>10, <2>1, <2>2 DEF Revise, At
<1>11. CASE Summarize
  <2>1. SummaryUpdate.max_loops = st.max_loops
    BY DEF SummaryUpdate, ResearchState
  <2> QED BY <1>4, <1>11, <2>1 DEF Summarize, At
<1>12. CASE RecordMetrics \/ RecordTerminateMetrics \/ FinalSummary
  BY <1>4, <1>12 DEF RecordMetrics, RecordTerminateMetrics, FinalSummary, At
<1>13. CASE TerminateSummarize
  <2> DEFINE s == [st EXCEPT !.last_reason = "summary",
                             !.artifacts = @ \cup {"terminate_summary"}]
  <2>1. s.max_loops = st.max_loops
    BY DEF ResearchState
  <2> QED BY <1>4, <1>13, <2>1 DEF TerminateSummarize, At
<1> QED
  BY <1>1, <1>2, <1>3, <1>5, <1>6, <1>7, <1>8, <1>9, <1>10, <1>11, <1>12,
     <1>13 DEF Next, GraphStep

LEMMA StopsBounded ==
  /\ Init => stops <= MaxStops
  /\ TypeOK /\ Fits(st, next) /\ stops <= MaxStops /\ [Next]_vars
       => stops' <= MaxStops
<1>1. Init => stops <= MaxStops
  BY BoundsAssumption DEF Init
<1>2. ASSUME TypeOK, Fits(st, next), stops <= MaxStops, [Next]_vars
      PROVE  stops' <= MaxStops
  <2>1. stops' = stops \/ (stops < MaxStops /\ stops' = stops + 1)
    <3>1. CASE StartRun
      BY <3>1 DEF StartRun
    <3>2. CASE runs' = runs
      BY <1>2, <3>2, RunMoves DEF Advances, Delays, vars
    <3> QED BY <1>2, <3>1, <3>2
      DEF Next, vars, GraphStep, Operator, Resume, Stop, Plan, AwaitApproval,
          RejectPlan, Implement, Test, Analyze, Revise, Summarize,
          RecordMetrics, RecordTerminateMetrics, TerminateSummarize,
          FinalSummary, Finish
  <2> QED BY <1>2, <2>1, BoundsAssumption DEF TypeOK
<1> QED BY <1>1, <1>2

\* The arithmetic of Effort: four for a checkpoint is more than a pause and
\* its answer give back, two for a crash more than the resume.
LEMMA EffortFalls ==
  ASSUME NEW d \in Nat, NEW e \in Nat, NEW w \in Nat, NEW v \in Nat,
         NEW m \in Nat, NEW i \in Nat, NEW j \in Nat, j <= m,
         \/ e < d /\ j = i /\ w >= 1 /\ v = 3
         \/ e = d /\ j = i + 1 /\ v <= w + 1
         \/ e = d /\ j = i /\ v < w
  PROVE  /\ 0 <= 4 * e + 2 * (m - j) + v
         /\ 4 * e + 2 * (m - j) + v < 4 * d + 2 * (m - i) + w
<1>1. m - j \in Nat
  OBVIOUS
<1> QED BY <1>1

\* Every step of a run brings it nearer to its end (graph.py:90, 316).
THEOREM RunNearsEnd == Spec => NearsEnd
<1>1. ASSUME TypeOK, Fits(st, next), stops <= MaxStops, [Next]_vars,
             runs' = runs, ~UNCHANGED vars
      PROVE  0 <= Effort' /\ Effort' < Effort
  <2> DEFINE d == Distance(next, st)
             e == Distance(next', st')
  <2>1. d \in Nat /\ e \in Nat
    <3>1. TypeOK' /\ Fits(st', next')
      BY <1>1, InvNext DEF Fits
    <3> QED BY <1>1, <3>1, DistanceType DEF TypeOK
  <2>2. /\ stops \in Nat /\ stops' \in Nat /\ MaxStops \in Nat
        /\ stops' <= MaxStops
    BY <1>1, InvNext, StopsBounded, BoundsAssumption DEF TypeOK
  <2> DEFINE w == CASE mode = "running" -> IF answer = "none" THEN 3 ELSE 1
                    [] mode \in {"waiting", "stopped"} -> 2
                    [] OTHER -> 0
             v == CASE mode' = "running" -> IF answer' = "none" THEN 3 ELSE 1
                    [] mode' \in {"waiting", "stopped"} -> 2
                    [] OTHER -> 0
  <2>3. /\ Effort = 4 * d + 2 * (MaxStops - stops) + w
        /\ Effort' = 4 * e + 2 * (MaxStops - stops') + v
    BY DEF Effort
  <2>4. w \in Nat /\ v \in Nat
    OBVIOUS
  <2>5. CASE Advances
    <3>1. w >= 1 /\ v = 3 /\ e < d /\ stops' = stops
      BY <2>5 DEF Advances
    <3> HIDE DEF d, e, w, v
    <3> QED BY <2>1, <2>2, <2>3, <2>4, <3>1, EffortFalls
  <2>6. CASE Delays
    <3>1. e = d
      BY <2>6 DEF Delays
    <3>2. \/ w >= 1 /\ v = 2 /\ stops' = stops + 1
          \/ w = 3 /\ v = 2 /\ stops' = stops
          \/ w = 2 /\ v = 1 /\ stops' = stops
          \/ w >= 1 /\ v = 0 /\ stops' = stops
      BY <2>6 DEF Delays, Decisions
    <3> HIDE DEF d, e, w, v
    <3>3. \/ stops' = stops + 1 /\ v <= w + 1
          \/ stops' = stops /\ v < w
      BY <2>4, <3>2
    <3> QED BY <2>1, <2>2, <2>3, <2>4, <3>1, <3>3, EffortFalls
  <2> QED BY <1>1, <2>5, <2>6, RunMoves
<1>2. TypeOK /\ Fits(st, next) /\ stops <= MaxStops /\ [Next]_vars
        => [runs' = runs => 0 <= Effort' /\ Effort' < Effort]_vars
  BY <1>1
<1>3. /\ Init => stops <= MaxStops
      /\ TypeOK /\ Fits(st, next) /\ stops <= MaxStops /\ [Next]_vars
           => (stops <= MaxStops)'
  BY StopsBounded
<1> QED BY <1>2, <1>3, Invariance, PTL DEF Spec, NearsEnd
-----------------------------------------------------------------------------
(* What the server knows of the thread.                                     *)

\* Approval is wanted before implement only.
GateClosed == next # "implement" => ~st.needs_human_approval

\* What a step does to the gate: nothing, a new run, or one of the moves.
LEMMA GateFacts ==
  ASSUME TypeOK, Fits(st, next), GateClosed, [Next]_vars
  PROVE  \/ UNCHANGED <<st, next>>
         \/ /\ next' = "plan" /\ ~st'.needs_human_approval
            /\ st'.last_result = "UNKNOWN"
         \/ /\ next = "plan" /\ next' = "implement"
            /\ st'.needs_human_approval = NeedsApproval(plugin)
         \/ /\ next = "implement" /\ next' = "test"
            /\ ~st'.needs_human_approval
         \/ /\ next \in {"test", "analyze", "revise"}
            /\ next' \in Nodes \ {"plan"}
            /\ ~st'.needs_human_approval
         \/ /\ next \in Nodes \ LoopNodes
            /\ next' \in (Nodes \ LoopNodes) \cup {"end"}
            /\ ~st'.needs_human_approval
            /\ st'.last_result = st.last_result
<1> USE PluginsAssumption
<1> st \in ResearchState /\ plugin \in AllPlugins
  BY DEF TypeOK
<1>1. CASE StartRun
  BY <1>1 DEF StartRun, InitialState
<1>2. CASE Operator \/ Stop \/ AwaitApproval \/ Finish \/ UNCHANGED vars
  BY <1>2 DEF Operator, Resume, Stop, AwaitApproval, Finish, vars, threadVars
<1>3. CASE Plan
  <2>1. /\ next = "plan" /\ st.needs_human_approval = FALSE
        /\ NeedsApproval(plugin) \in BOOLEAN
        /\ plugin = "quant_alpha" => NeedsApproval(plugin) = FALSE
    BY <1>3 DEF Plan, At, GateClosed, NeedsApproval, ResearchState
  <2>2. PlanUpdate(plugin, st).needs_human_approval = NeedsApproval(plugin)
    BY <2>1 DEF PlanUpdate, ResearchState
  <2> QED BY <1>3, <2>1, <2>2 DEF Plan, Save
<1>4. CASE RejectPlan
  BY <1>4 DEF RejectPlan, At, Save, ResearchState
<1>5. CASE Implement
  BY <1>5 DEF Implement, At, Save, ResearchState
<1>6. CASE Test
  <2>1. ~st.needs_human_approval /\ next = "test"
    BY <1>6 DEF Test, At, GateClosed
  <2> QED BY <1>6, <2>1 DEF Test, Save, ResearchState, Nodes
<1>7. CASE Analyze
  <2>1. PICK v \in Verdicts(plugin, st) : Save(Judge(st, v), Route(Judge(st, v)))
    BY <1>7 DEF Analyze
  <2>2. ~st.needs_human_approval /\ next = "analyze"
    BY <1>7 DEF Analyze, At, GateClosed
  <2>3. ~Judge(st, v).needs_human_approval
    BY <2>2 DEF Judge, ResearchState
  <2>4. Route(Judge(st, v)) \in Nodes \ {"plan"}
    BY DEF Route, Nodes
  <2> QED BY <2>1, <2>2, <2>3, <2>4 DEF Save
<1>8. CASE Revise
  <2>1. PICK s \in ReviseUpdates(plugin, st) : Save(s, "implement")
    BY <1>8 DEF Revise
  <2>2. ~st.needs_human_approval /\ next = "revise"
    BY <1>8 DEF Revise, At, GateClosed
  <2>3. ~s.needs_human_approval
    BY <2>1, <2>2 DEF ReviseUpdates, ResearchState
  <2> QED BY <2>1, <2>2, <2>3 DEF Save, Nodes
<1>9. CASE Summarize
  BY <1>9 DEF Summarize, SummaryUpdate, At, Save, ResearchState, Nodes,
              LoopNodes, GateClosed
<1>10. CASE RecordMetrics \/ RecordTerminateMetrics \/ FinalSummary
  BY <1>10 DEF RecordMetrics, RecordTerminateMetrics, FinalSummary, At, Save,
               Nodes, LoopNodes, GateClosed
<1>11. CASE TerminateSummarize
  BY <1>11 DEF TerminateSummarize, At, Save, ResearchState, Nodes, LoopNodes,
               GateClosed
<1> QED
  BY <1>1, <1>2, <1>3, <1>4, <1>5, <1>6, <1>7, <1>8, <1>9, <1>10, <1>11
     DEF Next, GraphStep

LEMMA GateNext ==
  ASSUME TypeOK, Fits(st, next), GateClosed, [Next]_vars PROVE GateClosed'
BY GateFacts DEF GateClosed

\* Every checkpoint is a step of the thread's contract or shows it nothing.
LEMMA ThreadStep ==
  ASSUME TypeOK, Fits(st, next), GateClosed, [Next]_vars
  PROVE  [Thread!Next]_(Thread!contractVars)
<1>0. NeedsApproval(plugin') = NeedsApproval(plugin)
  BY PluginFixed
<1> USE DEF Pending, Outcome
<1>1. CASE UNCHANGED <<st, next>>
  BY <1>0, <1>1 DEF Thread!contractVars
<1>2. CASE next' = "plan"
  BY <1>0, <1>2 DEF Thread!Next, Thread!Begin
<1>3. CASE /\ next = "plan" /\ next' = "implement"
           /\ st'.needs_human_approval = NeedsApproval(plugin)
  BY <1>0, <1>3 DEF Thread!Next, Thread!Planned, NeedsApproval
<1>4. CASE /\ next = "implement" /\ next' = "test"
           /\ ~st'.needs_human_approval
  <2>1. CASE st.needs_human_approval
    BY <1>0, <1>4, <2>1 DEF Thread!Next, Thread!Opened
  <2>2. CASE ~st.needs_human_approval
    BY <1>0, <1>4, <2>2 DEF Thread!contractVars
  <2> QED BY <2>1, <2>2
<1>5. CASE /\ next \in {"test", "analyze", "revise"}
           /\ next' \in Nodes \ {"plan"}
           /\ ~st'.needs_human_approval
  BY <1>0, <1>5 DEF Thread!contractVars, Nodes
<1>6. CASE /\ next \in Nodes \ LoopNodes
           /\ next' \in (Nodes \ LoopNodes) \cup {"end"}
           /\ st'.last_result = st.last_result
  <2>1. CASE next' = "end"
    <3>1. st'.last_result \in {"PASS", "TERMINATE"}
      BY <2>1, InvNext DEF Fits
    <3> QED
      BY <1>0, <1>6, <2>1, <3>1
         DEF Thread!Next, Thread!Judged, Thread!Verdict, Nodes, LoopNodes
  <2>2. CASE next' # "end"
    BY <1>0, <1>6, <2>2 DEF Thread!contractVars, Nodes, LoopNodes
  <2> QED BY <2>1, <2>2
<1> QED BY <1>1, <1>2, <1>3, <1>4, <1>5, <1>6, GateFacts

\* The graph is what ProjectThread takes it for (graph.py:487-518).
THEOREM ThreadImplemented == Spec => ImplementsThread
<1>1. Init => GateClosed /\ Thread!Init
  BY DEF Init, InitialState, GateClosed, Pending, Outcome, Thread!Init,
         NeedsApproval
<1>2. TypeOK /\ Fits(st, next) /\ GateClosed /\ [Next]_vars
        => GateClosed' /\ [Thread!Next]_(Thread!contractVars)
  BY GateNext, ThreadStep
<1> QED
  BY <1>1, <1>2, Invariance, PTL DEF Spec, ImplementsThread, Thread!Spec

-----------------------------------------------------------------------------
(* The pause.                                                               *)

\* Where nothing was ever cut short, whoever answers was asked.
Asked ==
  stops = 0 =>
    /\ mode # "stopped"
    /\ mode = "waiting" \/ answer # "none" => paused

LEMMA AskedNext ==
  ASSUME TypeOK, Asked, [Next]_vars PROVE Asked'
<1> USE DEF Asked, TypeOK
<1>1. CASE StartRun
  BY <1>1 DEF StartRun
<1>2. CASE Operator
  BY <1>2 DEF Operator, Resume
<1>3. CASE Stop \/ AwaitApproval \/ Finish \/ UNCHANGED vars
  BY <1>3 DEF Stop, AwaitApproval, Finish, At, vars, threadVars
<1>4. ASSUME NEW s, NEW n, Save(s, n), UNCHANGED paused, mode = "running"
      PROVE  Asked'
  BY <1>4 DEF Save
<1>5. CASE Plan \/ RejectPlan \/ Implement \/ Test
  BY <1>4, <1>5 DEF Plan, RejectPlan, Implement, Test, At
<1>6. CASE Analyze \/ Revise
  BY <1>4, <1>6 DEF Analyze, Revise, At
<1>7. CASE Summarize \/ RecordMetrics \/ RecordTerminateMetrics
           \/ TerminateSummarize \/ FinalSummary
  BY <1>4, <1>7 DEF Summarize, RecordMetrics, RecordTerminateMetrics,
                    TerminateSummarize, FinalSummary, At
<1> QED
  BY <1>1, <1>2, <1>3, <1>5, <1>6, <1>7 DEF Next, GraphStep

\* Without a crash or an exception no plan that needs approval is implemented
\* before it was put to the operator (server.py:164).
THEOREM PausesFirst == Spec => PausesUnlessCut
<1>1. Init => Asked
  BY DEF Init, Asked
<1>2. ASSUME TypeOK, Asked, [Next]_vars,
             next = "implement", next' = "test", st.needs_human_approval,
             stops = 0
      PROVE  paused
  <2>1. next' # next
    BY <1>2
  <2>2. RejectPlan \/ Implement
    BY <1>2, <2>1
       DEF Next, GraphStep, StartRun, Operator, Resume, Stop, Plan,
           AwaitApproval, Test, Analyze, Revise, Summarize, RecordMetrics,
           RecordTerminateMetrics, TerminateSummarize, FinalSummary, Finish,
           At, vars, threadVars
  <2>3. answer # "none"
    BY <1>2, <2>2 DEF RejectPlan, Implement, Decisions
  <2> QED BY <1>2, <2>3 DEF Asked
<1>3. TypeOK /\ Asked /\ [Next]_vars
        => Asked'
           /\ [ /\ next = "implement" /\ next' = "test"
                /\ st.needs_human_approval /\ stops = 0
                => paused ]_vars
  BY <1>2, AskedNext
<1> QED BY <1>1, <1>3, TypeCorrect, PTL DEF Spec, PausesUnlessCut
=============================================================================
