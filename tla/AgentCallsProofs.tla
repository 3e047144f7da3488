--------------------------- MODULE AgentCallsProofs ---------------------------
(***************************************************************************)
(* Proofs about AgentCalls, for every set of tasks and every number of     *)
(* workers, retries and calls.                                             *)
(***************************************************************************)
EXTENDS AgentCalls, TLAPS

\* A task at a call knows what the call is for, and one that waits for its
\* quota has an attempt left.
InOrder ==
  \A c \in Callers :
    /\ Calling(c) => /\ c \in Reviews => call[c].op = "review"
                     /\ c \in Researches => call[c].op \in NodeOps
    /\ call[c].at = "sleep" => call[c].attempt < MaxRetries

-----------------------------------------------------------------------------
LEMMA NoCallType == NoCall \in Call
BY BoundsAssumption DEF Call, NoCall, Exits

LEMMA RowType ==
  ASSUME TypeOK, NEW c \in Callers, NEW row \in Call,
         call' = [call EXCEPT ![c] = row]
  PROVE  call' \in [Callers -> Call]
BY DEF TypeOK

LEMMA FindsType ==
  ASSUME TypeOK, NEW c \in Callers, NEW name \in Names
  PROVE  <<Dir(c), name>> \in Paths /\ {Finds(c, name)} \in SUBSET Stamp
BY DEF TypeOK, Finds, Dir, Paths

LEMMA ReturnType ==
  ASSUME TypeOK, NEW c \in Callers, NEW seen \in SUBSET Stamp,
         NEW result \in {"read", "passed", "asked"}, Return(c, result, seen)
  PROVE  call' \in [Callers -> Call]
<1> DEFINE returned ==
      [call[c] EXCEPT !.at = "ready", !.result = result, !.seen = seen]
<1>1. call[c] \in Call
  BY DEF TypeOK
<1>2. returned \in Call
  BY <1>1 DEF Call
<1>3. call' = [call EXCEPT ![c] = returned]
  BY DEF Return
<1> QED
  BY <1>2, <1>3, RowType

LEMMA WithoutType ==
  ASSUME TypeOK, NEW c \in Callers PROVE Without(c) \in Call
<1>1. call[c] \in Call
  BY DEF TypeOK
<1> QED
  BY <1>1, NoCallType DEF Without, Call

LEMMA ReturnWithoutType ==
  ASSUME TypeOK, NEW c \in Callers, NEW result \in {"asked", "fallback"},
         ReturnWithout(c, result)
  PROVE  call' \in [Callers -> Call]
<1> DEFINE returned ==
      [Without(c) EXCEPT !.at = "ready", !.result = result]
<1>1. returned \in Call
  BY WithoutType DEF Call
<1>2. call' = [call EXCEPT ![c] = returned]
  BY DEF ReturnWithout
<1> QED
  BY <1>1, <1>2, RowType

LEMMA FailsType ==
  ASSUME TypeOK, NEW c \in Callers, NEW seen \in SUBSET Stamp, Fails(c, seen)
  PROVE  call' \in [Callers -> Call]
<1> DEFINE failed ==
      [call[c] EXCEPT !.at = "gone", !.result = "failed", !.seen = seen]
<1>1. call[c] \in Call
  BY DEF TypeOK
<1>2. failed \in Call
  BY <1>1 DEF Call
<1>3. call' = [call EXCEPT ![c] = failed]
  BY DEF Fails
<1> QED
  BY <1>2, <1>3, RowType

LEMMA ByRuleType ==
  ASSUME TypeOK, NEW c \in Callers, ByRule(c)
  PROVE  call' \in [Callers -> Call]
BY ReturnWithoutType, FailsType DEF ByRule

LEMMA InitType == Init => TypeOK /\ InOrder
BY NoCallType, CallersAssumption
DEF Init, TypeOK, InOrder, Calling, NoCall, Stamp, Missing

LEMMA NextType ==
  ASSUME TypeOK, InOrder, [Next]_vars PROVE TypeOK'
<1>1. ASSUME NEW c \in Callers, Take(c) PROVE TypeOK'
  <2> DEFINE taken == [call[c] EXCEPT !.at = "ready"]
  <2>1. call[c] \in Call
    BY DEF TypeOK
  <2>3. taken \in Call
    BY <2>1 DEF Call
  <2>4. call' = [call EXCEPT ![c] = taken]
    BY <1>1 DEF Take
  <2>5. call' \in [Callers -> Call]
    BY <2>3, <2>4, RowType
  <2> QED
    BY <1>1, <2>5 DEF Take, TypeOK
<1>2. ASSUME NEW c \in Callers, NEW op \in OpsOf(c), Begin(c, op) PROVE TypeOK'
  <2>1. op \in NodeOps \cup {"none", "review"}
    BY DEF OpsOf, Following
  <2>2. call[c].nth + 1 \in Nat
    BY DEF TypeOK, Call
  <2>3. Begun(c, op) \in Call
    BY <2>1, <2>2, NoCallType DEF Call, Begun
  <2>4. ASSUME NEW d \in Callers PROVE Beside(c, op, d) \in Call
    <3>1. call[d] \in Call
      BY DEF TypeOK
    <3> QED
      BY <3>1 DEF Call, Beside
  <2>6. call' \in [Callers -> Call]
    BY <1>2, <2>3, <2>4 DEF Begin
  <2>7. file' \in [Paths -> Stamp]
    BY <1>2 DEF Begin, Cleaned, TypeOK, Stamp, Missing
  <2> QED
    BY <2>6, <2>7 DEF TypeOK
<1>3. ASSUME NEW c \in Callers, NEW name \in Names, Write(c, name) PROVE TypeOK'
  <2> DEFINE written == [call[c] EXCEPT !.wrote = call[c].wrote \cup {name}]
  <2>1. call[c] \in Call
    BY DEF TypeOK
  <2>2. written \in Call
    BY <2>1 DEF Call
  <2>3. call' = [call EXCEPT ![c] = written]
    BY <1>3 DEF Write
  <2>4. call' \in [Callers -> Call]
    BY <2>2, <2>3, RowType
  <2>5. Own(c) \in Stamp
    BY <2>1 DEF Own, Stamp, Call
  <2>6. file' \in [Paths -> Stamp]
    BY <1>3, <2>5 DEF Write, TypeOK
  <2> QED
    BY <2>4, <2>6 DEF TypeOK
<1>4. ASSUME NEW c \in Callers, NEW exit \in Exits \ {"none"}, Exit(c, exit) PROVE TypeOK'
  <2> DEFINE next == AfterExit(exit, call[c].attempt)
             row == IF next = "raise" THEN Without(c) ELSE call[c]
             ended == [row EXCEPT !.at = next, !.exit = exit,
                                  !.attempt = IF next = "sleep" THEN row.attempt ELSE 0]
  <2>1. row \in Call
    BY WithoutType DEF TypeOK
  <2>2. next \in {"read", "sleep", "raise"} /\ 0 \in 0 .. MaxRetries
    BY BoundsAssumption DEF AfterExit
  <2>4. call' = [call EXCEPT ![c] = ended]
    BY <1>4 DEF Exit
  <2> HIDE DEF next, row
  <2>3. ended \in Call
    BY <2>1, <2>2 DEF Call
  <2>5. call' \in [Callers -> Call]
    BY <2>3, <2>4, RowType
  <2> QED
    BY <1>4, <2>5 DEF Exit, TypeOK
<1>5. ASSUME NEW c \in Callers, Wake(c) PROVE TypeOK'
  <2> DEFINE again ==
        [call[c] EXCEPT !.at = "process", !.exit = "none", !.attempt = call[c].attempt + 1]
  <2>1. call[c] \in Call
    BY DEF TypeOK
  <2>2. call[c].attempt + 1 \in 0 .. MaxRetries
    BY <1>5, BoundsAssumption DEF Wake, InOrder, TypeOK, Call
  <2>3. again \in Call
    BY <2>1, <2>2 DEF Call, Exits
  <2>4. call' = [call EXCEPT ![c] = again]
    BY <1>5 DEF Wake
  <2>5. call' \in [Callers -> Call]
    BY <2>3, <2>4, RowType
  <2> QED
    BY <1>5, <2>5 DEF Wake, TypeOK
<1>6. ASSUME NEW c \in Callers, Fallback(c), UNCHANGED file PROVE TypeOK'
  BY <1>6, ByRuleType DEF Fallback, TypeOK
<1>7. ASSUME NEW c \in Callers, NodeFails(c), UNCHANGED file PROVE TypeOK'
  BY <1>7, FailsType DEF NodeFails, TypeOK
<1>8. ASSUME NEW c \in Callers, ReadAnswer(c), UNCHANGED file PROVE TypeOK'
  <2> DEFINE name == AnswerFile(call[c].op)
      again == [call[c] EXCEPT !.at = "reread", !.seen = {Finds(c, name)}]
  <2>1. call[c] \in Call
    BY DEF TypeOK
  <2>2. name \in Names
    BY <1>8, OpsAssumption DEF ReadAnswer, InOrder, Calling, AnswerFile, Names
  <2>3. {Finds(c, name)} \in SUBSET Stamp
    BY <2>2, FindsType
  <2>4. again \in Call
    BY <2>1, <2>3 DEF Call
  <2>5. \/ ByRule(c) \/ Return(c, "read", {Finds(c, name)})
        \/ Fails(c, {Finds(c, name)}) \/ call' = [call EXCEPT ![c] = again]
    BY <1>8 DEF ReadAnswer
  <2>6. call' \in [Callers -> Call]
    BY <2>3, <2>4, <2>5, RowType, ReturnType, ByRuleType, FailsType
  <2> QED
    BY <1>8, <2>6 DEF TypeOK
<1>9. ASSUME NEW c \in Callers, ReadParams(c), UNCHANGED file PROVE TypeOK'
  <2>1. call[c].seen \cup {Finds(c, ParamsFile)} \in SUBSET Stamp
    <3>1. ParamsFile \in Names
      BY DEF ParamsFile, Names
    <3>2. {Finds(c, ParamsFile)} \in SUBSET Stamp
      BY <3>1, FindsType
    <3>3. call[c].seen \in SUBSET Stamp
      BY DEF TypeOK, Call
    <3> QED
      BY <3>2, <3>3
  <2>2. call' \in [Callers -> Call]
    BY <1>9, <2>1, ReturnType, ByRuleType, FailsType DEF ReadParams
  <2> QED
    BY <1>9, <2>2 DEF TypeOK
<1>10. ASSUME NEW c \in Callers, AskAnyway(c), UNCHANGED file PROVE TypeOK'
  BY <1>10, ReturnWithoutType DEF AskAnyway, TypeOK
<1>11. ASSUME NEW c \in Callers, ReadStatus(c), UNCHANGED file PROVE TypeOK'
  <2>1. "status_pass.txt" \in Names /\ "status_need_update.txt" \in Names
    BY DEF Names
  <2>2. {Finds(c, "status_pass.txt")} \in SUBSET Stamp
        /\ {Finds(c, "status_need_update.txt")} \in SUBSET Stamp
    BY <2>1, FindsType
  <2>3. call' \in [Callers -> Call]
    BY <1>11, <2>2, ReturnType, ReturnWithoutType DEF ReadStatus
  <2> QED
    BY <1>11, <2>3 DEF TypeOK
<1>12. ASSUME NEW c \in Callers, Leave(c), UNCHANGED file PROVE TypeOK'
  <2> DEFINE gone == [NoCall EXCEPT !.at = "gone", !.nth = call[c].nth]
  <2>1. gone \in Call
    BY NoCallType DEF Call, TypeOK
  <2>2. call' = [call EXCEPT ![c] = gone]
    BY <1>12 DEF Leave
  <2> QED
    BY <1>12, <2>1, <2>2, RowType DEF TypeOK
<1>13. CASE UNCHANGED vars
  BY <1>13 DEF vars, TypeOK
<1> QED
  BY <1>1, <1>2, <1>3, <1>4, <1>5, <1>6, <1>7, <1>8, <1>9, <1>10, <1>11, <1>12, <1>13
  DEF Next, Answer, Ends

-----------------------------------------------------------------------------
(* What a return and a new call do to the calls.                           *)

LEMMA ReturnFacts ==
  ASSUME TypeOK, NEW c \in Callers, NEW seen, NEW result, Return(c, result, seen)
  PROVE  /\ \A d \in Callers : d # c => call'[d] = call[d]
         /\ call'[c].at = "ready" /\ call'[c].result = result
         /\ call'[c].seen = seen /\ call'[c].op = call[c].op
         /\ call'[c].nth = call[c].nth /\ call'[c].exit = call[c].exit
         /\ call'[c].wrote = call[c].wrote /\ call'[c].overlap = call[c].overlap
BY DEF Return, TypeOK, Call

LEMMA ReturnWithoutFacts ==
  ASSUME TypeOK, NEW c \in Callers, NEW result, ReturnWithout(c, result)
  PROVE  /\ \A d \in Callers : d # c => call'[d] = call[d]
         /\ call'[c].at = "ready" /\ call'[c].result = result
BY DEF ReturnWithout, Without, TypeOK, NoCall

LEMMA FailsFacts ==
  ASSUME TypeOK, NEW c \in Callers, NEW seen, Fails(c, seen)
  PROVE  /\ \A d \in Callers : d # c => call'[d] = call[d]
         /\ call'[c].at = "gone" /\ call'[c].result = "failed"
         /\ call'[c].seen = seen /\ call'[c].op = call[c].op
         /\ call'[c].nth = call[c].nth /\ call'[c].exit = call[c].exit
         /\ call'[c].wrote = call[c].wrote /\ call'[c].overlap = call[c].overlap
BY DEF Fails, TypeOK, Call

LEMMA ByRuleFacts ==
  ASSUME TypeOK, NEW c \in Callers, ByRule(c)
  PROVE  /\ \A d \in Callers : d # c => call'[d] = call[d]
         /\ \/ call'[c].at = "ready" /\ call'[c].result = "fallback"
            \/ /\ call'[c].at = "gone" /\ call'[c].result = "failed"
               /\ call'[c].seen = {}
BY ReturnWithoutFacts, FailsFacts DEF ByRule

LEMMA ExitFacts ==
  ASSUME TypeOK, NEW c \in Callers, NEW exit, Exit(c, exit)
  PROVE  /\ \A d \in Callers : d # c => call'[d] = call[d]
         /\ UNCHANGED file /\ call[c].at = "process"
         /\ call'[c].at = AfterExit(exit, call[c].attempt)
         /\ call'[c].at \in {"read", "sleep", "raise"} /\ call'[c].exit = exit
         /\ call'[c].op = call[c].op /\ call'[c].nth = call[c].nth
         /\ call'[c].at = "sleep" => call'[c].attempt = call[c].attempt
         /\ call'[c].at = "raise" => call'[c].result = "none"
         /\ call'[c].at # "raise" =>
              /\ call'[c].wrote = call[c].wrote /\ call'[c].seen = call[c].seen
              /\ call'[c].overlap = call[c].overlap
              /\ call'[c].result = call[c].result
<1> DEFINE next == AfterExit(exit, call[c].attempt)
           row == IF next = "raise" THEN Without(c) ELSE call[c]
           ended == [row EXCEPT !.at = next, !.exit = exit,
                                !.attempt = IF next = "sleep" THEN row.attempt ELSE 0]
<1>1. row \in Call /\ call[c] \in Call /\ call \in [Callers -> Call]
  BY WithoutType DEF TypeOK
<1>2. next \in {"read", "sleep", "raise"}
  BY DEF AfterExit
<1>3. /\ next # "raise" => row = call[c]
      /\ row.op = call[c].op /\ row.nth = call[c].nth
      /\ next = "raise" => row.result = "none"
  BY DEF Without, NoCall
<1>4. call' = [call EXCEPT ![c] = ended] /\ UNCHANGED file /\ call[c].at = "process"
  BY DEF Exit
<1> HIDE DEF next, row
<1>5. /\ ended.at = next /\ ended.exit = exit /\ ended.op = row.op
      /\ ended.nth = row.nth /\ ended.result = row.result
      /\ ended.wrote = row.wrote /\ ended.seen = row.seen
      /\ ended.overlap = row.overlap
      /\ next = "sleep" => ended.attempt = row.attempt
  BY <1>1 DEF Call
<1>6. call'[c] = ended /\ \A d \in Callers : d # c => call'[d] = call[d]
  BY <1>1, <1>4
<1> HIDE DEF ended
<1>7. next = AfterExit(exit, call[c].attempt)
  BY DEF next
<1> QED
  BY <1>2, <1>3, <1>4, <1>5, <1>6, <1>7

LEMMA BeginFacts ==
  ASSUME TypeOK, NEW c \in Callers, NEW op, Begin(c, op)
  PROVE  /\ call'[c].at = "process" /\ call'[c].op = op
         /\ call'[c].result = "none" /\ call'[c].wrote = {}
         /\ call'[c].nth = call[c].nth + 1
         /\ call'[c].overlap = \E d \in Callers : Rival(c, d) /\ call[d].op = op
BY DEF Begin, Begun, NoCall

LEMMA BeginBeside ==
  ASSUME TypeOK, NEW c \in Callers, NEW op, Begin(c, op),
         NEW d \in Callers, d # c
  PROVE  /\ call'[d].at = call[d].at /\ call'[d].op = call[d].op
         /\ call'[d].nth = call[d].nth /\ call'[d].attempt = call[d].attempt
         /\ call'[d].exit = call[d].exit /\ call'[d].wrote = call[d].wrote
         /\ call'[d].seen = call[d].seen /\ call'[d].result = call[d].result
         /\ call'[d].overlap =
              (call[d].overlap \/ (Rival(c, d) /\ call[d].op = op))
<1>1. call[d] \in Call
  BY DEF TypeOK
<1>2. call'[d] = Beside(c, op, d)
  BY DEF Begin
<1> QED
  BY <1>1, <1>2 DEF Beside, Call

LEMMA NextInOrder ==
  ASSUME TypeOK, InOrder, [Next]_vars PROVE InOrder'
<1> USE CallersAssumption, OpsAssumption, BoundsAssumption DEF InOrder, Calling
<1>0. call \in [Callers -> Call] /\ call' \in [Callers -> Call]
  BY NextType DEF TypeOK
<1>1. ASSUME NEW c \in Callers, Take(c) PROVE InOrder'
  BY <1>0, <1>1 DEF Take
<1>2. ASSUME NEW c \in Callers, NEW op \in OpsOf(c), Begin(c, op) PROVE InOrder'
  <2>1. (c \in Reviews => op = "review") /\ (c \in Researches => op \in NodeOps)
    BY DEF OpsOf, Following
  <2>2. call'[c].at = "process" /\ call'[c].op = op
    BY <1>0, <1>2, BeginFacts
  <2>3. ASSUME NEW d \in Callers, d # c
        PROVE  /\ call'[d].at = call[d].at /\ call'[d].op = call[d].op
               /\ call'[d].attempt = call[d].attempt
    BY <1>0, <1>2, <2>3, BeginBeside
  <2> QED
    BY <2>1, <2>2, <2>3
<1>3. ASSUME NEW c \in Callers, NEW name \in Names, Write(c, name) PROVE InOrder'
  BY <1>0, <1>3 DEF Write, Own, Finds
<1>4. ASSUME NEW c \in Callers, NEW exit \in Exits \ {"none"}, Exit(c, exit) PROVE InOrder'
  BY <1>0, <1>4, ExitFacts DEF AfterExit
<1>5. ASSUME NEW c \in Callers, Wake(c) PROVE InOrder'
  BY <1>0, <1>5 DEF Wake
<1>6. ASSUME NEW c \in Callers, Fallback(c), UNCHANGED file PROVE InOrder'
  BY <1>0, <1>6, ByRuleFacts DEF Fallback
<1>7. ASSUME NEW c \in Callers, NodeFails(c), UNCHANGED file PROVE InOrder'
  BY <1>0, <1>7, FailsFacts DEF NodeFails
<1>8. ASSUME NEW c \in Callers, ReadAnswer(c), UNCHANGED file PROVE InOrder'
  <2>1. CASE ByRule(c)
    BY <1>0, <1>8, <2>1, ByRuleFacts
  <2>2. CASE Return(c, "read", {Finds(c, AnswerFile(call[c].op))})
    BY <1>0, <1>8, <2>2, ReturnFacts DEF ReadAnswer
  <2>3. CASE Fails(c, {Finds(c, AnswerFile(call[c].op))})
    BY <1>0, <1>8, <2>3, FailsFacts
  <2>4. CASE call' = [call EXCEPT ![c].at = "reread",
                                  ![c].seen = {Finds(c, AnswerFile(call[c].op))}]
    BY <1>0, <1>8, <2>4 DEF ReadAnswer
  <2> QED
    BY <1>8, <2>1, <2>2, <2>3, <2>4 DEF ReadAnswer
<1>9. ASSUME NEW c \in Callers, ReadParams(c), UNCHANGED file PROVE InOrder'
  <2>1. CASE ByRule(c)
    BY <1>0, <1>9, <2>1, ByRuleFacts
  <2>2. CASE Return(c, "read", call[c].seen \cup {Finds(c, ParamsFile)})
    BY <1>0, <1>9, <2>2, ReturnFacts DEF ReadParams
  <2>3. CASE Fails(c, call[c].seen \cup {Finds(c, ParamsFile)})
    BY <1>0, <1>9, <2>3, FailsFacts
  <2> QED
    BY <1>9, <2>1, <2>2, <2>3 DEF ReadParams
<1>10. ASSUME NEW c \in Callers, AskAnyway(c), UNCHANGED file PROVE InOrder'
  BY <1>0, <1>10, ReturnWithoutFacts DEF AskAnyway
<1>11. ASSUME NEW c \in Callers, ReadStatus(c), UNCHANGED file PROVE InOrder'
  <2>1. CASE ReturnWithout(c, "asked")
    BY <1>0, <1>11, <2>1, ReturnWithoutFacts
  <2>2. CASE Return(c, "passed", {Finds(c, "status_pass.txt")})
    BY <1>0, <1>11, <2>2, ReturnFacts DEF ReadStatus
  <2>3. CASE Return(c, "asked", {Finds(c, "status_need_update.txt")})
    BY <1>0, <1>11, <2>3, ReturnFacts DEF ReadStatus
  <2> QED
    BY <1>0, <1>11, <2>1, <2>2, <2>3 DEF ReadStatus
<1>12. ASSUME NEW c \in Callers, Leave(c), UNCHANGED file PROVE InOrder'
  BY <1>0, <1>12 DEF Leave, NoCall
<1>13. CASE UNCHANGED vars
  BY <1>0, <1>13 DEF vars
<1> HIDE DEF InOrder, Calling
<1> QED
  BY <1>1, <1>2, <1>3, <1>4, <1>5, <1>6, <1>7, <1>8, <1>9, <1>10, <1>11, <1>12, <1>13
  DEF Next, Answer, Ends

LEMMA InOrderCorrect == Spec => [](TypeOK /\ InOrder)
<1>1. ASSUME TypeOK, InOrder, [Next]_vars PROVE (TypeOK /\ InOrder)'
  BY <1>1, NextType, NextInOrder
<1> QED
  BY <1>1, InitType, PTL DEF Spec

\* Every variable keeps to its values; no process is tried more often than
\* LLM_QUOTA_MAX_RETRIES allows (llm_svc.py:206, 232).
THEOREM TypeCorrect == Spec => []TypeOK
BY InOrderCorrect, PTL

-----------------------------------------------------------------------------
(* How a call ended tells what became of it.                               *)

Exited ==
  \A c \in Callers :
    /\ Calling(c) => call[c].result = "none"
    /\ call[c].at \in {"read", "reread"} => call[c].exit = "ok"
    /\ call[c].result \in {"read", "passed"} => call[c].exit = "ok"

LEMMA InitExited == Init => Exited
BY DEF Init, Exited, Calling, NoCall

LEMMA NextExited ==
  ASSUME TypeOK, InOrder, Exited, [Next]_vars PROVE Exited'
<1> USE CallersAssumption, OpsAssumption, BoundsAssumption DEF Exited, Calling
<1>0. call \in [Callers -> Call] /\ call' \in [Callers -> Call]
  BY NextType DEF TypeOK
<1>1. ASSUME NEW c \in Callers, Take(c) PROVE Exited'
  BY <1>0, <1>1 DEF Take
<1>2. ASSUME NEW c \in Callers, NEW op \in OpsOf(c), Begin(c, op) PROVE Exited'
  <2>1. call'[c].at = "process" /\ call'[c].result = "none"
    BY <1>0, <1>2, BeginFacts
  <2>2. ASSUME NEW d \in Callers, d # c
        PROVE  /\ call'[d].at = call[d].at /\ call'[d].op = call[d].op
               /\ call'[d].exit = call[d].exit /\ call'[d].result = call[d].result
    BY <1>0, <1>2, <2>2, BeginBeside
  <2> QED
    BY <2>1, <2>2
<1>3. ASSUME NEW c \in Callers, NEW name \in Names, Write(c, name) PROVE Exited'
  BY <1>0, <1>3 DEF Write, Own, Finds
<1>4. ASSUME NEW c \in Callers, NEW exit \in Exits \ {"none"}, Exit(c, exit) PROVE Exited'
  BY <1>0, <1>4, ExitFacts DEF AfterExit
<1>5. ASSUME NEW c \in Callers, Wake(c) PROVE Exited'
  BY <1>0, <1>5 DEF Wake
<1>6. ASSUME NEW c \in Callers, Fallback(c), UNCHANGED file PROVE Exited'
  BY <1>0, <1>6, ByRuleFacts DEF Fallback
<1>7. ASSUME NEW c \in Callers, NodeFails(c), UNCHANGED file PROVE Exited'
  BY <1>0, <1>7, FailsFacts DEF NodeFails
<1>8. ASSUME NEW c \in Callers, ReadAnswer(c), UNCHANGED file PROVE Exited'
  <2>1. CASE ByRule(c)
    BY <1>0, <1>8, <2>1, ByRuleFacts
  <2>2. CASE Return(c, "read", {Finds(c, AnswerFile(call[c].op))})
    BY <1>0, <1>8, <2>2, ReturnFacts DEF ReadAnswer
  <2>3. CASE Fails(c, {Finds(c, AnswerFile(call[c].op))})
    BY <1>0, <1>8, <2>3, FailsFacts
  <2>4. CASE call' = [call EXCEPT ![c].at = "reread",
                                  ![c].seen = {Finds(c, AnswerFile(call[c].op))}]
    BY <1>0, <1>8, <2>4 DEF ReadAnswer
  <2> QED
    BY <1>8, <2>1, <2>2, <2>3, <2>4 DEF ReadAnswer
<1>9. ASSUME NEW c \in Callers, ReadParams(c), UNCHANGED file PROVE Exited'
  <2>1. CASE ByRule(c)
    BY <1>0, <1>9, <2>1, ByRuleFacts
  <2>2. CASE Return(c, "read", call[c].seen \cup {Finds(c, ParamsFile)})
    BY <1>0, <1>9, <2>2, ReturnFacts DEF ReadParams
  <2>3. CASE Fails(c, call[c].seen \cup {Finds(c, ParamsFile)})
    BY <1>0, <1>9, <2>3, FailsFacts
  <2> QED
    BY <1>9, <2>1, <2>2, <2>3 DEF ReadParams
<1>10. ASSUME NEW c \in Callers, AskAnyway(c), UNCHANGED file PROVE Exited'
  BY <1>0, <1>10, ReturnWithoutFacts DEF AskAnyway
<1>11. ASSUME NEW c \in Callers, ReadStatus(c), UNCHANGED file PROVE Exited'
  <2>1. CASE ReturnWithout(c, "asked")
    BY <1>0, <1>11, <2>1, ReturnWithoutFacts
  <2>2. CASE Return(c, "passed", {Finds(c, "status_pass.txt")})
    BY <1>0, <1>11, <2>2, ReturnFacts DEF ReadStatus
  <2>3. CASE Return(c, "asked", {Finds(c, "status_need_update.txt")})
    BY <1>0, <1>11, <2>3, ReturnFacts DEF ReadStatus
  <2> QED
    BY <1>0, <1>11, <2>1, <2>2, <2>3 DEF ReadStatus
<1>12. ASSUME NEW c \in Callers, Leave(c), UNCHANGED file PROVE Exited'
  BY <1>0, <1>12 DEF Leave, NoCall
<1>13. CASE UNCHANGED vars
  BY <1>0, <1>13 DEF vars
<1> HIDE DEF Exited, Calling
<1> QED
  BY <1>1, <1>2, <1>3, <1>4, <1>5, <1>6, <1>7, <1>8, <1>9, <1>10, <1>11, <1>12, <1>13
  DEF Next, Answer, Ends

LEMMA ExitedCorrect == Spec => [](TypeOK /\ InOrder /\ Exited)
<1>1. ASSUME TypeOK, InOrder, Exited, [Next]_vars
      PROVE  (TypeOK /\ InOrder /\ Exited)'
  BY <1>1, NextType, NextInOrder, NextExited
<1> QED
  BY <1>1, InitType, InitExited, PTL DEF Spec

\* No answer is taken from the files after a process that failed
\* (llm_svc.py:221-244).
THEOREM AnswerOfSuccessCorrect == Spec => []AnswerOfSuccess
<1>1. Exited => AnswerOfSuccess
  BY DEF Exited, AnswerOfSuccess
<1> QED
  BY <1>1, ExitedCorrect, PTL

-----------------------------------------------------------------------------
(* The pass file of a review: gone when a call begins, and from then on    *)
(* the work of that call if it is there at all.                            *)

PassFile(c) == file[<<c, "status_pass.txt">>]

FreshOf(c) ==
  /\ call[c].at \in {"process", "sleep", "read"} =>
       /\ PassFile(c) \in {Missing, Own(c)}
       /\ PassFile(c) = Own(c) => "status_pass.txt" \in call[c].wrote
  /\ call[c].result = "passed" =>
       call[c].seen = {Own(c)} /\ "status_pass.txt" \in call[c].wrote

Fresh == \A c \in Reviews : FreshOf(c)

LEMMA InitFresh == Init => Fresh
BY DEF Init, Fresh, FreshOf, NoCall, Callers

LEMMA FreshFrame ==
  ASSUME NEW c \in Reviews, FreshOf(c), call'[c] = call[c],
         PassFile(c)' = PassFile(c)
  PROVE  FreshOf(c)'
BY DEF FreshOf, Own

LEMMA PassPath ==
  ASSUME NEW c \in Reviews
  PROVE  c \in Callers /\ Dir(c) = c /\ <<c, "status_pass.txt">> \in Paths
BY DEF Callers, Dir, Paths, Names

LEMMA NextFresh ==
  ASSUME TypeOK, InOrder, Exited, Fresh, [Next]_vars PROVE Fresh'
<1>0. call \in [Callers -> Call] /\ file \in [Paths -> Stamp]
  BY DEF TypeOK
<1> SUFFICES ASSUME NEW r \in Reviews PROVE FreshOf(r)'
  BY DEF Fresh
<1>r. FreshOf(r) /\ r \in Callers /\ Dir(r) = r
      /\ <<r, "status_pass.txt">> \in Paths
      /\ (Calling(r) => call[r].result = "none")
  BY PassPath DEF Fresh, Exited
<1>1. ASSUME NEW c \in Callers, Take(c) PROVE FreshOf(r)'
  BY <1>0, <1>r, <1>1 DEF Take, FreshOf, PassFile, Own
<1>2. ASSUME NEW c \in Callers, NEW op \in OpsOf(c), Begin(c, op)
      PROVE  FreshOf(r)'
  <2>1. CASE c = r
    <3>1. PassFile(r)' = Missing
      BY <1>r, <1>2, <2>1 DEF Begin, Cleaned, PassFile
    <3>2. call'[r].result = "none"
      BY <1>2, <2>1, BeginFacts
    <3>3. Missing # Own(r)'
      BY <1>r, CallersAssumption DEF Missing, Own
    <3> QED
      BY <3>1, <3>2, <3>3 DEF FreshOf
  <2>2. CASE c # r
    <3>1. PassFile(r)' = PassFile(r)
      BY <1>0, <1>r, <1>2, <2>2 DEF Begin, Cleaned, PassFile
    <3>2. /\ call'[r].at = call[r].at /\ call'[r].nth = call[r].nth
          /\ call'[r].wrote = call[r].wrote /\ call'[r].seen = call[r].seen
          /\ call'[r].result = call[r].result
      BY <1>r, <1>2, <2>2, BeginBeside
    <3>3. Own(r)' = Own(r)
      BY <3>2 DEF Own
    <3> QED
      BY <1>r, <3>1, <3>2, <3>3 DEF FreshOf
  <2> QED
    BY <2>1, <2>2
<1>3. ASSUME NEW c \in Callers, NEW name \in Names, Write(c, name)
      PROVE  FreshOf(r)'
  <2>1. CASE c = r
    <3>1. /\ call[r].at = "process" /\ call'[r].at = "process"
          /\ call'[r].result = call[r].result /\ call'[r].nth = call[r].nth
          /\ call'[r].wrote = call[r].wrote \cup {name}
      BY <1>0, <1>r, <1>3, <2>1 DEF Write, Call
    <3>2. Own(r)' = Own(r)
      BY <3>1 DEF Own
    <3>3. file' = [file EXCEPT ![<<r, name>>] = Own(r)]
      BY <1>r, <1>3, <2>1 DEF Write
    <3>4. CASE name = "status_pass.txt"
      BY <1>0, <1>r, <3>1, <3>2, <3>3, <3>4 DEF FreshOf, PassFile, Calling
    <3>5. CASE name # "status_pass.txt"
      <4>1. PassFile(r)' = PassFile(r)
        BY <1>0, <1>r, <3>3, <3>5 DEF PassFile
      <4> QED
        BY <1>r, <3>1, <3>2, <4>1 DEF FreshOf, Calling
    <3> QED
      BY <3>4, <3>5
  <2>2. CASE c # r
    <3>1. Dir(c) # r
      BY <2>2, CallersAssumption DEF Dir, Callers
    <3>2. PassFile(r)' = PassFile(r)
      BY <1>0, <1>r, <1>3, <3>1 DEF Write, PassFile
    <3>3. call'[r] = call[r]
      BY <1>0, <1>r, <1>3, <2>2 DEF Write
    <3> QED
      BY <1>r, <3>2, <3>3, FreshFrame
  <2> QED
    BY <2>1, <2>2
<1>4. ASSUME NEW c \in Callers, NEW exit \in Exits \ {"none"}, Exit(c, exit)
      PROVE  FreshOf(r)'
  BY <1>0, <1>r, <1>4, ExitFacts DEF FreshOf, PassFile, Own
<1>5. ASSUME NEW c \in Callers, Wake(c) PROVE FreshOf(r)'
  BY <1>0, <1>r, <1>5 DEF Wake, FreshOf, PassFile, Own
<1>f. ASSUME UNCHANGED file PROVE PassFile(r)' = PassFile(r)
  BY <1>f DEF PassFile
<1>6. ASSUME NEW c \in Callers, Fallback(c), UNCHANGED file PROVE FreshOf(r)'
  <2>1. call'[r] = call[r]
    BY <1>r, <1>6, ByRuleFacts, CallersAssumption DEF Fallback
  <2> QED
    BY <1>r, <1>f, <1>6, <2>1, FreshFrame
<1>7. ASSUME NEW c \in Callers, NodeFails(c), UNCHANGED file PROVE FreshOf(r)'
  <2>1. call'[r] = call[r]
    BY <1>r, <1>7, FailsFacts, CallersAssumption DEF NodeFails
  <2> QED
    BY <1>r, <1>f, <1>7, <2>1, FreshFrame
<1>8. ASSUME NEW c \in Callers, ReadAnswer(c), UNCHANGED file
      PROVE  FreshOf(r)'
  <2>1. call'[r] = call[r]
    BY <1>0, <1>r, <1>8, ReturnFacts, ByRuleFacts, FailsFacts, CallersAssumption
    DEF ReadAnswer
  <2> QED
    BY <1>r, <1>f, <1>8, <2>1, FreshFrame
<1>9. ASSUME NEW c \in Callers, ReadParams(c), UNCHANGED file
      PROVE  FreshOf(r)'
  <2>1. CASE c = r
    <3>1. /\ call'[r].result \in {"fallback", "read", "failed"}
          /\ call'[r].at \in {"ready", "gone"}
      BY <1>r, <1>9, <2>1, ReturnFacts, ByRuleFacts, FailsFacts DEF ReadParams
    <3> QED
      BY <3>1 DEF FreshOf
  <2>2. CASE c # r
    <3>1. call'[r] = call[r]
      BY <1>r, <1>9, <2>2, ReturnFacts, ByRuleFacts, FailsFacts DEF ReadParams
    <3> QED
      BY <1>r, <1>f, <1>9, <3>1, FreshFrame
  <2> QED
    BY <2>1, <2>2
<1>10. ASSUME NEW c \in Callers, AskAnyway(c), UNCHANGED file
       PROVE  FreshOf(r)'
  <2>1. CASE c = r
    <3>1. call'[r].result = "asked" /\ call'[r].at = "ready"
      BY <1>r, <1>10, <2>1, ReturnWithoutFacts DEF AskAnyway
    <3> QED
      BY <3>1 DEF FreshOf
  <2>2. CASE c # r
    <3>1. call'[r] = call[r]
      BY <1>r, <1>10, <2>2, ReturnWithoutFacts DEF AskAnyway
    <3> QED
      BY <1>r, <1>f, <1>10, <3>1, FreshFrame
  <2> QED
    BY <2>1, <2>2
<1>11. ASSUME NEW c \in Callers, ReadStatus(c), UNCHANGED file
       PROVE  FreshOf(r)'
  <2>1. CASE c = r /\ There(r, "status_pass.txt")
    <3>1. /\ call[r].at = "read" /\ Return(r, "passed", {PassFile(r)})
          /\ PassFile(r) # Missing
      BY <1>r, <1>11, <2>1 DEF ReadStatus, There, Finds, PassFile
    <3>2. PassFile(r) = Own(r) /\ "status_pass.txt" \in call[r].wrote
      BY <1>r, <3>1 DEF FreshOf
    <3>3. /\ call'[r].at = "ready" /\ call'[r].seen = {PassFile(r)}
          /\ call'[r].nth = call[r].nth /\ call'[r].wrote = call[r].wrote
      BY <1>r, <3>1, ReturnFacts
    <3> QED
      BY <3>2, <3>3 DEF FreshOf, Own
  <2>2. CASE c = r /\ ~There(r, "status_pass.txt")
    <3>1. call'[r].result = "asked" /\ call'[r].at = "ready"
      BY <1>r, <1>11, <2>2, ReturnFacts, ReturnWithoutFacts DEF ReadStatus
    <3> QED
      BY <3>1 DEF FreshOf
  <2>3. CASE c # r
    <3>1. call'[r] = call[r]
      BY <1>r, <1>11, <2>3, ReturnFacts, ReturnWithoutFacts DEF ReadStatus
    <3> QED
      BY <1>r, <1>f, <1>11, <3>1, FreshFrame
  <2> QED
    BY <2>1, <2>2, <2>3
<1>12. ASSUME NEW c \in Callers, Leave(c), UNCHANGED file PROVE FreshOf(r)'
  BY <1>0, <1>r, <1>12 DEF Leave, NoCall, FreshOf, PassFile, Own
<1>13. CASE UNCHANGED vars
  BY <1>r, <1>f, <1>13, FreshFrame DEF vars
<1> QED
  BY <1>1, <1>2, <1>3, <1>4, <1>5, <1>6, <1>7, <1>8, <1>9, <1>10, <1>11,
     <1>12, <1>13
  DEF Next, Answer, Ends

\* A review's round passes by the word of its own agent
\* (spec_clarifier.py:80-82).
THEOREM PassIsFreshCorrect == Spec => []PassIsFresh
<1>1. Init => TypeOK /\ InOrder /\ Exited /\ Fresh
  BY InitType, InitExited, InitFresh
<1>2. ASSUME TypeOK, InOrder, Exited, Fresh, [Next]_vars
      PROVE  (TypeOK /\ InOrder /\ Exited /\ Fresh)'
  BY <1>2, NextType, NextInOrder, NextExited, NextFresh
<1>3. Fresh => PassIsFresh
  BY DEF Fresh, FreshOf, PassIsFresh
<1> QED
  BY <1>1, <1>2, <1>3, PTL DEF Spec

-----------------------------------------------------------------------------
(* What a research that nobody disturbs finds in the shared directory: the *)
(* files its agent wrote are still its own.                                *)

Shared(name) == file[<<"ARTIFACTS_DIR", name>>]

AtFiles(c) == call[c].at \in {"process", "sleep", "read", "reread"}

MineOf(c) ==
  /\ AtFiles(c) => call[c].wrote \subseteq FilesOf(call[c].op)
  /\ AtFiles(c) /\ ~call[c].overlap =>
       /\ \A d \in Researches :
            d # c /\ AtFiles(d) => call[d].op # call[c].op
       /\ \A name \in call[c].wrote : Shared(name) = Own(c)
  /\ call[c].at = "reread" =>
       /\ call[c].op = "revise"
       /\ ~call[c].overlap /\ FilesOf(call[c].op) \subseteq call[c].wrote =>
            call[c].seen = {Own(c)}
  /\ call[c].result \in {"read", "failed"} /\ ~call[c].overlap
       /\ FilesOf(call[c].op) \subseteq call[c].wrote =>
         call[c].seen \subseteq {Own(c)}

Mine == \A c \in Researches : MineOf(c)

LEMMA FilesApart ==
  ASSUME NEW p \in NodeOps, NEW q \in NodeOps, NEW name,
         name \in FilesOf(p), name \in FilesOf(q)
  PROVE  p = q
BY OpsAssumption DEF FilesOf

LEMMA AnswerNamed ==
  ASSUME NEW op \in NodeOps
  PROVE  AnswerFile(op) \in FilesOf(op) /\ AnswerFile(op) \in Names
BY OpsAssumption DEF FilesOf, AnswerFile, Names

LEMMA InitMine == Init => Mine
BY DEF Init, Mine, MineOf, AtFiles, NoCall, Callers

\* A step of another task that leaves the files alone and begins no call.
LEMMA MineFrame ==
  ASSUME TypeOK, NEW c \in Callers, NEW s \in Researches, s # c, MineOf(s),
         \A d \in Callers : d # c => call'[d] = call[d],
         AtFiles(c)' => AtFiles(c), call'[c].op = call[c].op \/ ~AtFiles(c)',
         \A name \in call[s].wrote : Shared(name)' = Shared(name)
  PROVE  MineOf(s)'
<1>1. s \in Callers /\ call'[s] = call[s] /\ Own(s)' = Own(s)
  BY DEF Callers, Own
<1>2. AtFiles(s)' = AtFiles(s)
  BY <1>1 DEF AtFiles
<1>3. ASSUME NEW d \in Researches, d # s, AtFiles(d)'
      PROVE  AtFiles(d) /\ call'[d].op = call[d].op
  BY <1>3 DEF Callers, AtFiles
<1> QED
  BY <1>1, <1>2, <1>3 DEF MineOf

LEMMA NextMine ==
  ASSUME TypeOK, InOrder, Exited, Mine, [Next]_vars PROVE Mine'
<1>0. call \in [Callers -> Call] /\ file \in [Paths -> Stamp]
  BY DEF TypeOK
<1> SUFFICES ASSUME NEW s \in Researches PROVE MineOf(s)'
  BY DEF Mine
<1>s. /\ MineOf(s) /\ s \in Callers /\ s \notin Reviews
      /\ Dir(s) = "ARTIFACTS_DIR"
      /\ (Calling(s) => call[s].result = "none" /\ call[s].op \in NodeOps)
  BY CallersAssumption DEF Mine, Exited, InOrder, Callers, Dir
<1>1. ASSUME NEW c \in Callers, Take(c) PROVE MineOf(s)'
  <2>1. /\ \A d \in Callers : d # c => call'[d] = call[d]
        /\ ~AtFiles(c)' /\ UNCHANGED file
        /\ call'[c] = [call[c] EXCEPT !.at = "ready"]
    BY <1>0, <1>1 DEF Take, AtFiles
  <2>2. CASE c = s
    BY <1>0, <1>s, <2>1, <2>2 DEF MineOf, AtFiles, Own, Call
  <2>3. CASE c # s
    BY <1>s, <2>1, <2>3, MineFrame DEF Shared
  <2> QED
    BY <2>2, <2>3
<1>2. ASSUME NEW c \in Callers, NEW op \in OpsOf(c), Begin(c, op)
      PROVE  MineOf(s)'
  <2>1. ASSUME NEW name \in Names PROVE Shared(name)' = Shared(name)
    BY <1>0, <1>2, CallersAssumption
    DEF Begin, Cleaned, Shared, Paths, Callers
  <2>2. /\ call'[c].at = "process" /\ call'[c].result = "none"
        /\ call'[c].wrote = {} /\ call'[c].op = op
        /\ call'[c].overlap = \E d \in Callers : Rival(c, d) /\ call[d].op = op
    BY <1>2, BeginFacts
  <2>3. ASSUME NEW d \in Callers, d # c
        PROVE  /\ call'[d].at = call[d].at /\ call'[d].op = call[d].op
               /\ call'[d].nth = call[d].nth /\ call'[d].wrote = call[d].wrote
               /\ call'[d].seen = call[d].seen /\ call'[d].result = call[d].result
               /\ call'[d].overlap =
                    (call[d].overlap \/ (Rival(c, d) /\ call[d].op = op))
    BY <1>2, <2>3, BeginBeside
  <2>4. CASE c = s
    <3>1. ASSUME NEW d \in Researches, d # s, AtFiles(d)', ~call'[s].overlap
          PROVE  call'[d].op # call'[s].op
      <4>1. d \in Callers /\ d # c /\ AtFiles(d) /\ call'[d].op = call[d].op
        BY <2>3, <2>4, <3>1 DEF AtFiles, Callers
      <4>2. Rival(c, d)
        BY <2>4, <3>1, <4>1 DEF Rival, Calling, AtFiles
      <4> QED
        BY <2>2, <2>4, <3>1, <4>1, <4>2
    <3> QED
      BY <2>2, <2>4, <3>1 DEF MineOf, AtFiles
  <2>5. CASE c # s
    <3>1. /\ call'[s].at = call[s].at /\ call'[s].op = call[s].op
          /\ call'[s].wrote = call[s].wrote /\ call'[s].seen = call[s].seen
          /\ call'[s].result = call[s].result /\ Own(s)' = Own(s)
          /\ AtFiles(s)' = AtFiles(s) /\ (call[s].overlap => call'[s].overlap)
      BY <1>s, <2>3, <2>5 DEF AtFiles, Own
    <3>2. \A name \in call[s].wrote : Shared(name)' = Shared(name)
      BY <1>0, <1>s, <2>1 DEF Call
    <3>3. ASSUME NEW d \in Researches, d # s, AtFiles(d)', AtFiles(s),
                 ~call'[s].overlap
          PROVE  call'[d].op # call'[s].op
      <4>1. CASE d = c
        <5>1. Rival(c, s)
          BY <2>5, <3>3, <4>1 DEF Rival, Calling, AtFiles
        <5> QED
          BY <1>s, <2>2, <2>3, <2>5, <3>3, <4>1, <5>1
      <4>2. CASE d # c
        BY <1>s, <2>3, <3>1, <3>3, <4>2 DEF MineOf, AtFiles, Callers
      <4> QED
        BY <4>1, <4>2
    <3> QED
      BY <1>s, <3>1, <3>2, <3>3 DEF MineOf, AtFiles
  <2> QED
    BY <2>4, <2>5
<1>3. ASSUME NEW c \in Callers, NEW name \in Names, Write(c, name)
      PROVE  MineOf(s)'
  <2>1. /\ call[c].at = "process" /\ name \in FilesOf(call[c].op)
        /\ call'[c] = [call[c] EXCEPT !.wrote = call[c].wrote \cup {name}]
        /\ \A d \in Callers : d # c => call'[d] = call[d]
        /\ file' = [file EXCEPT ![<<Dir(c), name>>] = Own(c)]
    BY <1>0, <1>3 DEF Write
  <2>2. CASE c = s
    <3>1. /\ call'[s].at = "process" /\ call'[s].op = call[s].op
          /\ call'[s].result = call[s].result /\ call'[s].nth = call[s].nth
          /\ call'[s].overlap = call[s].overlap
          /\ call'[s].wrote = call[s].wrote \cup {name} /\ Own(s)' = Own(s)
      BY <1>0, <1>s, <2>1, <2>2 DEF Call, Own
    <3>2. ASSUME NEW n \in Names
          PROVE  Shared(n)' = IF n = name THEN Own(s) ELSE Shared(n)
      BY <1>0, <1>s, <2>1, <2>2 DEF Shared, Paths
    <3>3. call[s].wrote \subseteq Names
      BY <1>0, <1>s DEF Call
    <3>4. ASSUME NEW d \in Researches, d # s
          PROVE  call'[d] = call[d] /\ AtFiles(d)' = AtFiles(d)
      BY <2>1, <2>2, <3>4 DEF AtFiles, Callers
    <3>5. AtFiles(s) /\ call[s].result = "none"
      BY <1>s, <2>1, <2>2 DEF AtFiles, Calling
    <3> QED
      BY <1>s, <2>1, <2>2, <3>1, <3>2, <3>3, <3>4, <3>5 DEF MineOf
  <2>3. CASE c # s
    <3>1. call'[s] = call[s] /\ Own(s)' = Own(s) /\ AtFiles(s)' = AtFiles(s)
      BY <1>s, <2>1, <2>3 DEF Own, AtFiles
    <3>2. ASSUME NEW d \in Researches
          PROVE  call'[d].op = call[d].op /\ AtFiles(d)' = AtFiles(d)
      BY <1>0, <2>1 DEF AtFiles, Callers, Call
    <3>3. ASSUME AtFiles(s), ~call[s].overlap, NEW n \in call[s].wrote
          PROVE  Shared(n)' = Shared(n)
      <4>1. n \in Names
        BY <1>0, <1>s, <3>3 DEF Call
      <4>2. CASE c \in Reviews
        BY <1>0, <2>1, <4>1, <4>2, CallersAssumption
        DEF Shared, Dir, Paths, Callers
      <4>3. CASE c \in Researches
        <5>1. AtFiles(c) /\ call[c].op # call[s].op
          BY <1>s, <2>1, <2>3, <3>3, <4>3 DEF MineOf, AtFiles
        <5>2. call[c].op \in NodeOps /\ call[s].op \in NodeOps
          BY <1>s, <2>1, <3>3, <4>3 DEF InOrder, Calling, AtFiles
        <5>3. n # name
          BY <1>s, <2>1, <3>3, <5>1, <5>2, FilesApart DEF MineOf
        <5> QED
          BY <1>0, <2>1, <4>1, <5>3 DEF Shared, Paths
      <4> QED
        BY <4>2, <4>3 DEF Callers
    <3> QED
      BY <1>s, <3>1, <3>2, <3>3 DEF MineOf
  <2> QED
    BY <2>2, <2>3
<1>4. ASSUME NEW c \in Callers, NEW exit \in Exits \ {"none"}, Exit(c, exit)
      PROVE  MineOf(s)'
  <2>1. /\ \A d \in Callers : d # c => call'[d] = call[d]
        /\ AtFiles(c) /\ UNCHANGED file /\ call[c].at = "process"
        /\ call'[c].at \in {"read", "sleep", "raise"}
        /\ call'[c].op = call[c].op /\ call'[c].nth = call[c].nth
        /\ call'[c].at = "raise" => call'[c].result = "none"
        /\ call'[c].at # "raise" =>
             /\ call'[c].wrote = call[c].wrote /\ call'[c].seen = call[c].seen
             /\ call'[c].overlap = call[c].overlap
             /\ call'[c].result = call[c].result
    BY <1>0, <1>4, ExitFacts DEF AtFiles
  <2>2. CASE c = s /\ call'[c].at # "raise"
    <3>1. \A d \in Researches :
            d # s => call'[d].op = call[d].op /\ AtFiles(d)' = AtFiles(d)
      BY <2>1, <2>2 DEF AtFiles, Callers
    <3>2. Own(s)' = Own(s) /\ \A name : Shared(name)' = Shared(name)
      BY <2>1, <2>2 DEF Own, Shared
    <3> QED
      BY <1>s, <2>1, <2>2, <3>1, <3>2 DEF MineOf, Calling
  <2>3. CASE c = s /\ call'[c].at = "raise"
    BY <2>1, <2>3 DEF MineOf, AtFiles
  <2>4. CASE c # s
    BY <1>s, <2>1, <2>4, MineFrame DEF Shared
  <2> QED
    BY <2>2, <2>3, <2>4
<1>5. ASSUME NEW c \in Callers, Wake(c) PROVE MineOf(s)'
  <2>1. /\ \A d \in Callers : d # c => call'[d] = call[d]
        /\ AtFiles(c) /\ UNCHANGED file /\ call[c].at = "sleep"
        /\ call'[c].at = "process"
        /\ call'[c].op = call[c].op /\ call'[c].nth = call[c].nth
        /\ call'[c].wrote = call[c].wrote /\ call'[c].seen = call[c].seen
        /\ call'[c].overlap = call[c].overlap
        /\ call'[c].result = call[c].result
    BY <1>0, <1>5 DEF Wake, AtFiles, Call
  <2>2. CASE c = s
    <3>1. \A d \in Researches :
            d # s => call'[d].op = call[d].op /\ AtFiles(d)' = AtFiles(d)
      BY <2>1, <2>2 DEF AtFiles, Callers
    <3>2. Own(s)' = Own(s) /\ \A name : Shared(name)' = Shared(name)
      BY <2>1, <2>2 DEF Own, Shared
    <3> QED
      BY <1>s, <2>1, <2>2, <3>1, <3>2 DEF MineOf, Calling
  <2>3. CASE c # s
    BY <1>s, <2>1, <2>3, MineFrame DEF Shared
  <2> QED
    BY <2>2, <2>3
\* What ends a call without an answer.
<1>e. ASSUME NEW c \in Callers, UNCHANGED file,
             \A d \in Callers : d # c => call'[d] = call[d],
             call'[c].at \notin {"process", "sleep", "read", "reread"},
             call'[c].result \in {"read", "failed"} => call'[c].seen = {}
      PROVE  MineOf(s)'
  <2>1. CASE c = s
    BY <1>e, <2>1 DEF MineOf, AtFiles
  <2>2. CASE c # s
    BY <1>s, <1>e, <2>2, MineFrame DEF Shared, AtFiles
  <2> QED
    BY <2>1, <2>2
<1>6. ASSUME NEW c \in Callers, Fallback(c), UNCHANGED file PROVE MineOf(s)'
  BY <1>6, <1>e, ByRuleFacts DEF Fallback
<1>7. ASSUME NEW c \in Callers, NodeFails(c), UNCHANGED file PROVE MineOf(s)'
  BY <1>7, <1>e, FailsFacts DEF NodeFails
<1>8. ASSUME NEW c \in Callers, ReadAnswer(c), UNCHANGED file
      PROVE  MineOf(s)'
  <2> DEFINE name == AnswerFile(call[c].op)
  <2>1. /\ call[c].at = "read" /\ c \in Researches /\ AtFiles(c)
        /\ call[c].op \in NodeOps /\ name \in FilesOf(call[c].op)
        /\ Finds(c, name) = Shared(name)
    BY <1>8, AnswerNamed, CallersAssumption
    DEF ReadAnswer, AtFiles, InOrder, Calling, Finds, Shared, Dir
  <2>2. ASSUME c = s, ~call[s].overlap, FilesOf(call[s].op) \subseteq call[s].wrote
        PROVE  {Finds(c, name)} = {Own(s)}
    BY <1>s, <2>1, <2>2 DEF MineOf
  <2>3. CASE ByRule(c)
    BY <1>8, <1>e, <2>3, ByRuleFacts
  <2>4. CASE Return(c, "read", {Finds(c, name)}) \/ Fails(c, {Finds(c, name)})
    <3>1. /\ \A d \in Callers : d # c => call'[d] = call[d]
          /\ call'[c].at \in {"ready", "gone"}
          /\ call'[c].seen = {Finds(c, name)}
          /\ call'[c].op = call[c].op /\ call'[c].nth = call[c].nth
          /\ call'[c].wrote = call[c].wrote
          /\ call'[c].overlap = call[c].overlap
      BY <2>4, ReturnFacts, FailsFacts
    <3>2. CASE c = s
      BY <2>2, <3>1, <3>2 DEF MineOf, AtFiles, Own
    <3>3. CASE c # s
      BY <1>s, <1>8, <3>1, <3>3, MineFrame DEF Shared, AtFiles
    <3> QED
      BY <3>2, <3>3
  <2>5. CASE /\ call[c].op = "revise"
             /\ call' = [call EXCEPT ![c].at = "reread",
                                     ![c].seen = {Finds(c, name)}]
    <3>1. /\ \A d \in Callers : d # c => call'[d] = call[d]
          /\ call'[c].at = "reread" /\ call'[c].seen = {Finds(c, name)}
          /\ call'[c].op = call[c].op /\ call'[c].nth = call[c].nth
          /\ call'[c].wrote = call[c].wrote
          /\ call'[c].overlap = call[c].overlap
          /\ call'[c].result = call[c].result
      BY <1>0, <2>5 DEF Call
    <3>2. CASE c = s
      <4>1. \A d \in Researches :
              d # s => call'[d].op = call[d].op /\ AtFiles(d)' = AtFiles(d)
        BY <3>1, <3>2 DEF AtFiles, Callers
      <4>2. Own(s)' = Own(s) /\ \A n : Shared(n)' = Shared(n)
        BY <1>8, <3>1, <3>2 DEF Own, Shared
      <4>3. AtFiles(s) /\ AtFiles(s)' /\ call[s].result = "none"
        BY <1>s, <2>1, <3>1, <3>2 DEF AtFiles, Calling
      <4> QED
        BY <1>s, <2>2, <2>5, <3>1, <3>2, <4>1, <4>2, <4>3 DEF MineOf
    <3>3. CASE c # s
      BY <1>s, <1>8, <2>1, <3>1, <3>3, MineFrame DEF Shared
    <3> QED
      BY <3>2, <3>3
  <2> QED
    BY <1>8, <2>3, <2>4, <2>5 DEF ReadAnswer
<1>9. ASSUME NEW c \in Callers, ReadParams(c), UNCHANGED file
      PROVE  MineOf(s)'
  <2> DEFINE seen == call[c].seen \cup {Finds(c, ParamsFile)}
  <2>1. CASE ByRule(c)
    BY <1>9, <1>e, <2>1, ByRuleFacts
  <2>2. CASE Return(c, "read", seen) \/ Fails(c, seen)
    <3>1. /\ \A d \in Callers : d # c => call'[d] = call[d]
          /\ call'[c].at \in {"ready", "gone"} /\ call'[c].seen = seen
          /\ call'[c].op = call[c].op /\ call'[c].nth = call[c].nth
          /\ call'[c].wrote = call[c].wrote
          /\ call'[c].overlap = call[c].overlap
      BY <2>2, ReturnFacts, FailsFacts
    <3>2. CASE c = s
      <4>1. call[s].at = "reread" /\ call[s].op = "revise" /\ AtFiles(s)
        BY <1>s, <1>9, <3>2 DEF ReadParams, MineOf, AtFiles
      <4>2. ParamsFile \in FilesOf("revise")
        BY DEF ParamsFile, FilesOf
      <4>3. Finds(s, ParamsFile) = Shared(ParamsFile)
        BY <1>s DEF Finds, Shared
      <4>4. ASSUME ~call[s].overlap, FilesOf(call[s].op) \subseteq call[s].wrote
            PROVE  call'[s].seen = {Own(s)}
        BY <1>s, <3>1, <3>2, <4>1, <4>2, <4>3, <4>4 DEF MineOf
      <4> QED
        BY <3>1, <3>2, <4>4 DEF MineOf, AtFiles, Own
    <3>3. CASE c # s
      BY <1>s, <1>9, <3>1, <3>3, MineFrame DEF Shared, AtFiles
    <3> QED
      BY <3>2, <3>3
  <2> QED
    BY <1>9, <2>1, <2>2 DEF ReadParams
<1>10. ASSUME NEW c \in Callers, AskAnyway(c), UNCHANGED file PROVE MineOf(s)'
  BY <1>10, <1>e, ReturnWithoutFacts DEF AskAnyway
<1>11. ASSUME NEW c \in Callers, ReadStatus(c), UNCHANGED file
       PROVE  MineOf(s)'
  <2>1. /\ \A d \in Callers : d # c => call'[d] = call[d]
        /\ call'[c].at = "ready" /\ call'[c].result \in {"passed", "asked"}
    BY <1>11, ReturnFacts, ReturnWithoutFacts DEF ReadStatus
  <2> QED
    BY <1>11, <1>e, <2>1
<1>12. ASSUME NEW c \in Callers, Leave(c), UNCHANGED file PROVE MineOf(s)'
  <2>1. /\ \A d \in Callers : d # c => call'[d] = call[d]
        /\ call'[c].at = "gone" /\ call'[c].result = "none"
    BY <1>0, <1>12 DEF Leave, NoCall
  <2> QED
    BY <1>12, <1>e, <2>1
<1>13. CASE UNCHANGED vars
  BY <1>s, <1>13 DEF vars, MineOf, AtFiles, Shared, Own
<1> QED
  BY <1>1, <1>2, <1>3, <1>4, <1>5, <1>6, <1>7, <1>8, <1>9, <1>10, <1>11,
     <1>12, <1>13
  DEF Next, Answer, Ends

\* A node reads another project's answer, or that of an earlier loop, only
\* when its own agent wrote too little or another project called an agent for
\* the same node meanwhile (quant_alpha/plugin.py:260, 421, 521-528).
THEOREM OwnAnswerCorrect == Spec => []OwnAnswer
<1>1. Init => TypeOK /\ InOrder /\ Exited /\ Mine
  BY InitType, InitExited, InitMine
<1>2. ASSUME TypeOK, InOrder, Exited, Mine, [Next]_vars
      PROVE  (TypeOK /\ InOrder /\ Exited /\ Mine)'
  BY <1>2, NextType, NextInOrder, NextExited, NextMine
<1>3. Mine => OwnAnswer
  BY DEF Mine, MineOf, OwnAnswer
<1> QED
  BY <1>1, <1>2, <1>3, PTL DEF Spec

-----------------------------------------------------------------------------
(* A call comes to its end.                                                *)

LEMMA RemainingType ==
  ASSUME NEW s \in Call
  PROVE  /\ Remaining(s) \in Nat
         /\ s.at \notin {"queued", "ready", "gone"} => Remaining(s) > 0
         /\ s.at \in {"queued", "ready", "gone"} => Remaining(s) = 0
<1>1. s.attempt \in Nat /\ s.attempt <= MaxRetries
  BY BoundsAssumption DEF Call
<1> QED
  BY <1>1, BoundsAssumption DEF Remaining, Call

LEMMA RemainingFalls ==
  ASSUME TypeOK, TypeOK', InOrder, NEW c \in Callers, [Next]_vars,
         Calling(c), call'[c].at # call[c].at
  PROVE  Remaining(call'[c]) < Remaining(call[c])
<1>0. /\ call \in [Callers -> Call] /\ call' \in [Callers -> Call]
      /\ call[c] \in Call /\ call'[c] \in Call
  BY DEF TypeOK
<1>s. SUFFICES ASSUME ~(call'[c].at \in {"ready", "gone"})
               PROVE  Remaining(call'[c]) < Remaining(call[c])
  BY <1>0, RemainingType DEF Calling
<1>1. ASSUME NEW d \in Callers, Take(d) PROVE FALSE
  BY <1>0, <1>1 DEF Take, Calling
<1>2. ASSUME NEW d \in Callers, NEW op \in OpsOf(d), Begin(d, op) PROVE FALSE
  <2>1. d # c
    BY <1>2 DEF Begin, Calling
  <2> QED
    BY <1>2, <2>1, BeginBeside
<1>3. ASSUME NEW d \in Callers, NEW name \in Names, Write(d, name) PROVE FALSE
  BY <1>0, <1>3 DEF Write
<1>4. ASSUME NEW d \in Callers, NEW exit \in Exits \ {"none"}, Exit(d, exit)
      PROVE  Remaining(call'[c]) < Remaining(call[c])
  <2>1. /\ d = c /\ call[c].at = "process"
        /\ call'[c].at = "sleep" => call'[c].attempt = call[c].attempt
        /\ call'[c].at = AfterExit(exit, call[c].attempt)
    BY <1>0, <1>4, ExitFacts
  <2>2. /\ call[c].attempt \in Nat /\ call[c].attempt <= MaxRetries
    BY <1>0, BoundsAssumption DEF Call
  <2>3. call'[c].at \in {"read", "sleep", "raise"}
    BY <2>1 DEF AfterExit
  <2>4. Remaining(call[c]) = 3 + 2 * (MaxRetries - call[c].attempt)
    BY <2>1 DEF Remaining
  <2>5. \/ Remaining(call'[c]) = 2 + 2 * (MaxRetries - call[c].attempt)
        \/ Remaining(call'[c]) \in {1, 2}
    BY <2>1, <2>3 DEF Remaining
  <2> QED
    BY <2>2, <2>4, <2>5, BoundsAssumption
<1>5. ASSUME NEW d \in Callers, Wake(d)
      PROVE  Remaining(call'[c]) < Remaining(call[c])
  <2>1. /\ d = c /\ call[c].at = "sleep" /\ call'[c].at = "process"
        /\ call'[c].attempt = call[c].attempt + 1
    BY <1>0, <1>5 DEF Wake, Call
  <2>2. call[c].attempt \in Nat /\ call[c].attempt < MaxRetries
    BY <1>0, <2>1, BoundsAssumption DEF Call, InOrder
  <2>3. /\ Remaining(call[c]) = 2 + 2 * (MaxRetries - call[c].attempt)
        /\ Remaining(call'[c]) = 3 + 2 * (MaxRetries - (call[c].attempt + 1))
    BY <2>1 DEF Remaining
  <2> QED
    BY <2>2, <2>3, BoundsAssumption
<1>6. ASSUME NEW d \in Callers, ReadAnswer(d)
      PROVE  Remaining(call'[c]) < Remaining(call[c])
  <2>1. call[d].at = "read"
    BY <1>6 DEF ReadAnswer
  <2>2. CASE \/ ByRule(d) \/ Return(d, "read", {Finds(d, AnswerFile(call[d].op))})
             \/ Fails(d, {Finds(d, AnswerFile(call[d].op))})
    BY <1>s, <2>2, ReturnFacts, ByRuleFacts, FailsFacts
  <2>3. CASE call' = [call EXCEPT ![d].at = "reread",
                                  ![d].seen = {Finds(d, AnswerFile(call[d].op))}]
    <3>1. d = c /\ call'[c].at = "reread"
      BY <1>0, <2>3 DEF Call
    <3> QED
      BY <2>1, <3>1 DEF Remaining
  <2> QED
    BY <1>6, <2>2, <2>3 DEF ReadAnswer
<1>7. ASSUME NEW d \in Callers,
             \/ Fallback(d) \/ ReadParams(d) \/ AskAnyway(d) \/ ReadStatus(d)
      PROVE  FALSE
  <2>1. \/ ByRule(d)
        \/ \E result, seen : \/ ReturnWithout(d, result) \/ Return(d, result, seen)
                            \/ Fails(d, seen)
    BY <1>7 DEF Fallback, ReadParams, AskAnyway, ReadStatus
  <2>2. CASE ByRule(d)
    BY <1>s, <2>2, ByRuleFacts
  <2>3. ASSUME NEW result, NEW seen,
               ReturnWithout(d, result) \/ Return(d, result, seen) \/ Fails(d, seen)
        PROVE  FALSE
    <3>1. /\ \A e \in Callers : e # d => call'[e] = call[e]
          /\ call'[d].at \in {"ready", "gone"}
      BY <2>3, ReturnFacts, ReturnWithoutFacts, FailsFacts
    <3> QED
      BY <1>s, <3>1
  <2> QED
    BY <2>1, <2>2, <2>3
<1>8. ASSUME NEW d \in Callers, NodeFails(d) \/ Leave(d) PROVE FALSE
  <2>1. CASE NodeFails(d)
    <3>1. Fails(d, {})
      BY <2>1 DEF NodeFails
    <3>2. /\ \A e \in Callers : e # d => call'[e] = call[e]
          /\ call'[d].at = "gone"
      BY <3>1, FailsFacts
    <3> QED
      BY <1>s, <3>2
  <2>2. CASE Leave(d)
    <3>1. /\ \A e \in Callers : e # d => call'[e] = call[e]
          /\ call'[d].at = "gone"
      BY <1>0, <2>2 DEF Leave, NoCall
    <3> QED
      BY <1>s, <3>1
  <2> QED
    BY <1>8, <2>1, <2>2
<1>9. CASE UNCHANGED vars
  BY <1>9 DEF vars
<1> QED
  BY <1>1, <1>2, <1>3, <1>4, <1>5, <1>6, <1>7, <1>8, <1>9
  DEF Next, Answer, Ends

\* A call comes to its end after at most LLM_QUOTA_MAX_RETRIES + 1 processes
\* (llm_svc.py:197-244).
THEOREM CallsEndCorrect == Spec => CallsEnd
<1>1. TypeOK /\ InOrder /\ TypeOK' /\ [Next]_vars =>
        [ \A c \in Callers : Calling(c) /\ call'[c].at # call[c].at =>
            /\ 0 <= Remaining(call'[c])
            /\ Remaining(call'[c]) < Remaining(call[c]) ]_vars
  <2> SUFFICES ASSUME TypeOK, InOrder, TypeOK', [Next]_vars, NEW c \in Callers,
                      Calling(c), call'[c].at # call[c].at
               PROVE  /\ 0 <= Remaining(call'[c])
                      /\ Remaining(call'[c]) < Remaining(call[c])
    OBVIOUS
  <2>1. Remaining(call'[c]) \in Nat
    BY RemainingType DEF TypeOK
  <2> QED
    BY <2>1, RemainingFalls
<1> QED
  BY <1>1, InOrderCorrect, PTL DEF Spec, CallsEnd

===============================================================================
