-------------------------- MODULE SpecReviewProofs --------------------------
(***************************************************************************)
(* Proofs about SpecReview, for every set of tasks and any number of       *)
(* faults.  TypeOK, FlagHasOwner and PendingHasMover are inductive as they *)
(* stand.  What is known of a persisted spec needs Progress, which relates *)
(* the rounds a task has done to where it is, and what is known of a card  *)
(* in Verify needs Alone: without overlap one task is active, and it alone *)
(* decides on the row and the card from its stub to its move to Verify.    *)
(***************************************************************************)
EXTENDS SpecReview, TLAPS

\* What a task has passed, from where it is.
Progress(s) ==
  /\ s.pc \in {"idle", "check", "stub", "download", "init"} =>
       s.round = 0 /\ s.passes = 0
  /\ s.pc = "round" =>
       /\ s.passes = s.round /\ s.round < TotalRounds
       /\ s.round > 0 => ~s.has_pending_qa
  /\ s.pc = "verify" \/ (s.pc = "finalize" /\ s.status = "in_progress") =>
       s.passes = TotalRounds /\ ~s.has_pending_qa

AllProgress == \A r \in Reviews : Progress(review[r])

AtMostOne ==
  \A q, r \in Reviews :
    review[q].pc \in Active /\ review[r].pc \in Active => q = r

Alone ==
  ~overlap =>
    /\ AtMostOne
    /\ card = "Verify" => row.spec # NoReview /\ row.plugin = row.spec
    /\ \A r \in Reviews :
         /\ review[r].pc \in Active \ {"wrap"} => card # "Verify"
         /\ review[r].pc \in Reviewing => row.plugin = NoReview
         /\ review[r].pc = "verify" => row.spec = r /\ row.plugin = r

-----------------------------------------------------------------------------
(* What one step of task r, which leaves it in state s, does to the rest.   *)

Passing(r, s) ==
  s.passes = review[r].passes /\ s.has_pending_qa = review[r].has_pending_qa

Triggers(r, s) ==
  /\ review[r].pc = "idle" /\ s.pc = "check" /\ s.passes = review[r].passes
  /\ row' = row /\ card' = "Pending" /\ faults' = faults
  /\ overlap' = (overlap \/ \E q \in Reviews : review[q].pc \in Active)

\* The task goes on, is sent back to Planning, or ends.
Proceeds(r, s) ==
  /\ review[r].pc \in Active \ {"verify"}
  /\ s.pc \in (Active \cup {"done"}) \ {"verify"}
  /\ s.pc \in Reviewing => review[r].pc \in Reviewing
  /\ s.pc \in {"check", "stub"} => review[r].pc = "check"
  /\ review[r].pc \in {"leave", "wrap"} => s.pc = "done"
  /\ review[r].pc = "wrap" => Passing(r, s)
  /\ review[r].pc # "wrap" /\ s.pc \in {"wrap", "done"} =>
       card' # "Pending" \/ faults' > 0
  /\ Left(s) < Left(review[r])
  /\ \/ s.passes = review[r].passes
     \/ /\ review[r].pc = "round" /\ s.pc \in {"round", "finalize"}
        /\ s.passes = review[r].passes + 1 /\ review[r].passes < TotalRounds
        /\ card' = card
  /\ row' \in {row, Cleared} /\ card' \in {card, "Planning"}
  /\ faults' \in {faults, faults + 1} /\ overlap' = overlap
  /\ review[r].pc \in Owning /\ s.pc \notin Owning =>
       row' = Cleared \/ faults' > 0

Marks(r, s) ==
  /\ review[r].pc = "stub" /\ s.pc = "download"
  /\ s.passes = review[r].passes
  /\ row' = [flag |-> TRUE, stale |-> FALSE,
             plugin |-> NoReview, spec |-> NoReview]
  /\ card' = card /\ faults' = faults /\ overlap' = overlap

Persists(r, s) ==
  /\ review[r].pc = "finalize" /\ review[r].status = "in_progress"
  /\ s.pc = "verify" /\ Passing(r, s)
  /\ row' = Persisted(r)
  /\ card' = card /\ faults' = faults /\ overlap' = overlap

Verifies(r, s) ==
  /\ review[r].pc = "verify" /\ s.pc = "wrap" /\ Passing(r, s)
  /\ row' = row /\ card' \in {card, "Verify"}
  /\ faults' \in {faults, faults + 1} /\ overlap' = overlap
  /\ card' = "Verify" \/ faults' > 0

Effect(r, s) ==
  /\ review' = [review EXCEPT ![r] = s]
  /\ \/ Triggers(r, s) \/ Proceeds(r, s) \/ Marks(r, s) \/ Persists(r, s)
     \/ Verifies(r, s)

\* What a step that is no task's does; a crash ends every task.
Environment ==
  /\ overlap' = overlap
  /\ \/ row' = row /\ faults' = faults /\ review' = review
        /\ card' \in {card} \cup (Columns \ {"Planning", "Pending", "Verify"})
     \/ /\ row' \in {row, Cleared, [row EXCEPT !.stale = TRUE]}
        /\ row'.flag => row.flag
        /\ faults' \in {faults, faults + 1} /\ review' = review
        /\ card' \in {card, "Planning"}
     \/ /\ row' = row /\ card' = card /\ faults' = faults + 1
        /\ review' = [r \in Reviews |->
             IF At(r, "idle") THEN review[r]
             ELSE [review[r] EXCEPT !.pc = "done"]]

-----------------------------------------------------------------------------
LEMMA InitType == Init => TypeOK
<1>1. Fresh \in SpecReviewState
  BY DEF SpecReviewState, Places, Fresh, TotalRounds
<1> SUFFICES ASSUME Init PROVE TypeOK
  OBVIOUS
<1>2. row \in [flag : BOOLEAN, stale : BOOLEAN,
              plugin : Reviews \cup {NoReview}, spec : Reviews \cup {NoReview}]
  BY DEF Init
<1>3. review \in [Reviews -> SpecReviewState]
  BY <1>1 DEF Init
<1> QED BY <1>2, <1>3 DEF Init, TypeOK, Columns

\* The tasks stay tasks when one of them moves on.
LEMMA GotoType ==
  ASSUME TypeOK, NEW r \in Reviews, NEW place \in Places, Goto(r, place)
  PROVE  review' \in [Reviews -> SpecReviewState]
BY DEF TypeOK, Goto, SpecReviewState

LEMMA ClearAndMoveFacts ==
  ASSUME TypeOK, ClearAndMove("Planning")
  PROVE  /\ row' \in {row, Cleared} /\ card' \in {card, "Planning"}
         /\ faults' \in {faults, faults + 1}
         /\ row' = Cleared \/ faults' > 0
         /\ card' = "Planning" \/ faults' > 0
BY DEF ClearAndMove, TypeOK

LEMMA RowType ==
  ASSUME TypeOK
  PROVE  /\ Cleared \in [flag : BOOLEAN, stale : BOOLEAN,
                         plugin : Reviews \cup {NoReview},
                         spec : Reviews \cup {NoReview}]
         /\ ~Cleared.flag /\ Cleared.plugin = row.plugin
         /\ Cleared.spec = row.spec
BY DEF Cleared, TypeOK

\* What a round answers.
LEMMA OutcomeFacts ==
  ASSUME NEW s \in SpecReviewState, s.round < TotalRounds, s.passes = s.round,
         s.round > 0 => ~s.has_pending_qa, NEW t \in Outcomes(s)
  PROVE  LET u == [t EXCEPT !.pc = RouteReview(t)] IN
           /\ u \in SpecReviewState /\ u.pc \in {"round", "finalize"}
           /\ Progress(u) /\ u.passes \in {s.passes, s.passes + 1}
           /\ u.pc = "round" => u.round = s.round + 1
<1> DEFINE u == [t EXCEPT !.pc = RouteReview(t)]
<1>1. CASE t = Aborted(s)
  <2>1. t \in SpecReviewState /\ t.status = "abort"
    BY <1>1 DEF Aborted, SpecReviewState
  <2>2. RouteReview(t) = "finalize"
    BY <2>1 DEF RouteReview
  <2>3. /\ u \in SpecReviewState /\ u.pc = "finalize" /\ u.status = "abort"
        /\ u.passes = s.passes
    BY <1>1, <2>1, <2>2
       DEF Aborted, SpecReviewState, Places, Active, Owning, Reviewing
  <2> QED BY <2>3 DEF Progress
<1>2. CASE t \in Answered(s) /\ ~(s.has_pending_qa /\ s.round = 0)
  <2>1. /\ t \in SpecReviewState /\ t.round = s.round + 1
        /\ t.status = "need_update" \/
             (t.status = "in_progress" /\ t.passes = t.round)
        /\ ~t.has_pending_qa /\ t.passes \in {s.passes, s.passes + 1}
    <3> DEFINE asks == [s EXCEPT !.round = @ + 1, !.status = "need_update"]
               passes == [s EXCEPT !.round = @ + 1, !.passes = @ + 1,
                                   !.status = "in_progress"]
    <3>1. s.round \in 0 .. 1 /\ s.passes \in 0 .. 1 /\ ~s.has_pending_qa
      BY <1>2 DEF SpecReviewState, TotalRounds
    <3>2. CASE t = asks
      <4>1. /\ t.round = s.round + 1 /\ t.status = "need_update"
            /\ t.passes = s.passes
            /\ t.has_pending_qa = s.has_pending_qa
        BY <3>2 DEF SpecReviewState
      <4>2. t \in SpecReviewState
        <5>1. s.round + 1 \in 0 .. TotalRounds
          BY <3>1 DEF TotalRounds
        <5> QED BY <5>1, <3>2 DEF SpecReviewState
      <4> QED BY <3>1, <4>1, <4>2
    <3>3. CASE t = passes
      <4>1. /\ t.round = s.round + 1 /\ t.status = "in_progress"
            /\ t.passes = s.passes + 1
            /\ t.has_pending_qa = s.has_pending_qa
        BY <3>3 DEF SpecReviewState
      <4>2. t \in SpecReviewState
        <5>1. /\ s.round + 1 \in 0 .. TotalRounds
              /\ s.passes + 1 \in 0 .. TotalRounds
          BY <3>1 DEF TotalRounds
        <5> QED BY <5>1, <3>3 DEF SpecReviewState
      <4> QED BY <3>1, <4>1, <4>2
    <3> QED BY <1>2, <3>2, <3>3 DEF Answered
  <2>2. /\ RouteReview(t) \in {"round", "finalize"}
        /\ RouteReview(t) = "round" =>
             t.status = "in_progress" /\ t.round < TotalRounds
        /\ RouteReview(t) = "finalize" /\ t.status = "in_progress" =>
             t.round = TotalRounds
    BY <2>1 DEF RouteReview, SpecReviewState, TotalRounds
  <2>3. /\ u \in SpecReviewState /\ u.pc = RouteReview(t)
        /\ u.round = t.round /\ u.passes = t.passes
        /\ u.status = t.status /\ u.has_pending_qa = t.has_pending_qa
    BY <2>1, <2>2 DEF SpecReviewState, Places, Active, Owning, Reviewing
  <2> QED BY <2>1, <2>2, <2>3 DEF Progress
<1> QED BY <1>1, <1>2 DEF Outcomes

\* Every step of a task is one of the effects, and keeps Progress.
LEMMA StepEffect ==
  ASSUME TypeOK, NEW r \in Reviews, Progress(review[r]),
         Trigger(r) \/ ReviewStep(r)
  PROVE  \E s \in SpecReviewState : Effect(r, s) /\ Progress(s)
<1> DEFINE old == review[r]
           to(place) == [old EXCEPT !.pc = place]
<1>0. /\ old \in SpecReviewState /\ review \in [Reviews -> SpecReviewState]
      /\ faults \in Nat
  BY DEF TypeOK
<1> USE DEF At, Active, Owning, Reviewing
<1>a. ASSUME NEW place \in Places, Goto(r, place)
      PROVE  /\ to(place) \in SpecReviewState /\ to(place).pc = place
             /\ to(place).round = old.round /\ to(place).passes = old.passes
             /\ to(place).status = old.status
             /\ to(place).has_pending_qa = old.has_pending_qa
             /\ Passing(r, to(place))
             /\ review' = [review EXCEPT ![r] = to(place)]
  <2>1. /\ to(place) \in SpecReviewState /\ to(place).pc = place
        /\ to(place).round = old.round /\ to(place).passes = old.passes
        /\ to(place).status = old.status
        /\ to(place).has_pending_qa = old.has_pending_qa
    BY <1>0 DEF SpecReviewState
  <2>2. review' = [review EXCEPT ![r] = to(place)]
    BY <1>0, <1>a DEF Goto
  <2> QED BY <2>1, <2>2 DEF Passing
<1>1. CASE Trigger(r)
  <2>1. Triggers(r, to("check")) /\ Goto(r, "check")
    BY <1>1, <1>0 DEF Trigger, Triggers, SpecReviewState
  <2>2. Progress(to("check"))
    BY <1>1, <1>a, <2>1 DEF Trigger, Progress, Places
  <2> QED BY <1>a, <2>1, <2>2 DEF Effect, Places
<1>2. CASE Check(r)
  <2>1. PICK n \in {"leave", "stub", "done"} : Goto(r, n)
    BY <1>2 DEF Check
  <2>2. Progress(to(n))
    BY <1>2, <1>a, <2>1 DEF Check, Progress, Places
  <2>3. row' \in {row, Cleared} /\ faults' \in {faults, faults + 1}
    BY <1>2 DEF Check, ClearReviewFlag
  <2>5. /\ old.pc = "check" /\ card' = card /\ overlap' = overlap
        /\ n = "done" => faults' > 0
    <3>1. to(n).pc = n /\ review' = [review EXCEPT ![r] = to(n)]
      BY <1>a, <2>1 DEF Places
    <3>2. review'[r].pc = n
      BY <1>0, <3>1
    <3>3. Goto(r, "leave") \/ Goto(r, "stub") => review'[r].pc \in {"leave", "stub"}
      BY <1>0 DEF Goto, SpecReviewState
    <3> QED BY <1>0, <1>2, <3>2, <3>3 DEF Check
  <2>4. Proceeds(r, to(n))
    BY <1>a, <2>1, <2>3, <2>5 DEF Proceeds, Places, Left
  <2> QED BY <1>a, <2>1, <2>2, <2>4 DEF Effect, Places
<1>3. CASE Leave(r)
  <2>1. Goto(r, "done")
    BY <1>3 DEF Leave
  <2>2. Progress(to("done"))
    BY <1>a, <2>1 DEF Progress, Places
  <2>3. Proceeds(r, to("done"))
    BY <1>3, <1>a, <2>1, ClearAndMoveFacts DEF Leave, Proceeds, Places, Left
  <2> QED BY <1>a, <2>1, <2>2, <2>3 DEF Effect, Places
<1>4. CASE Stub(r)
  <2>1. Goto(r, "download") /\ Marks(r, to("download"))
    BY <1>4, <1>0 DEF Stub, Marks, SpecReviewState
  <2>2. Progress(to("download"))
    BY <1>4, <1>a, <2>1 DEF Stub, Progress, Places
  <2> QED BY <1>a, <2>1, <2>2 DEF Effect, Places
<1>5. CASE Download(r)
  <2>1. row' = row /\ card' = card /\ faults' = faults /\ overlap' = overlap
        /\ old.pc = "download"
    BY <1>5 DEF Download
  <2>2. CASE Goto(r, "leave")
    <3>1. Progress(to("leave")) /\ Proceeds(r, to("leave"))
      BY <2>1, <2>2, <1>a DEF Progress, Proceeds, Places, Left
    <3> QED BY <1>a, <2>2, <3>1 DEF Effect, Places
  <2>3. ASSUME latest # "none", NEW qa \in BOOLEAN,
               review' = [review EXCEPT ![r].pc = "init", ![r].doc = latest,
                                        ![r].has_pending_qa = qa]
        PROVE  \E s \in SpecReviewState : Effect(r, s) /\ Progress(s)
    <3> DEFINE s == [old EXCEPT !.pc = "init", !.doc = latest,
                                !.has_pending_qa = qa]
    <3>1. /\ s \in SpecReviewState /\ s.pc = "init" /\ s.round = old.round
          /\ s.passes = old.passes
      BY <1>0, <2>3 DEF TypeOK, SpecReviewState, Places
    <3>2. review' = [review EXCEPT ![r] = s]
      BY <1>0, <2>3
    <3>3. Progress(s) /\ Proceeds(r, s)
      BY <2>1, <3>1 DEF Progress, Proceeds, Left
    <3> QED BY <3>1, <3>2, <3>3 DEF Effect
  <2>4. CASE latest # "none" /\ ~Goto(r, "leave")
    <3>1. {FALSE, (talk \in {"system", "reply"})} \subseteq BOOLEAN
      OBVIOUS
    <3>2. \E qa \in BOOLEAN :
            review' = [review EXCEPT ![r].pc = "init", ![r].doc = latest,
                                     ![r].has_pending_qa = qa]
      BY <1>5, <2>4, <3>1, Zenon DEF Download
    <3> QED BY <2>3, <2>4, <3>2
  <2> QED BY <1>5, <2>2, <2>4 DEF Download
<1>6. CASE ReviewInit(r)
  <2>1. row' = row /\ card' = card /\ faults' = faults /\ overlap' = overlap
        /\ old.pc = "init" /\ old.round = 0 /\ old.passes = 0
    BY <1>6 DEF ReviewInit, Progress
  <2>2. ASSUME NEW s \in SpecReviewState, s.pc = "round",
               s.round = old.round, s.passes = old.passes,
               review' = [review EXCEPT ![r] = s]
        PROVE  Effect(r, s) /\ Progress(s)
    <3>1. Progress(s) /\ Proceeds(r, s)
      BY <2>1, <2>2 DEF Progress, Proceeds, TotalRounds, Left
    <3> QED BY <2>2, <3>1 DEF Effect
  <2>3. CASE review' = [review EXCEPT ![r].pc = "round",
                                      ![r].participants = TRUE]
    <3> DEFINE s == [old EXCEPT !.pc = "round", !.participants = TRUE]
    <3>1. /\ s \in SpecReviewState /\ s.pc = "round"
          /\ s.round = old.round /\ s.passes = old.passes
      BY <1>0 DEF SpecReviewState, Places
    <3>2. review' = [review EXCEPT ![r] = s]
      BY <1>0, <2>3
    <3> QED BY <2>2, <3>1, <3>2
  <2>4. ASSUME NEW chain \in BOOLEAN,
               review' = [review EXCEPT ![r].pc = "round",
                                        ![r].participants = chain,
                                        ![r].status = "abort",
                                        ![r].has_pending_qa = FALSE]
        PROVE  \E s \in SpecReviewState : Effect(r, s) /\ Progress(s)
    <3> DEFINE s == [old EXCEPT !.pc = "round", !.participants = chain,
                                !.status = "abort", !.has_pending_qa = FALSE]
    <3>1. /\ s \in SpecReviewState /\ s.pc = "round"
          /\ s.round = old.round /\ s.passes = old.passes
      BY <1>0 DEF SpecReviewState, Places
    <3>2. review' = [review EXCEPT ![r] = s]
      BY <1>0, <2>4
    <3> QED BY <2>2, <3>1, <3>2
  <2> QED BY <1>6, <2>3, <2>4 DEF ReviewInit
<1>7. CASE ReviewRound(r)
  <2>1. row' = row /\ card' = card /\ faults' = faults /\ overlap' = overlap
        /\ old.pc = "round"
    BY <1>7 DEF ReviewRound
  <2>2. PICK t \in Outcomes(old) :
          review' = [review EXCEPT ![r] = [t EXCEPT !.pc = RouteReview(t)]]
    BY <1>7 DEF ReviewRound
  <2> DEFINE s == [t EXCEPT !.pc = RouteReview(t)]
  <2>3. /\ s \in SpecReviewState /\ s.pc \in {"round", "finalize"}
        /\ Progress(s) /\ s.passes \in {old.passes, old.passes + 1}
        /\ old.passes < TotalRounds
        /\ s.pc = "round" => s.round = old.round + 1
    BY <1>0, <2>1, OutcomeFacts DEF Progress
  <2>5. Left(s) < Left(old)
    BY <1>0, <2>1, <2>3 DEF Left, SpecReviewState, TotalRounds, Progress
  <2>4. Proceeds(r, s)
    BY <2>1, <2>3, <2>5 DEF Proceeds
  <2> QED BY <2>2, <2>3, <2>4 DEF Effect
<1>8. CASE Ask(r) \/ Abort(r)
  <2>1. Goto(r, "wrap") /\ old.pc = "finalize"
    BY <1>8 DEF Ask, Abort
  <2>2. Progress(to("wrap"))
    BY <1>a, <2>1 DEF Progress, Places
  <2>3. Proceeds(r, to("wrap"))
    BY <1>0, <1>8, <1>a, <2>1 DEF Ask, Abort, Move, Proceeds, Places, Left
  <2> QED BY <1>a, <2>1, <2>2, <2>3 DEF Effect, Places
<1>9. CASE Persist(r)
  <2>1. CASE Goto(r, "verify") /\ row' = Persisted(r) /\ card' = card
             /\ faults' = faults
    <3>1. Progress(to("verify"))
      BY <1>9, <1>a, <2>1 DEF Persist, Progress, Places
    <3>2. Persists(r, to("verify"))
      BY <1>9, <1>a, <2>1 DEF Persist, Persists, Places
    <3> QED BY <1>a, <2>1, <3>1, <3>2 DEF Effect, Places
  <2>2. CASE Goto(r, "wrap") /\ row' = row /\ card' \in {card, "Planning"}
             /\ faults' = faults + 1
    <3>1. Progress(to("wrap"))
      BY <1>a, <2>2 DEF Progress, Places
    <3>2. Proceeds(r, to("wrap"))
      BY <1>0, <1>9, <1>a, <2>2 DEF Persist, Proceeds, Places, Left
    <3> QED BY <1>a, <2>2, <3>1, <3>2 DEF Effect, Places
  <2> QED BY <1>9, <2>1, <2>2 DEF Persist
<1>10. CASE MoveToVerify(r)
  <2>1. Goto(r, "wrap") /\ old.pc = "verify"
    BY <1>10 DEF MoveToVerify
  <2>2. Progress(to("wrap"))
    BY <1>a, <2>1 DEF Progress, Places
  <2>3. Verifies(r, to("wrap"))
    BY <1>0, <1>10, <1>a, <2>1 DEF MoveToVerify, Move, Verifies, Places
  <2> QED BY <1>a, <2>1, <2>2, <2>3 DEF Effect, Places
<1>11. CASE Wrap(r)
  <2>1. Goto(r, "done") /\ old.pc = "wrap"
    BY <1>11 DEF Wrap
  <2>2. Progress(to("done"))
    BY <1>a, <2>1 DEF Progress, Places
  <2>3. Proceeds(r, to("done"))
    BY <1>0, <1>11, <1>a, <2>1 DEF Wrap, ClearReviewFlag, Proceeds, Places, Left
  <2> QED BY <1>a, <2>1, <2>2, <2>3 DEF Effect, Places
<1>12. CASE Fail(r)
  <2>1. Goto(r, "done")
        /\ old.pc \in {"stub", "init", "round", "finalize", "wrap"}
    BY <1>12 DEF Fail
  <2>2. Progress(to("done"))
    BY <1>a, <2>1 DEF Progress, Places
  <2>4. Left(to("done")) < Left(old)
    <3>1. /\ Left(to("done")) = 0 /\ Left(old) \in Nat \ {0}
      BY <1>0, <1>a, <2>1 DEF Left, SpecReviewState, TotalRounds, Places
    <3> QED BY <3>1
  <2>3. Proceeds(r, to("done"))
    BY <1>12, <1>a, <2>1, <2>4, ClearAndMoveFacts DEF Fail, Proceeds, Places
  <2> QED BY <1>a, <2>1, <2>2, <2>3 DEF Effect, Places
<1> QED
  BY <1>1, <1>2, <1>3, <1>4, <1>5, <1>6, <1>7, <1>8, <1>9, <1>10, <1>11,
     <1>12 DEF ReviewStep

\* Every other step is one of the environment.
LEMMA EnvironmentEffect ==
  ASSUME TypeOK, Scheduler \/ User \/ Research \/ Expire \/ Crash
  PROVE  Environment
<1>1. CASE Scan \/ User
  BY <1>1 DEF Scan, User, Reply, UploadSpec, Environment
<1>2. CASE Sweep
  <2>1. review' = review /\ overlap' = overlap
    BY <1>2 DEF Sweep
  <2> QED BY <1>2, <2>1, ClearAndMoveFacts, RowType DEF Sweep, Environment
<1>3. CASE Research
  BY <1>3 DEF Research, Environment, Columns
<1>4. CASE Expire
  BY <1>4 DEF Expire, Environment
<1>5. CASE Crash
  BY <1>5 DEF Crash, Environment
<1> QED BY <1>1, <1>2, <1>3, <1>4, <1>5 DEF Scheduler

LEMMA NextEffect ==
  ASSUME TypeOK, AllProgress, [Next]_vars
  PROVE  \/ UNCHANGED vars
         \/ Environment
         \/ \E r \in Reviews, s \in SpecReviewState : Effect(r, s) /\ Progress(s)
<1>1. CASE \E r \in Reviews : Trigger(r) \/ ReviewStep(r)
  BY <1>1, StepEffect DEF AllProgress
<1>2. CASE Scheduler \/ User \/ Research \/ Expire \/ Crash
  BY <1>2, EnvironmentEffect
<1> QED BY <1>1, <1>2 DEF Next

\* What no effect speaks of keeps to its values as well.
LEMMA RestType ==
  ASSUME TypeOK, [Next]_vars
  PROVE  /\ latest' \in {"none", "spec", "report"} /\ sweep' \in BOOLEAN
         /\ talk' \in {"none", "asked", "system", "reply"}
<1> USE DEF TypeOK
<1>1. ASSUME NEW r \in Reviews, Trigger(r) \/ ReviewStep(r)
      PROVE  latest' = latest /\ sweep' = sweep /\
             talk' \in {"none", "asked", "system", "reply"}
  <2>1. CASE Trigger(r) \/ Check(r) \/ Leave(r) \/ Stub(r) \/ Wrap(r)
    BY <2>1 DEF Trigger, Check, Leave, Stub, Wrap
  <2>2. CASE Download(r) \/ ReviewInit(r) \/ ReviewRound(r) \/ Ask(r) \/ Abort(r)
    BY <2>2 DEF Download, ReviewInit, ReviewRound, Ask, Abort, Post
  <2>3. CASE Persist(r) \/ MoveToVerify(r) \/ Fail(r)
    BY <2>3 DEF Persist, MoveToVerify, Fail, Post
  <2> QED BY <1>1, <2>1, <2>2, <2>3 DEF ReviewStep
<1>2. CASE Scheduler \/ User \/ Research \/ Expire \/ Crash
  BY <1>2 DEF Scheduler, Scan, Sweep, User, Reply, UploadSpec, Research, Expire,
              Crash, Post
<1>3. CASE UNCHANGED vars
  BY <1>3 DEF vars
<1> QED BY <1>1, <1>2, <1>3 DEF Next

LEMMA TypeNext ==
  ASSUME TypeOK, AllProgress, [Next]_vars
  PROVE  TypeOK' /\ AllProgress'
<1>0. /\ review \in [Reviews -> SpecReviewState] /\ faults \in Nat
      /\ card \in Columns /\ overlap \in BOOLEAN
      /\ row \in [flag : BOOLEAN, stale : BOOLEAN,
                  plugin : Reviews \cup {NoReview},
                  spec : Reviews \cup {NoReview}]
  BY DEF TypeOK
<1>1. CASE UNCHANGED vars
  BY <1>1 DEF vars, TypeOK, AllProgress, Progress
<1>2. CASE Environment
  <2>1. /\ review' \in [Reviews -> SpecReviewState]
        /\ \A r \in Reviews : Progress(review'[r])
    <3>1. CASE review' = review
      BY <1>0, <3>1 DEF AllProgress
    <3>2. CASE review' = [r \in Reviews |->
                 IF At(r, "idle") THEN review[r]
                 ELSE [review[r] EXCEPT !.pc = "done"]]
      <4>1. ASSUME NEW r \in Reviews
            PROVE  /\ [review[r] EXCEPT !.pc = "done"] \in SpecReviewState
                   /\ Progress([review[r] EXCEPT !.pc = "done"])
                   /\ review[r] \in SpecReviewState /\ Progress(review[r])
        BY <1>0 DEF SpecReviewState, Places, Progress, AllProgress
      <4> QED BY <3>2, <4>1
    <3> QED BY <1>2, <3>1, <3>2 DEF Environment
  <2>2. card' \in Columns /\ faults' \in Nat /\ overlap' \in BOOLEAN
    BY <1>0, <1>2 DEF Environment, Columns
  <2>3. row' \in [flag : BOOLEAN, stale : BOOLEAN,
                 plugin : Reviews \cup {NoReview},
                 spec : Reviews \cup {NoReview}]
    BY <1>0, <1>2, RowType DEF Environment
  <2> QED BY <2>1, <2>2, <2>3, RestType DEF TypeOK, AllProgress
<1>3. ASSUME NEW r \in Reviews, NEW s \in SpecReviewState,
             Effect(r, s), Progress(s)
      PROVE  TypeOK' /\ AllProgress'
  <2>1. /\ review' \in [Reviews -> SpecReviewState]
        /\ \A q \in Reviews : Progress(review'[q])
    <3>1. \A q \in Reviews :
            review'[q] = s \/ (review'[q] = review[q] /\ Progress(review[q]))
      BY <1>0, <1>3 DEF Effect, AllProgress
    <3>2. review' \in [Reviews -> SpecReviewState]
      BY <1>0, <1>3 DEF Effect
    <3>3. ASSUME NEW q \in Reviews PROVE Progress(review'[q])
      BY <1>3, <3>1
    <3> QED BY <3>2, <3>3
  <2>2. card' \in Columns /\ faults' \in Nat
    BY <1>0, <1>3 DEF Effect, Triggers, Proceeds, Marks, Persists, Verifies,
                     Columns
  <2>3. overlap' \in BOOLEAN
    BY <1>0, <1>3 DEF Effect, Triggers, Proceeds, Marks, Persists, Verifies
  <2>4. row' \in [flag : BOOLEAN, stale : BOOLEAN,
                 plugin : Reviews \cup {NoReview},
                 spec : Reviews \cup {NoReview}]
    <3>1. CASE row' \in {row, Cleared}
      BY <1>0, <3>1, RowType
    <3>2. CASE row' = [flag |-> TRUE, stale |-> FALSE,
                       plugin |-> NoReview, spec |-> NoReview]
      BY <3>2
    <3>3. CASE row' = Persisted(r)
      BY <1>0, <3>3 DEF Persisted
    <3> QED BY <1>3, <3>1, <3>2, <3>3
            DEF Effect, Triggers, Proceeds, Marks, Persists, Verifies
  <2> QED BY <2>1, <2>2, <2>3, <2>4, RestType DEF TypeOK, AllProgress
<1> QED BY <1>1, <1>2, <1>3, NextEffect

\* The types and the progress of the tasks, as invariants.
LEMMA Typed == Spec => [](TypeOK /\ AllProgress)
<1>1. Init => TypeOK /\ AllProgress
  BY InitType DEF Init, AllProgress, Progress, Fresh
<1>2. TypeOK /\ AllProgress /\ [Next]_vars => (TypeOK /\ AllProgress)'
  BY TypeNext
<1> QED BY <1>1, <1>2, PTL DEF Spec

\* Every variable keeps to its values, however many reviews of the project
\* run at once and whatever fails.
THEOREM TypeCorrect == Spec => []TypeOK
BY Typed, PTL

\* Every path of a review, the early returns and the except clause included,
\* takes the mark down: without a fault the mark has an owner.
THEOREM MarkOwned == Spec => []FlagHasOwner
<1>1. Init => FlagHasOwner
  BY DEF Init, FlagHasOwner
<1>2. TypeOK /\ AllProgress /\ FlagHasOwner /\ [Next]_vars => FlagHasOwner'
  <2> SUFFICES ASSUME TypeOK, AllProgress, FlagHasOwner, [Next]_vars,
                      row'.flag, ~(faults' > 0)
               PROVE  \E q \in Reviews : review'[q].pc \in Owning
    BY DEF FlagHasOwner
  <2>0. review \in [Reviews -> SpecReviewState] /\ faults \in Nat
    BY DEF TypeOK
  <2>1. CASE UNCHANGED vars
    BY <2>1 DEF vars, FlagHasOwner
  <2>2. CASE Environment
    <3>1. row.flag /\ faults' = faults /\ review' = review
      BY <2>0, <2>2 DEF Environment
    <3> QED BY <3>1 DEF FlagHasOwner
  <2>3. ASSUME NEW r \in Reviews, NEW s \in SpecReviewState, Effect(r, s)
        PROVE  \E q \in Reviews : review'[q].pc \in Owning
    <3>1. review'[r] = s /\ \A q \in Reviews \ {r} : review'[q] = review[q]
      BY <2>0, <2>3 DEF Effect
    <3>2. CASE s.pc \in Owning
      BY <3>1, <3>2
    <3>3. CASE s.pc \notin Owning
      <4>1. Triggers(r, s) \/ Proceeds(r, s)
        BY <2>3, <3>3 DEF Effect, Marks, Persists, Verifies, Owning, Reviewing
      <4>2. /\ row.flag /\ ~(faults > 0) /\ review[r].pc \notin Owning
        BY <2>0, <4>1, <3>3, RowType DEF Triggers, Proceeds, Owning, Reviewing
      <4>3. PICK q \in Reviews : review[q].pc \in Owning
        BY <4>2 DEF FlagHasOwner
      <4> QED BY <3>1, <4>2, <4>3
    <3> QED BY <3>2, <3>3
  <2> QED BY <2>1, <2>2, <2>3, NextEffect
<1> QED BY <1>1, <1>2, Typed, PTL DEF Spec

\* The spec in the row passed both rounds of one review that was not a
\* refinement, whatever other reviews, crashes and sweeps came between.
THEOREM SpecPassed == Spec => []SpecPassedBothRounds
<1>1. Init => SpecPassedBothRounds
  BY NoReviewAssumption DEF Init, SpecPassedBothRounds
<1>2. TypeOK /\ AllProgress /\ SpecPassedBothRounds /\ [Next]_vars
      => SpecPassedBothRounds'
  <2> SUFFICES ASSUME TypeOK, AllProgress, SpecPassedBothRounds, [Next]_vars,
                      NEW q \in Reviews, row'.spec = q
               PROVE  /\ review'[q].passes = TotalRounds
                      /\ ~review'[q].has_pending_qa
                      /\ review'[q].pc \in {"verify", "wrap", "done"}
    BY DEF SpecPassedBothRounds
  <2>0. review \in [Reviews -> SpecReviewState]
    BY DEF TypeOK
  <2>1. CASE UNCHANGED vars
    BY <2>1 DEF vars, SpecPassedBothRounds
  <2>2. CASE Environment
    <3>1. row.spec = q
      BY <2>2, RowType DEF Environment, TypeOK
    <3>2. CASE review' = review
      BY <3>1, <3>2 DEF SpecPassedBothRounds
    <3>3. CASE review' = [r \in Reviews |->
                 IF At(r, "idle") THEN review[r]
                 ELSE [review[r] EXCEPT !.pc = "done"]]
      <4>1. ~At(q, "idle")
        BY <3>1 DEF SpecPassedBothRounds, At
      <4> QED
        BY <2>0, <3>1, <3>3, <4>1 DEF SpecPassedBothRounds, SpecReviewState
    <3> QED BY <2>2, <3>2, <3>3 DEF Environment
  <2>3. ASSUME NEW r \in Reviews, NEW s \in SpecReviewState, Effect(r, s)
        PROVE  /\ review'[q].passes = TotalRounds
               /\ ~review'[q].has_pending_qa
               /\ review'[q].pc \in {"verify", "wrap", "done"}
    <3>1. review'[r] = s /\ \A p \in Reviews \ {r} : review'[p] = review[p]
      BY <2>0, <2>3 DEF Effect
    <3>2. CASE Persists(r, s)
      <4>1. q = r
        BY <3>2 DEF Persists, Persisted
      <4>2. review[r].passes = TotalRounds /\ ~review[r].has_pending_qa
        BY <3>2 DEF Persists, AllProgress, Progress
      <4> QED BY <3>1, <3>2, <4>1, <4>2 DEF Persists, Passing
    <3>3. CASE ~Persists(r, s)
      <4>1. row.spec = q
        BY <2>3, <3>3, RowType, NoReviewAssumption
           DEF Effect, Triggers, Proceeds, Marks, Verifies
      <4>2. /\ review[q].passes = TotalRounds /\ ~review[q].has_pending_qa
            /\ review[q].pc \in {"verify", "wrap", "done"}
        BY <4>1 DEF SpecPassedBothRounds
      <4>3. CASE q = r
        <5>1. s.pc \in {"wrap", "done"} /\ Passing(r, s)
          BY <2>3, <3>3, <4>2, <4>3
             DEF Effect, Triggers, Proceeds, Marks, Verifies, Active, Owning,
                 Reviewing
        <5> QED BY <3>1, <4>2, <4>3, <5>1 DEF Passing
      <4> QED BY <3>1, <4>2, <4>3
    <3> QED BY <3>2, <3>3
  <2> QED BY <2>1, <2>2, <2>3, NextEffect
<1> QED BY <1>1, <1>2, Typed, PTL DEF Spec

\* Alone is inductive.
LEMMA AloneNext ==
  ASSUME TypeOK, AllProgress, Alone, [Next]_vars
  PROVE  Alone'
<1> SUFFICES ASSUME ~overlap'
             PROVE  /\ AtMostOne'
                    /\ card' = "Verify" =>
                         row'.spec # NoReview /\ row'.plugin = row'.spec
                    /\ \A q \in Reviews :
                         /\ review'[q].pc \in Active \ {"wrap"} =>
                              card' # "Verify"
                         /\ review'[q].pc \in Reviewing =>
                              row'.plugin = NoReview
                         /\ review'[q].pc = "verify" =>
                              row'.spec = q /\ row'.plugin = q
  BY DEF Alone
<1>0. /\ review \in [Reviews -> SpecReviewState]
      /\ row.flag \in BOOLEAN
      /\ row \in [flag : BOOLEAN, stale : BOOLEAN,
                  plugin : Reviews \cup {NoReview},
                  spec : Reviews \cup {NoReview}]
  BY DEF TypeOK
<1>1. CASE UNCHANGED vars
  BY <1>1 DEF vars, Alone, AtMostOne
<1>2. CASE Environment
  <2>1. ~overlap /\ row'.plugin = row.plugin /\ row'.spec = row.spec
    BY <1>0, <1>2, RowType DEF Environment
  <2>2. card' = "Verify" => card = "Verify"
    BY <1>2 DEF Environment
  <2>3. \A q \in Reviews :
          review'[q].pc = review[q].pc \/ review'[q].pc = "done"
    <3>1. CASE review' = review
      BY <3>1
    <3>2. CASE review' = [r \in Reviews |->
                 IF At(r, "idle") THEN review[r]
                 ELSE [review[r] EXCEPT !.pc = "done"]]
      BY <1>0, <3>2 DEF SpecReviewState
    <3> QED BY <1>2, <3>1, <3>2 DEF Environment
  <2>4. \A q \in Reviews : review'[q].pc \in Active =>
          review'[q].pc = review[q].pc
    BY <2>3 DEF Active, Owning, Reviewing
  <2> QED
    BY <2>1, <2>2, <2>4 DEF Alone, AtMostOne, Active, Owning
<1>3. ASSUME NEW r \in Reviews, NEW s \in SpecReviewState, Effect(r, s)
      PROVE  /\ AtMostOne'
             /\ card' = "Verify" =>
                  row'.spec # NoReview /\ row'.plugin = row'.spec
             /\ \A q \in Reviews :
                  /\ review'[q].pc \in Active \ {"wrap"} =>
                       card' # "Verify"
                  /\ review'[q].pc \in Reviewing => row'.plugin = NoReview
                  /\ review'[q].pc = "verify" =>
                       row'.spec = q /\ row'.plugin = q
  <2>1. ~overlap
    BY <1>3 DEF Effect, Triggers, Proceeds, Marks, Persists, Verifies
  <2>2. review'[r] = s /\ \A q \in Reviews \ {r} : review'[q] = review[q]
    BY <1>0, <1>3 DEF Effect
  <2>3. \A q \in Reviews \ {r} : review'[q].pc \notin Active
    <3>1. CASE Triggers(r, s)
      BY <2>2, <3>1 DEF Triggers
    <3>2. CASE review[r].pc \in Active
      BY <2>1, <2>2, <3>2 DEF Alone, AtMostOne
    <3> QED
      BY <1>3, <3>1, <3>2
         DEF Effect, Proceeds, Marks, Persists, Verifies, Active, Owning,
             Reviewing
  <2>4. AtMostOne'
    BY <2>3 DEF AtMostOne
  <2>5. /\ card' = "Verify" =>
              row'.spec # NoReview /\ row'.plugin = row'.spec
        /\ s.pc \in Active \ {"wrap"} => card' # "Verify"
        /\ s.pc \in Reviewing => row'.plugin = NoReview
        /\ s.pc = "verify" => row'.spec = r /\ row'.plugin = r
    <3> USE DEF Active, Owning, Reviewing
    <3>1. CASE Triggers(r, s)
      BY <3>1 DEF Triggers
    <3>2. CASE Proceeds(r, s)
      <4>1. row'.plugin = row.plugin /\ row'.spec = row.spec
        BY <3>2, RowType DEF Proceeds
      <4>2. card' = "Verify" => card = "Verify"
        BY <3>2 DEF Proceeds
      <4> QED BY <2>1, <3>2, <4>1, <4>2 DEF Proceeds, Alone
    <3>3. CASE Marks(r, s)
      BY <2>1, <3>3 DEF Marks, Alone
    <3>4. CASE Persists(r, s)
      <4>1. row'.spec = r /\ row'.plugin = r
        BY <2>1, <3>4 DEF Persists, Persisted, Alone
      <4> QED BY <2>1, <3>4, <4>1 DEF Persists, Alone
    <3>5. CASE Verifies(r, s)
      <4>1. row'.spec = r /\ row'.plugin = r
        BY <2>1, <3>5 DEF Verifies, Alone
      <4> QED BY <3>5, <4>1, NoReviewAssumption DEF Verifies
    <3> QED BY <1>3, <3>1, <3>2, <3>3, <3>4, <3>5 DEF Effect
  <2>6. ASSUME NEW q \in Reviews
        PROVE  /\ review'[q].pc \in Active \ {"wrap"} => card' # "Verify"
               /\ review'[q].pc \in Reviewing => row'.plugin = NoReview
               /\ review'[q].pc = "verify" =>
                    row'.spec = q /\ row'.plugin = q
    <3>1. CASE q = r
      BY <2>2, <2>5, <3>1
    <3>2. CASE q # r
      BY <2>3, <3>2 DEF Active, Owning, Reviewing
    <3> QED BY <3>1, <3>2
  <2> QED BY <2>4, <2>5, <2>6
<1> QED BY <1>1, <1>2, <1>3, NextEffect

\* As long as no review is triggered while another is going on, a card is in
\* Verify only with a reviewed spec in the row, for the plugin it names.
THEOREM VerifyHasSpec == Spec => []VerifiedSpec
<1>1. Init => Alone
  BY DEF Init, Alone, AtMostOne, Fresh, Active, Owning, Reviewing
<1>2. TypeOK /\ AllProgress /\ Alone /\ [Next]_vars => Alone'
  BY AloneNext
<1>3. Alone => VerifiedSpec
  BY DEF Alone, VerifiedSpec
<1> QED BY <1>1, <1>2, <1>3, Typed, PTL DEF Spec

-----------------------------------------------------------------------------
(* The contract of the gate.                                               *)

LEMMA StageFacts ==
  ASSUME TypeOK, NEW r \in Reviews, NEW s \in SpecReviewState,
         review' = [review EXCEPT ![r] = s]
  PROVE  /\ Stage' = [Stage EXCEPT ![r] = StageAt(s.pc)]
         /\ Passes' = [Passes EXCEPT ![r] = s.passes]
         /\ Stage[r] = StageAt(review[r].pc) /\ Passes[r] = review[r].passes
<1>1. \A q \in Reviews : review'[q] = IF q = r THEN s ELSE review[q]
  BY DEF TypeOK
<1>2. ASSUME NEW q \in Reviews
      PROVE  /\ StageAt(review'[q].pc) =
                  IF q = r THEN StageAt(s.pc) ELSE StageAt(review[q].pc)
             /\ review'[q].passes = IF q = r THEN s.passes ELSE review[q].passes
  BY <1>1
<1>3. Stage' = [q \in Reviews |->
                  IF q = r THEN StageAt(s.pc) ELSE StageAt(review[q].pc)]
  BY <1>2 DEF Stage
<1>4. Passes' = [q \in Reviews |->
                   IF q = r THEN s.passes ELSE review[q].passes]
  BY <1>2 DEF Passes
<1> QED BY <1>3, <1>4 DEF Stage, Passes

\* A closing of the reviews in closing, or of none.
LEMMA Closing ==
  ASSUME NEW closing \in SUBSET {q \in Reviews : Stage[q] # "waiting"},
         Stage' = [q \in Reviews |-> IF q \in closing THEN "closed" ELSE Stage[q]],
         Passes' = Passes, row'.spec = row.spec,
         card' = "Verify" => card = "Verify"
  PROVE  Contract!Next
<1>1. (card' = "Verify") \in {(card = "Verify"), FALSE}
  OBVIOUS
<1> QED BY <1>1 DEF Contract!Next, Contract!Close

\* A step of task r that closes its review, or leaves it where it is.
LEMMA Settling ==
  ASSUME NEW r \in Reviews, NEW to, to \in {Stage[r], "closed"},
         Stage[r] # "waiting", Stage' = [Stage EXCEPT ![r] = to],
         Passes' = Passes, row'.spec = row.spec,
         card' = "Verify" => card = "Verify"
  PROVE  Contract!Next
<1> DEFINE closing == IF to = "closed" THEN {r} ELSE {}
<1>1. closing \in SUBSET {q \in Reviews : Stage[q] # "waiting"}
  OBVIOUS
<1>2. Stage' = [q \in Reviews |-> IF q \in closing THEN "closed" ELSE Stage[q]]
  BY DEF Stage
<1> HIDE DEF closing
<1> QED BY <1>1, <1>2, Closing

LEMMA ContractStep ==
  ASSUME TypeOK, AllProgress, [Next]_vars
  PROVE  [Contract!Next]_(Contract!contractVars)
<1>1. CASE UNCHANGED vars
  BY <1>1 DEF vars, Stage, Passes, Contract!contractVars
<1>2. CASE Environment
  <2>1. row'.spec = row.spec /\ (card' = "Verify" => card = "Verify")
    BY <1>2, RowType DEF Environment, TypeOK
  <2>2. CASE review' = review
    <3>1. Stage' = [q \in Reviews |-> IF q \in {} THEN "closed" ELSE Stage[q]]
      BY <2>2 DEF Stage
    <3>2. Passes' = Passes
      BY <2>2 DEF Passes
    <3>3. {} \in SUBSET {q \in Reviews : Stage[q] # "waiting"}
      OBVIOUS
    <3> QED BY <2>1, <3>1, <3>2, <3>3, Closing
  <2>3. CASE review' = [r \in Reviews |->
               IF At(r, "idle") THEN review[r]
               ELSE [review[r] EXCEPT !.pc = "done"]]
    <3> DEFINE closing == {q \in Reviews : Stage[q] # "waiting"}
    <3>1. ASSUME NEW q \in Reviews
          PROVE  /\ review'[q].passes = review[q].passes
                 /\ q \in closing <=> ~At(q, "idle")
                 /\ StageAt(review'[q].pc) =
                      IF q \in closing THEN "closed" ELSE Stage[q]
      <4>1. review[q] \in SpecReviewState
        BY DEF TypeOK
      <4>2. q \in closing <=> ~At(q, "idle")
        BY <4>1 DEF Stage, StageAt, At, SpecReviewState, Places, Active,
                    Owning, Reviewing
      <4> QED
        BY <2>3, <4>1, <4>2
           DEF SpecReviewState, Stage, StageAt, At, Reviewing
    <3>2. Stage' = [q \in Reviews |-> IF q \in closing THEN "closed" ELSE Stage[q]]
      BY <3>1 DEF Stage
    <3>3. Passes' = Passes
      BY <3>1 DEF Passes
    <3> HIDE DEF closing
    <3>4. closing \in SUBSET {q \in Reviews : Stage[q] # "waiting"}
      BY DEF closing
    <3> QED BY <2>1, <3>2, <3>3, <3>4, Closing
  <2> QED BY <1>2, <2>2, <2>3 DEF Environment
<1>3. ASSUME NEW r \in Reviews, NEW s \in SpecReviewState, Effect(r, s)
      PROVE  [Contract!Next]_(Contract!contractVars)
  <2>0. /\ review \in [Reviews -> SpecReviewState]
        /\ review' = [review EXCEPT ![r] = s]
    BY <1>3 DEF TypeOK, Effect
  <2>1. /\ Stage' = [Stage EXCEPT ![r] = StageAt(s.pc)]
        /\ Passes' = [Passes EXCEPT ![r] = s.passes]
        /\ Stage[r] = StageAt(review[r].pc) /\ Passes[r] = review[r].passes
    BY <2>0, StageFacts
  <2>2. s.passes = review[r].passes => Passes' = Passes
    BY <2>1 DEF Passes
  <2>3. StageAt(s.pc) = Stage[r] => Stage' = Stage
    BY <2>1 DEF Stage
  <2>4. CASE Triggers(r, s)
    <3>1. StageAt("idle") = "waiting" /\ StageAt("check") = "submitted"
      BY DEF StageAt, Reviewing
    <3>2. (card' = "Verify") = FALSE
      BY <2>4 DEF Triggers
    <3>3. Contract!Submit(r)
      BY <2>1, <2>2, <2>4, <3>1, <3>2
         DEF Triggers, Contract!Submit, Contract!Enter
    <3> QED BY <3>3 DEF Contract!Next
  <2>5. CASE Proceeds(r, s)
    <3>1. row'.spec = row.spec /\ (card' = "Verify" => card = "Verify")
      BY <2>5, RowType DEF Proceeds
    <3>2. /\ StageAt(s.pc) \in {Stage[r], "closed"} /\ Stage[r] # "waiting"
          /\ review[r].pc = "round" /\ s.pc \in {"round", "finalize"} =>
               StageAt(s.pc) = Stage[r] /\ Stage[r] = "reviewing"
      BY <2>1, <2>5 DEF Proceeds, StageAt, Active, Owning, Reviewing
    <3>3. CASE s.passes = review[r].passes
      BY <2>1, <2>2, <3>1, <3>2, <3>3, Settling
    <3>4. CASE /\ review[r].pc = "round" /\ s.pc \in {"round", "finalize"}
               /\ s.passes = review[r].passes + 1
               /\ review[r].passes < TotalRounds
               /\ card' = card
      <4>1. (card' = "Verify") = (card = "Verify")
        BY <3>4
      <4>2. Contract!Pass(r)
        BY <2>1, <2>3, <3>1, <3>2, <3>4, <4>1 DEF Contract!Pass
      <4> QED BY <4>2 DEF Contract!Next
    <3> QED BY <2>5, <3>3, <3>4 DEF Proceeds
  <2>6. CASE Marks(r, s)
    <3>1. StageAt("stub") = "submitted" /\ StageAt("download") = "reviewing"
      BY DEF StageAt, Reviewing
    <3>2. (card' = "Verify") = (card = "Verify") /\ row'.spec = NoReview
      BY <2>6 DEF Marks
    <3>3. Contract!Begin(r)
      BY <2>1, <2>2, <2>6, <3>1, <3>2
         DEF Marks, Contract!Begin, Contract!Enter
    <3> QED BY <3>3 DEF Contract!Next
  <2>7. CASE Persists(r, s)
    <3>1. StageAt("finalize") = "reviewing" /\ StageAt("verify") = "accepted"
      BY DEF StageAt, Reviewing
    <3>2. (card' = "Verify") = (card = "Verify") /\ row'.spec = r
      BY <2>7 DEF Persists, Persisted
    <3>3. review[r].passes = TotalRounds
      BY <2>7 DEF Persists, AllProgress, Progress
    <3>4. Contract!Accept(r)
      BY <2>1, <2>2, <2>7, <3>1, <3>2, <3>3
         DEF Persists, Passing, Contract!Accept, Contract!Enter
    <3> QED BY <3>4 DEF Contract!Next
  <2>8. CASE Verifies(r, s)
    <3>1. StageAt("verify") = "accepted" /\ StageAt("wrap") = "closed"
      BY DEF StageAt, Reviewing
    <3>2. Passes' = Passes /\ row'.spec = row.spec
      BY <2>2, <2>8 DEF Verifies, Passing
    <3>3. CASE card' = "Verify"
      <4>1. (card' = "Verify") = TRUE
        BY <3>3
      <4>2. Contract!Release(r)
        BY <2>1, <2>8, <3>1, <3>2, <4>1
           DEF Verifies, Contract!Release, Contract!Enter
      <4> QED BY <4>2 DEF Contract!Next
    <3>4. CASE card' = card
      BY <2>1, <2>8, <3>1, <3>2, <3>4, Settling DEF Verifies
    <3> QED BY <2>8, <3>3, <3>4 DEF Verifies
  <2> QED BY <1>3, <2>4, <2>5, <2>6, <2>7, <2>8 DEF Effect
<1> QED BY <1>1, <1>2, <1>3, NextEffect

\* The gate keeps its contract however many reviews overlap, whatever the
\* scheduler clears and whatever fails or crashes.
THEOREM ContractImplemented == Spec => ImplementsContract
<1>1. Init => Contract!Init
  <2> SUFFICES ASSUME Init PROVE Contract!Init
    OBVIOUS
  <2>1. \A r \in Reviews : review[r].pc = "idle" /\ review[r].passes = 0
    BY DEF Init, Fresh
  <2>2. Stage = [r \in Reviews |-> "waiting"] /\ Passes = [r \in Reviews |-> 0]
    <3>1. \A r \in Reviews : StageAt(review[r].pc) = "waiting"
      BY <2>1 DEF StageAt, Reviewing
    <3> QED BY <2>1, <3>1 DEF Stage, Passes
  <2>3. (card = "Verify") = FALSE /\ row.spec = NoReview
    BY DEF Init
  <2> QED BY <2>2, <2>3 DEF Contract!Init
<1>2. TypeOK /\ AllProgress /\ [Next]_vars
        => [Contract!Next]_(Contract!contractVars)
  BY ContractStep
<1> QED
  BY <1>1, <1>2, Typed, PTL DEF Spec, ImplementsContract, Contract!Spec

-----------------------------------------------------------------------------
(* Why a card does not stay in Spec Pending Review.                        *)

LEMMA LeftType == ASSUME NEW s \in SpecReviewState PROVE Left(s) \in Nat
BY DEF Left, SpecReviewState, TotalRounds

\* Whatever reviews overlap: without a fault, a card in Spec Pending Review has
\* a task that has yet to move it (server.py:321-322, 376-377, 426;
\* spec_review_graph.py:402, 410, 457).
THEOREM PendingMoves == Spec => []PendingHasMover
<1>1. Init => PendingHasMover
  BY DEF Init, PendingHasMover
<1>2. TypeOK /\ AllProgress /\ PendingHasMover /\ [Next]_vars => PendingHasMover'
  <2> SUFFICES ASSUME TypeOK, AllProgress, PendingHasMover, [Next]_vars,
                      card' = "Pending", ~(faults' > 0)
               PROVE  \E q \in Reviews : review'[q].pc \in Active \ {"wrap"}
    BY DEF PendingHasMover
  <2>0. review \in [Reviews -> SpecReviewState] /\ faults \in Nat
    BY DEF TypeOK
  <2>1. CASE UNCHANGED vars
    BY <2>1 DEF vars, PendingHasMover
  <2>2. CASE Environment
    <3>1. card = "Pending" /\ faults' = faults /\ review' = review
      BY <2>0, <2>2 DEF Environment
    <3> QED BY <3>1 DEF PendingHasMover
  <2>3. ASSUME NEW r \in Reviews, NEW s \in SpecReviewState, Effect(r, s)
        PROVE  \E q \in Reviews : review'[q].pc \in Active \ {"wrap"}
    <3>1. review'[r] = s /\ \A q \in Reviews \ {r} : review'[q] = review[q]
      BY <2>0, <2>3 DEF Effect
    <3>2. CASE s.pc \in Active \ {"wrap"}
      BY <3>1, <3>2
    <3>3. CASE s.pc \notin Active \ {"wrap"}
      <4>1. Proceeds(r, s)
        BY <2>3, <3>3
        DEF Effect, Triggers, Marks, Persists, Verifies, Active, Owning, Reviewing
      <4>2. review[r].pc = "wrap"
        BY <3>3, <4>1 DEF Proceeds, Active, Owning, Reviewing
      <4>3. card = "Pending" /\ ~(faults > 0)
        BY <2>0, <4>1 DEF Proceeds
      <4>4. PICK q \in Reviews : review[q].pc \in Active \ {"wrap"}
        BY <4>3 DEF PendingHasMover
      <4> QED BY <3>1, <4>2, <4>4
    <3> QED BY <3>2, <3>3
  <2> QED BY <2>1, <2>2, <2>3, NextEffect
<1> QED BY <1>1, <1>2, Typed, PTL DEF Spec

LEMMA EffectAdvances ==
  ASSUME NEW r \in Reviews, NEW s \in SpecReviewState, Effect(r, s)
  PROVE  Left(s) < Left(review[r])
<1>1. CASE Proceeds(r, s)
  BY <1>1 DEF Proceeds
<1>2. CASE ~Proceeds(r, s)
  BY <1>2 DEF Effect, Triggers, Marks, Persists, Verifies, Left
<1> QED BY <1>1, <1>2

\* No path of a review leads back (spec_review_graph.py:482, 524-534).
THEOREM AllAdvance == Spec => ReviewsAdvance
<1>1. TypeOK /\ AllProgress /\ [Next]_vars =>
        [ \A r \in Reviews : review'[r] # review[r] =>
            0 <= Left(review'[r]) /\ Left(review'[r]) < Left(review[r]) ]_vars
  <2> SUFFICES ASSUME TypeOK, AllProgress, [Next]_vars, NEW r \in Reviews,
                      review'[r] # review[r]
               PROVE  0 <= Left(review'[r]) /\ Left(review'[r]) < Left(review[r])
    OBVIOUS
  <2>0. review \in [Reviews -> SpecReviewState]
    BY DEF TypeOK
  <2>1. ~UNCHANGED vars
    BY DEF vars
  <2>2. CASE Environment
    <3>1. /\ review[r].pc # "idle"
          /\ review'[r] = [review[r] EXCEPT !.pc = "done"]
      BY <2>0, <2>2 DEF Environment, At
    <3>2. review[r] \in SpecReviewState /\ review[r].pc # "done"
      BY <2>0, <3>1 DEF SpecReviewState
    <3>3. Left(review'[r]) = 0
      BY <3>1, <3>2 DEF Left, SpecReviewState
    <3>4. Left(review[r]) \in Nat \ {0}
      BY <3>2 DEF Left, SpecReviewState, TotalRounds, Places, Active, Owning,
                  Reviewing
    <3> QED BY <3>3, <3>4
  <2>3. ASSUME NEW q \in Reviews, NEW s \in SpecReviewState, Effect(q, s)
        PROVE  0 <= Left(review'[r]) /\ Left(review'[r]) < Left(review[r])
    <3>1. q = r /\ review'[r] = s
      BY <2>0, <2>3 DEF Effect
    <3>2. Left(s) \in Nat /\ Left(review[r]) \in Nat
      BY <2>0, LeftType
    <3>3. Left(s) < Left(review[r])
      BY <2>3, <3>1, EffectAdvances
    <3> QED BY <3>1, <3>2, <3>3
  <2> QED BY <2>1, <2>2, <2>3, NextEffect
<1> QED BY <1>1, Typed, PTL DEF Spec, ReviewsAdvance
=============================================================================
