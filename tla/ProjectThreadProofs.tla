------------------------- MODULE ProjectThreadProofs -------------------------
(***************************************************************************)
(* Proofs about ProjectThread, for every number of worker threads, moves   *)
(* and faults.  The properties follow from what holds while the user has   *)
(* waited for the server (Alone): there is one token, which is a webhook   *)
(* call, a research task, or a review that has not moved the card yet, and *)
(* each step of the server hands it on.  From there Kept relates a queued  *)
(* start to the checkpoint of the run, Told the card to it, and Continues  *)
(* what a task has yet to do.  That the server winds down needs none of    *)
(* them: the sum of what is left to do falls with each of its steps.       *)
(***************************************************************************)
EXTENDS ProjectThread, FiniteSetTheorems, TLAPS

Researching(t) == task[t].kind \in Research
Rounds(t) == task[t].kind = "review" /\ task[t].at \notin {"last", "wrap"}

\* The token.
Alone ==
  careful =>
    /\ \A t, u \in Tasks : Researching(t) /\ Researching(u) => t = u
    /\ \A t, u \in Tasks :
         task[t].kind = "review" /\ task[u].kind = "review" => t = u
    /\ \A t \in Tasks : Researching(t) =>
         /\ card \in {"Verify", "Failed", "Planning"}
         /\ \A c \in Watched : events[c] = 0
    /\ \A t \in Tasks : Rounds(t) =>
         /\ card = "Pending" /\ \A c \in Watched : events[c] = 0
         /\ \A u \in Tasks : ~Researching(u)
    /\ \A c \in Watched : /\ events[c] \in {0, 1}
                          /\ events[c] > 0 => card \in {c, "Planning"}
    /\ \A c, d \in Watched : events[c] > 0 /\ events[d] > 0 => c = d
    /\ events["Pending"] > 0 =>
         card = "Pending" /\ \A t \in Tasks : task[t].kind = "none"

\* What is known of the run's last checkpoint.
Kept ==
  /\ shadowed \/ own = thread
  /\ own.pending # "nothing" => own = Pending(own.pending)
  /\ careful /\ faults = 0 /\ plugin = "known" =>
       \A t \in Tasks :
         Step(t, {"start"}, "queued") => own.pending = "nothing" \/ shadowed
  /\ careful /\ ~shadowed =>
       \A t \in Tasks :
         Step(t, Research, "read") => own.pending \in {"nothing", "gate"}

Told ==
  careful /\ mover = "server" /\ ~shadowed
    /\ (\A t \in Tasks : ~Researching(t)) =>
    /\ card = "Done" => own = [pending |-> "nothing", result |-> "PASS"]
    /\ card = "Review" =>
         own \in {Pending("gate"),
                  [pending |-> "nothing", result |-> "TERMINATE"]}

-----------------------------------------------------------------------------
LEMMA IdleType == Blank \in Checkpoint /\ Idle \in Task
BY DEF Blank, Checkpoint, Idle, Task, Places, Research

LEMMA InitType == Init => TypeOK
<1> SUFFICES ASSUME Init PROVE TypeOK
  OBVIOUS
<1>1. task \in [Tasks -> Task]
  BY IdleType DEF Init
<1>2. events \in [Watched -> Nat]
  BY DEF Init
<1> QED
  BY <1>1, <1>2, IdleType DEF Init, TypeOK, Columns

LEMMA NextType ==
  ASSUME TypeOK, [Next]_vars PROVE TypeOK'
<1> USE TasksAssumption, BoundsAssumption DEF TypeOK, Columns, Watched, Checkpoint, Task, Places, Research, graphVars, cardVars
<1>1. ASSUME NEW column \in Columns, UserMove(column) PROVE TypeOK'
  BY <1>1 DEF UserMove, Put, Notify, Quiet, Active
<1>2. CASE HandlePending
  BY <1>2 DEF HandlePending, Accept, Spawn, Idle, Blank, Active
<1>3. CASE HandleVerify
  BY <1>3 DEF HandleVerify, Accept, Spawn, Idle, Blank, KindFor
<1>4. CASE HandleFailed
  BY <1>4 DEF HandleFailed, Accept, Spawn, Idle, Blank
<1>5. ASSUME NEW column \in Watched, Lose(column) PROVE TypeOK'
  BY <1>5 DEF Lose, Accept
<1>6. ASSUME NEW t \in Tasks, Start(t) PROVE TypeOK'
  <2>1. Pending("plan") \in Checkpoint
    BY DEF Pending
  <2>2. task' \in [Tasks -> Task]
    BY <1>6 DEF Start, Step, Goto
  <2> QED
    BY <1>6, <2>1, <2>2 DEF Start
<1>7. ASSUME NEW t \in Tasks, Resume(t) PROVE TypeOK'
  BY <1>7 DEF Resume, Step, Goto
<1>8. ASSUME NEW t \in Tasks, Plan(t) PROVE TypeOK'
  BY <1>8 DEF Plan, Step, Save, Goto, Pending
<1>9. ASSUME NEW t \in Tasks, Implement(t) PROVE TypeOK'
  BY <1>9 DEF Implement, Step, Save, Goto, Pending
<1>10. ASSUME NEW t \in Tasks, Work(t) PROVE TypeOK'
  BY <1>10 DEF Work, Step, Save, Goto
<1>11. ASSUME NEW t \in Tasks, Finish(t) PROVE TypeOK'
  BY <1>11 DEF Finish, Step, FinishColumn, Move, Put, Notify, Done, Idle, Blank
<1>12. ASSUME NEW t \in Tasks, Fail(t) PROVE TypeOK'
  BY <1>12 DEF Fail, Step, Move, Put, Notify, Done, Idle, Blank
<1>13. ASSUME NEW t \in Tasks, ReviewStub(t) PROVE TypeOK'
  BY <1>13 DEF ReviewStub, Step, Goto
<1>14. ASSUME NEW t \in Tasks, ReviewInvoke(t) PROVE TypeOK'
  <2>1. thread' \in Checkpoint /\ own' \in Checkpoint /\ shadowed' \in BOOLEAN
    BY <1>14, IdleType DEF ReviewInvoke, Cover
  <2> DEFINE invoked == [task[t] EXCEPT !.at = "rounds", !.base = thread]
  <2>2. invoked \in Task
    OBVIOUS
  <2>3. task' = [task EXCEPT ![t] = invoked]
    BY <1>14 DEF ReviewInvoke
  <2>4. task' \in [Tasks -> Task]
    BY <2>2, <2>3
  <2> QED
    BY <1>14, <2>1, <2>4 DEF ReviewInvoke
<1>15. ASSUME NEW t \in Tasks, ReviewReturn(t) PROVE TypeOK'
  BY <1>15 DEF ReviewReturn, Step, Move, Put, Notify, Goto
<1>16. ASSUME NEW t \in Tasks, ReviewPersist(t) PROVE TypeOK'
  BY <1>16 DEF ReviewPersist, Step, Goto
<1>17. ASSUME NEW t \in Tasks, ReviewVerify(t) PROVE TypeOK'
  <2>1. task' \in [Tasks -> Task]
    BY <1>17 DEF ReviewVerify, Step, Goto
  <2> QED
    BY <1>17, <2>1 DEF ReviewVerify, Move, Put, Notify
<1>18. ASSUME NEW t \in Tasks, ReviewLast(t) PROVE TypeOK'
  BY <1>18 DEF ReviewLast, Step, Cover, Goto, Blank
<1>19. ASSUME NEW t \in Tasks, ReviewWrap(t) PROVE TypeOK'
  BY <1>19 DEF ReviewWrap, Step, Done, Idle, Blank
<1>20. ASSUME NEW t \in Tasks, ReviewFail(t) PROVE TypeOK'
  BY <1>20 DEF ReviewFail, Step, Move, Put, Notify, Done, Idle, Blank
<1>21. CASE Crash
  BY <1>21 DEF Crash, Idle, Blank
<1>22. CASE UNCHANGED vars
  BY <1>22 DEF vars, graphVars, cardVars
<1> HIDE DEF TypeOK, Columns, Watched, Checkpoint, Task, Places, Research, graphVars, cardVars
<1> QED
  BY <1>1, <1>2, <1>3, <1>4, <1>5, <1>6, <1>7, <1>8, <1>9, <1>10, <1>11, <1>12, <1>13, <1>14, <1>15, <1>16, <1>17, <1>18, <1>19, <1>20, <1>21, <1>22
  DEF Next, Handle, ResearchStep, ReviewStep

\* Every variable keeps to its values, and the card to the board's columns
\* (server.py:86).
THEOREM TypeCorrect == Spec => []TypeOK
BY InitType, NextType, PTL DEF Spec

-----------------------------------------------------------------------------
LEMMA InitAlone == Init => Alone
BY DEF Init, Alone, Researching, Rounds, Idle, Blank, Research, Watched

LEMMA OneCall ==
  ASSUME Alone, careful, NEW column \in Watched, events[column] > 0
  PROVE  events[column] = 1 /\ \A c \in Watched : c # column => events[c] = 0
<1>1. \A c \in Watched : events[c] \in {0, 1}
  BY DEF Alone
<1>2. \A c, d \in Watched : events[c] > 0 /\ events[d] > 0 => c = d
  BY DEF Alone
<1> QED
  BY <1>1, <1>2

LEMMA NextAlone ==
  ASSUME TypeOK, Alone, [Next]_vars PROVE Alone'
<1> USE TasksAssumption, BoundsAssumption DEF TypeOK, Alone, Researching, Rounds, Columns, Watched, Task, Places, Research, graphVars, cardVars
<1>1. ASSUME NEW column \in Columns, UserMove(column) PROVE Alone'
  <2>1. SUFFICES ASSUME careful' PROVE Alone'
    OBVIOUS
  <2>2. /\ \A t \in Tasks : ~Researching(t) /\ task[t].kind # "review"
        /\ \A c \in Watched : events[c] = 0
    BY <1>1, <2>1 DEF UserMove, Quiet, Active
  <2>3. \A t \in Tasks : task[t].kind = "none"
    BY <2>2
  <2>4. /\ card' = column /\ task' = task
        /\ \A c \in Watched : events'[c] = IF c = column THEN 1 ELSE 0
    BY <1>1, <2>2 DEF UserMove, Put, Notify
  <2> QED
    BY <2>2, <2>3, <2>4
\* A call that arrives is the token.
<1>a. ASSUME NEW column \in Watched, Accept(column), careful'
      PROVE  /\ careful /\ card' = card /\ card \in {column, "Planning"}
             /\ \A c \in Watched : events'[c] = 0
             /\ \A u \in Tasks : ~Researching(u) /\ ~Rounds(u)
             /\ column = "Pending" =>
                  card = "Pending" /\ \A u \in Tasks : task[u].kind = "none"
  <2>1. /\ careful /\ card' = card /\ events[column] > 0
        /\ events' = [events EXCEPT ![column] = @ - 1]
    BY <1>a DEF Accept
  <2>2. events[column] = 1 /\ \A c \in Watched : c # column => events[c] = 0
    BY <2>1, OneCall
  <2>3. \A c \in Watched : events'[c] = 0
    BY <2>1, <2>2
  <2>4. \A u \in Tasks : ~Researching(u) /\ ~Rounds(u)
    BY <2>1, <2>2
  <2> QED
    BY <2>1, <2>3, <2>4
<1>b. ASSUME NEW kind \in Research, Spawn(kind)
      PROVE  \E t \in Tasks :
               /\ task'[t].kind = kind /\ task[t].kind = "none"
               /\ \A u \in Tasks : u # t => task'[u] = task[u]
  BY <1>b DEF Spawn, Idle
<1>2. CASE HandlePending
  <2>1. SUFFICES ASSUME careful' PROVE Alone'
    OBVIOUS
  <2>2. PICK t \in Tasks : task[t] = Idle /\ task' = [task EXCEPT ![t].kind = "review"]
    BY <1>2 DEF HandlePending, Spawn
  <2>3. /\ task'[t].kind = "review"
        /\ \A u \in Tasks : u # t => task'[u] = task[u]
    BY <2>2 DEF Idle
  <2>4. /\ card' = "Pending" /\ \A c \in Watched : events'[c] = 0
        /\ \A u \in Tasks : task[u].kind = "none"
    BY <1>2, <1>a, <2>1 DEF HandlePending
  <2> QED
    BY <2>3, <2>4
<1>3. CASE HandleVerify
  <2>1. SUFFICES ASSUME careful' PROVE Alone'
    OBVIOUS
  <2>2. /\ careful /\ card' = card /\ card \in {"Verify", "Planning"}
        /\ \A c \in Watched : events'[c] = 0
        /\ \A u \in Tasks : ~Researching(u) /\ ~Rounds(u)
    BY <1>3, <1>a, <2>1 DEF HandleVerify
  <2>3. CASE UNCHANGED task
    BY <2>2, <2>3
  <2>4. CASE \E kind \in Research : Spawn(kind)
    BY <1>b, <2>2, <2>4
  <2> QED
    BY <1>3, <2>3, <2>4 DEF HandleVerify, KindFor
<1>4. CASE HandleFailed
  <2>1. SUFFICES ASSUME careful' PROVE Alone'
    OBVIOUS
  <2>2. /\ careful /\ card' = card /\ card \in {"Failed", "Planning"}
        /\ \A c \in Watched : events'[c] = 0
        /\ \A u \in Tasks : ~Researching(u) /\ ~Rounds(u)
    BY <1>4, <1>a, <2>1 DEF HandleFailed
  <2>3. CASE UNCHANGED task
    BY <2>2, <2>3
  <2>4. CASE \E kind \in Research : Spawn(kind)
    BY <1>b, <2>2, <2>4
  <2> QED
    BY <1>4, <2>3, <2>4 DEF HandleFailed
<1>5. ASSUME NEW column \in Watched, Lose(column) PROVE Alone'
  <2>1. SUFFICES ASSUME careful' PROVE Alone'
    OBVIOUS
  <2>2. /\ careful /\ task' = task /\ \A c \in Watched : events'[c] = 0
        /\ \A u \in Tasks : ~Researching(u) /\ ~Rounds(u)
    BY <1>5, <1>a, <2>1 DEF Lose
  <2> QED
    BY <2>2
<1>6. ASSUME NEW t \in Tasks, Start(t) PROVE Alone'
  BY <1>6 DEF Start, Step, Goto, Pending
<1>7. ASSUME NEW t \in Tasks, Resume(t) PROVE Alone'
  BY <1>7 DEF Resume, Step, Goto
<1>8. ASSUME NEW t \in Tasks, Plan(t) PROVE Alone'
  BY <1>8 DEF Plan, Step, Save, Goto, Pending
<1>9. ASSUME NEW t \in Tasks, Implement(t) PROVE Alone'
  BY <1>9 DEF Implement, Step, Save, Goto, Pending
<1>10. ASSUME NEW t \in Tasks, Work(t) PROVE Alone'
  BY <1>10 DEF Work, Step, Save, Goto
<1>11. ASSUME NEW t \in Tasks, Finish(t) PROVE Alone'
  BY <1>11 DEF Finish, Step, FinishColumn, Move, Put, Notify, Done, Idle, Blank
<1>12. ASSUME NEW t \in Tasks, Fail(t) PROVE Alone'
  BY <1>12 DEF Fail, Step, Move, Put, Notify, Done, Idle, Blank
<1>13. ASSUME NEW t \in Tasks, ReviewStub(t) PROVE Alone'
  BY <1>13 DEF ReviewStub, Step, Goto
<1>14. ASSUME NEW t \in Tasks, ReviewInvoke(t) PROVE Alone'
  BY <1>14 DEF ReviewInvoke, Step, Cover, Blank
<1>15. ASSUME NEW t \in Tasks, ReviewReturn(t) PROVE Alone'
  BY <1>15 DEF ReviewReturn, Step, Move, Put, Notify, Goto
<1>16. ASSUME NEW t \in Tasks, ReviewPersist(t) PROVE Alone'
  BY <1>16 DEF ReviewPersist, Step, Goto
<1>17. ASSUME NEW t \in Tasks, ReviewVerify(t) PROVE Alone'
  BY <1>17 DEF ReviewVerify, Step, Move, Put, Notify, Goto
<1>18. ASSUME NEW t \in Tasks, ReviewLast(t) PROVE Alone'
  BY <1>18 DEF ReviewLast, Step, Cover, Goto
<1>19. ASSUME NEW t \in Tasks, ReviewWrap(t) PROVE Alone'
  BY <1>19 DEF ReviewWrap, Step, Done, Idle, Blank
<1>20. ASSUME NEW t \in Tasks, ReviewFail(t) PROVE Alone'
  BY <1>20 DEF ReviewFail, Step, Move, Put, Notify, Done, Idle, Blank
<1>21. CASE Crash
  BY <1>21 DEF Crash, Idle, Blank
<1>22. CASE UNCHANGED vars
  BY <1>22 DEF vars, graphVars, cardVars
<1> QED
  BY <1>1, <1>2, <1>3, <1>4, <1>5, <1>6, <1>7, <1>8, <1>9, <1>10, <1>11, <1>12, <1>13, <1>14, <1>15, <1>16, <1>17, <1>18, <1>19, <1>20, <1>21, <1>22
  DEF Next, Handle, ResearchStep, ReviewStep

LEMMA AloneCorrect == Spec => [](TypeOK /\ Alone)
BY InitType, NextType, InitAlone, NextAlone, PTL DEF Spec

LEMMA AloneOnce == TypeOK /\ Alone => OneInvocation
<1> SUFFICES ASSUME TypeOK, Alone, careful PROVE OneInvocation
  BY DEF OneInvocation
<1>1. \A t, u \in Active(Research) : t = u
  BY DEF Active, Alone, Researching
<1>2. Cardinality(Active(Research)) <= 1
  <2>1. CASE Active(Research) = {}
    BY <2>1, FS_EmptySet
  <2>2. CASE Active(Research) # {}
    <3>1. PICK t \in Active(Research) : TRUE
      BY <2>2
    <3>2. Active(Research) = {t}
      BY <1>1, <3>1
    <3> QED
      BY <3>2, FS_Singleton
  <2> QED
    BY <2>1, <2>2
<1>3. Active(Research) # {} => events["Verify"] = 0 /\ events["Failed"] = 0
  BY DEF Active, Alone, Researching, Watched
<1> QED
  BY <1>2, <1>3 DEF OneInvocation

\* As long as the user waits for the server, the thread has one research
\* invocation at a time (server.py:196, spec_review_graph.py:457).
THEOREM OneInvocationCorrect == Spec => []OneInvocation
BY AloneCorrect, AloneOnce, PTL

-----------------------------------------------------------------------------
LEMMA InitKept == Init => Kept /\ Told /\ VerifyIsBusy
BY DEF Init, Kept, Told, VerifyIsBusy, Blank, Idle, Step

LEMMA NextKept ==
  ASSUME TypeOK, Alone, Kept, [Next]_vars PROVE Kept'
<1> USE DEF TypeOK, Alone, Researching, Rounds, Columns, Watched, Checkpoint, Task, Places, Research, graphVars, cardVars, Kept, Step
<1>1. ASSUME NEW column \in Columns, UserMove(column) PROVE Kept'
  BY <1>1 DEF UserMove, Put, Notify, Quiet, Active
<1>2. CASE HandlePending
  BY <1>2 DEF HandlePending, Accept, Spawn, Idle, Blank
<1>3. CASE HandleVerify
  BY <1>3 DEF HandleVerify, Accept, Spawn, Idle, Blank, KindFor
<1>4. CASE HandleFailed
  BY <1>4 DEF HandleFailed, Accept, Spawn, Idle, Blank
<1>5. ASSUME NEW column \in Watched, Lose(column) PROVE Kept'
  BY <1>5 DEF Lose, Accept
<1>6. ASSUME NEW t \in Tasks, Start(t) PROVE Kept'
  BY <1>6 DEF Start, Step, Goto, Pending
<1>7. ASSUME NEW t \in Tasks, Resume(t) PROVE Kept'
  BY <1>7 DEF Resume, Step, Goto
<1>8. ASSUME NEW t \in Tasks, Plan(t) PROVE Kept'
  <2>1. /\ own' = thread' /\ own'.pending \in {"gate", "work"}
        /\ own' = Pending(own'.pending)
    BY <1>8 DEF Plan, Save, Pending
  <2>2. ASSUME careful' PROVE \A u \in Tasks : Researching(u) => u = t
    BY <1>8, <2>2 DEF Plan
  <2>3. ~ Step(t, {"start"}, "queued")'
    BY <1>8 DEF Plan, Goto
  <2>4. Step(t, Research, "read")' => own'.pending \in {"nothing", "gate"}
    BY <1>8 DEF Plan, Save, Goto, Pending
  <2>5. \A u \in Tasks : u # t => task'[u] = task[u]
    BY <1>8 DEF Plan, Goto
  <2>6. careful' = careful
    BY <1>8 DEF Plan
  <2> QED
    BY <2>1, <2>2, <2>3, <2>4, <2>5, <2>6
<1>9. ASSUME NEW t \in Tasks, Implement(t) PROVE Kept'
  BY <1>9 DEF Implement, Step, Save, Goto, Pending
<1>10. ASSUME NEW t \in Tasks, Work(t) PROVE Kept'
  BY <1>10 DEF Work, Step, Save, Goto
<1>11. ASSUME NEW t \in Tasks, Finish(t) PROVE Kept'
  BY <1>11 DEF Finish, Step, FinishColumn, Move, Put, Notify, Done, Idle, Blank, Pending
<1>12. ASSUME NEW t \in Tasks, Fail(t) PROVE Kept'
  BY <1>12 DEF Fail, Step, Move, Put, Notify, Done, Idle, Blank
<1>13. ASSUME NEW t \in Tasks, ReviewStub(t) PROVE Kept'
  BY <1>13 DEF ReviewStub, Step, Goto
<1>14. ASSUME NEW t \in Tasks, ReviewInvoke(t) PROVE Kept'
  <2>1. /\ own' = own /\ shadowed' = (shadowed \/ thread' # own)
        /\ UNCHANGED <<careful, plugin, faults>>
    BY <1>14 DEF ReviewInvoke, Cover
  <2>2. /\ task[t].kind = "review"
        /\ \A u \in Tasks : task'[u].kind = task[u].kind
        /\ \A u \in Tasks : u # t => task'[u] = task[u]
    BY <1>14 DEF ReviewInvoke
  <2>3. \A u \in Tasks, kinds \in SUBSET Research, place \in Places :
          Step(u, kinds, place)' => Step(u, kinds, place)
    BY <2>2
  <2>4. /\ {"start"} \in SUBSET Research /\ Research \in SUBSET Research
        /\ "queued" \in Places /\ "read" \in Places
    OBVIOUS
  <2>5. shadowed' \/ own' = thread'
    BY <2>1
  <2>6. shadowed => shadowed'
    BY <2>1
  <2> HIDE DEF Step, Research, Places
  <2> QED
    BY <2>1, <2>3, <2>4, <2>5, <2>6
<1>15. ASSUME NEW t \in Tasks, ReviewReturn(t) PROVE Kept'
  BY <1>15 DEF ReviewReturn, Step, Move, Put, Notify, Goto
<1>16. ASSUME NEW t \in Tasks, ReviewPersist(t) PROVE Kept'
  BY <1>16 DEF ReviewPersist, Step, Goto
<1>17. ASSUME NEW t \in Tasks, ReviewVerify(t) PROVE Kept'
  BY <1>17 DEF ReviewVerify, Step, Move, Put, Notify, Goto
<1>18. ASSUME NEW t \in Tasks, ReviewLast(t) PROVE Kept'
  BY <1>18 DEF ReviewLast, Step, Cover, Goto
<1>19. ASSUME NEW t \in Tasks, ReviewWrap(t) PROVE Kept'
  BY <1>19 DEF ReviewWrap, Step, Done, Idle, Blank
<1>20. ASSUME NEW t \in Tasks, ReviewFail(t) PROVE Kept'
  BY <1>20 DEF ReviewFail, Step, Move, Put, Notify, Done, Idle, Blank
<1>21. CASE Crash
  BY <1>21 DEF Crash, Idle, Blank
<1>22. CASE UNCHANGED vars
  BY <1>22 DEF vars
<1> HIDE DEF TypeOK, Alone, Researching, Rounds, Columns, Watched, Checkpoint, Task, Places, Research, graphVars, cardVars, Kept, Step
<1> QED
  BY <1>1, <1>2, <1>3, <1>4, <1>5, <1>6, <1>7, <1>8, <1>9, <1>10, <1>11, <1>12, <1>13, <1>14, <1>15, <1>16, <1>17, <1>18, <1>19, <1>20, <1>21, <1>22
  DEF Next, Handle, ResearchStep, ReviewStep


LEMMA NextTold ==
  ASSUME TypeOK, Alone, Kept, Told, [Next]_vars PROVE Told'
<1> USE DEF TypeOK, Alone, Researching, Rounds, Columns, Watched, Checkpoint, Task, Places, Research, graphVars, cardVars, Kept, Told, Step, Pending
<1>1. ASSUME NEW column \in Columns, UserMove(column) PROVE Told'
  BY <1>1 DEF UserMove, Put, Notify, Quiet, Active
<1>2. CASE HandlePending
  BY <1>2 DEF HandlePending, Accept, Spawn, Idle, Blank
<1>3. CASE HandleVerify
  BY <1>3 DEF HandleVerify, Accept, Spawn, Idle, Blank, KindFor
<1>4. CASE HandleFailed
  BY <1>4 DEF HandleFailed, Accept, Spawn, Idle, Blank
<1>5. ASSUME NEW column \in Watched, Lose(column) PROVE Told'
  BY <1>5 DEF Lose, Accept
<1>6. ASSUME NEW t \in Tasks, Start(t) PROVE Told'
  BY <1>6 DEF Start, Step, Goto, Pending
<1>7. ASSUME NEW t \in Tasks, Resume(t) PROVE Told'
  BY <1>7 DEF Resume, Step, Goto
<1>8. ASSUME NEW t \in Tasks, Plan(t) PROVE Told'
  BY <1>8 DEF Plan, Step, Save, Goto, Pending
<1>9. ASSUME NEW t \in Tasks, Implement(t) PROVE Told'
  BY <1>9 DEF Implement, Step, Save, Goto, Pending
<1>10. ASSUME NEW t \in Tasks, Work(t) PROVE Told'
  BY <1>10 DEF Work, Step, Save, Goto
<1>11. ASSUME NEW t \in Tasks, Finish(t) PROVE Told'
  BY <1>11 DEF Finish, Step, FinishColumn, Move, Put, Notify, Done, Idle, Blank, Pending
<1>12. ASSUME NEW t \in Tasks, Fail(t) PROVE Told'
  BY <1>12 DEF Fail, Step, Move, Put, Notify, Done, Idle, Blank
<1>13. ASSUME NEW t \in Tasks, ReviewStub(t) PROVE Told'
  BY <1>13 DEF ReviewStub, Step, Goto
<1>14. ASSUME NEW t \in Tasks, ReviewInvoke(t) PROVE Told'
  BY <1>14 DEF ReviewInvoke, Step, Cover, Blank
<1>15. ASSUME NEW t \in Tasks, ReviewReturn(t) PROVE Told'
  BY <1>15 DEF ReviewReturn, Step, Move, Put, Notify, Goto
<1>16. ASSUME NEW t \in Tasks, ReviewPersist(t) PROVE Told'
  BY <1>16 DEF ReviewPersist, Step, Goto
<1>17. ASSUME NEW t \in Tasks, ReviewVerify(t) PROVE Told'
  BY <1>17 DEF ReviewVerify, Step, Move, Put, Notify, Goto
<1>18. ASSUME NEW t \in Tasks, ReviewLast(t) PROVE Told'
  BY <1>18 DEF ReviewLast, Step, Cover, Goto
<1>19. ASSUME NEW t \in Tasks, ReviewWrap(t) PROVE Told'
  BY <1>19 DEF ReviewWrap, Step, Done, Idle, Blank
<1>20. ASSUME NEW t \in Tasks, ReviewFail(t) PROVE Told'
  BY <1>20 DEF ReviewFail, Step, Move, Put, Notify, Done, Idle, Blank
<1>21. CASE Crash
  BY <1>21 DEF Crash, Idle, Blank
<1>22. CASE UNCHANGED vars
  BY <1>22 DEF vars
<1> HIDE DEF TypeOK, Alone, Researching, Rounds, Columns, Watched, Checkpoint, Task, Places, Research, graphVars, cardVars, Kept, Told, Step, Pending
<1> QED
  BY <1>1, <1>2, <1>3, <1>4, <1>5, <1>6, <1>7, <1>8, <1>9, <1>10, <1>11, <1>12, <1>13, <1>14, <1>15, <1>16, <1>17, <1>18, <1>19, <1>20, <1>21, <1>22
  DEF Next, Handle, ResearchStep, ReviewStep


LEMMA NextBusy ==
  ASSUME TypeOK, Alone, VerifyIsBusy, [Next]_vars PROVE VerifyIsBusy'
<1> USE DEF TypeOK, Alone, Researching, Rounds, Columns, Watched, Checkpoint, Task, Places, Research, graphVars, cardVars, VerifyIsBusy, Active
<1>1. ASSUME NEW column \in Columns, UserMove(column) PROVE VerifyIsBusy'
  BY <1>1 DEF UserMove, Put, Notify, Quiet, Active
<1>2. CASE HandlePending
  BY <1>2 DEF HandlePending, Accept, Spawn, Idle, Blank
<1>3. CASE HandleVerify
  BY <1>3 DEF HandleVerify, Accept, Spawn, Idle, Blank, KindFor
<1>4. CASE HandleFailed
  BY <1>4 DEF HandleFailed, Accept, Spawn, Idle, Blank
<1>5. ASSUME NEW column \in Watched, Lose(column) PROVE VerifyIsBusy'
  BY <1>5 DEF Lose, Accept
<1>6. ASSUME NEW t \in Tasks, Start(t) PROVE VerifyIsBusy'
  BY <1>6 DEF Start, Step, Goto, Pending
<1>7. ASSUME NEW t \in Tasks, Resume(t) PROVE VerifyIsBusy'
  BY <1>7 DEF Resume, Step, Goto
<1>8. ASSUME NEW t \in Tasks, Plan(t) PROVE VerifyIsBusy'
  BY <1>8 DEF Plan, Step, Save, Goto, Pending
<1>9. ASSUME NEW t \in Tasks, Implement(t) PROVE VerifyIsBusy'
  BY <1>9 DEF Implement, Step, Save, Goto, Pending
<1>10. ASSUME NEW t \in Tasks, Work(t) PROVE VerifyIsBusy'
  BY <1>10 DEF Work, Step, Save, Goto
<1>11. ASSUME NEW t \in Tasks, Finish(t) PROVE VerifyIsBusy'
  BY <1>11 DEF Finish, Step, FinishColumn, Move, Put, Notify, Done, Idle, Blank, Pending
<1>12. ASSUME NEW t \in Tasks, Fail(t) PROVE VerifyIsBusy'
  BY <1>12 DEF Fail, Step, Move, Put, Notify, Done, Idle, Blank
<1>13. ASSUME NEW t \in Tasks, ReviewStub(t) PROVE VerifyIsBusy'
  BY <1>13 DEF ReviewStub, Step, Goto
<1>14. ASSUME NEW t \in Tasks, ReviewInvoke(t) PROVE VerifyIsBusy'
  BY <1>14 DEF ReviewInvoke, Step, Cover, Blank
<1>15. ASSUME NEW t \in Tasks, ReviewReturn(t) PROVE VerifyIsBusy'
  BY <1>15 DEF ReviewReturn, Step, Move, Put, Notify, Goto
<1>16. ASSUME NEW t \in Tasks, ReviewPersist(t) PROVE VerifyIsBusy'
  BY <1>16 DEF ReviewPersist, Step, Goto
<1>17. ASSUME NEW t \in Tasks, ReviewVerify(t) PROVE VerifyIsBusy'
  BY <1>17 DEF ReviewVerify, Step, Move, Put, Notify, Goto
<1>18. ASSUME NEW t \in Tasks, ReviewLast(t) PROVE VerifyIsBusy'
  BY <1>18 DEF ReviewLast, Step, Cover, Goto
<1>19. ASSUME NEW t \in Tasks, ReviewWrap(t) PROVE VerifyIsBusy'
  BY <1>19 DEF ReviewWrap, Step, Done, Idle, Blank
<1>20. ASSUME NEW t \in Tasks, ReviewFail(t) PROVE VerifyIsBusy'
  BY <1>20 DEF ReviewFail, Step, Move, Put, Notify, Done, Idle, Blank
<1>21. CASE Crash
  BY <1>21 DEF Crash, Idle, Blank
<1>22. CASE UNCHANGED vars
  BY <1>22 DEF vars
<1> HIDE DEF TypeOK, Alone, Researching, Rounds, Columns, Watched, Checkpoint, Task, Places, Research, graphVars, cardVars, VerifyIsBusy, Active
<1> QED
  BY <1>1, <1>2, <1>3, <1>4, <1>5, <1>6, <1>7, <1>8, <1>9, <1>10, <1>11, <1>12, <1>13, <1>14, <1>15, <1>16, <1>17, <1>18, <1>19, <1>20, <1>21, <1>22
  DEF Next, Handle, ResearchStep, ReviewStep

LEMMA KeptCorrect == Spec => [](TypeOK /\ Alone /\ Kept /\ Told /\ VerifyIsBusy)
<1>1. Init => TypeOK /\ Alone /\ Kept /\ Told /\ VerifyIsBusy
  BY InitType, InitAlone, InitKept
<1>2. ASSUME TypeOK, Alone, Kept, Told, VerifyIsBusy, [Next]_vars
      PROVE (TypeOK /\ Alone /\ Kept /\ Told /\ VerifyIsBusy)'
  BY <1>2, NextType, NextAlone, NextKept, NextTold, NextBusy
<1> QED
  BY <1>1, <1>2, PTL DEF Spec

\* A card in Verify has a task at work on it, or a call that will start one
\* (server.py:187-220, 272-281).
THEOREM VerifyIsBusyCorrect == Spec => []VerifyIsBusy
BY KeptCorrect, PTL

LEMMA ToldCard == Told => CardTellsRun
<1> SUFFICES ASSUME Told, Quiet, mover = "server", careful, ~shadowed
             PROVE /\ card = "Done" => own = [pending |-> "nothing", result |-> "PASS"]
                   /\ card = "Review" =>
                        own \in {Pending("gate"),
                                 [pending |-> "nothing", result |-> "TERMINATE"]}
  BY DEF CardTellsRun
<1>1. \A t \in Tasks : ~Researching(t)
  BY DEF Quiet, Active, Researching
<1> QED
  BY <1>1 DEF Told

\* When the server is done, its card tells what became of the run
\* (server.py:171-220, 256-272).
THEOREM CardTellsRunCorrect == Spec => []CardTellsRun
BY KeptCorrect, ToldCard, PTL

-----------------------------------------------------------------------------
(* Only Start takes a queued start to plan, and only for a registered      *)
(* plugin.                                                                 *)
LEMMA StartsKnown ==
  ASSUME TypeOK, NEW t \in Tasks, Step(t, {"start"}, "queued"),
         [Next]_vars, task'[t].at = "plan"
  PROVE  plugin = "known"
<1> USE DEF TypeOK, Columns, Watched, Checkpoint, Task, Places, Research, graphVars, cardVars, Step
<1>1. ASSUME NEW column \in Columns, UserMove(column) PROVE plugin = "known"
  BY <1>1 DEF UserMove, Put, Notify, Quiet, Active
<1>2. CASE HandlePending
  BY <1>2 DEF HandlePending, Accept, Spawn, Idle, Blank
<1>3. CASE HandleVerify
  BY <1>3 DEF HandleVerify, Accept, Spawn, Idle, Blank, KindFor
<1>4. CASE HandleFailed
  BY <1>4 DEF HandleFailed, Accept, Spawn, Idle, Blank
<1>5. ASSUME NEW column \in Watched, Lose(column) PROVE plugin = "known"
  BY <1>5 DEF Lose, Accept
<1>6. ASSUME NEW u \in Tasks, Start(u) PROVE plugin = "known"
  BY <1>6 DEF Start, Step, Goto, Pending
<1>7. ASSUME NEW u \in Tasks, Resume(u) PROVE plugin = "known"
  BY <1>7 DEF Resume, Step, Goto
<1>8. ASSUME NEW u \in Tasks, Plan(u) PROVE plugin = "known"
  BY <1>8 DEF Plan, Step, Save, Goto, Pending
<1>9. ASSUME NEW u \in Tasks, Implement(u) PROVE plugin = "known"
  BY <1>9 DEF Implement, Step, Save, Goto, Pending
<1>10. ASSUME NEW u \in Tasks, Work(u) PROVE plugin = "known"
  BY <1>10 DEF Work, Step, Save, Goto
<1>11. ASSUME NEW u \in Tasks, Finish(u) PROVE plugin = "known"
  BY <1>11 DEF Finish, Step, FinishColumn, Move, Put, Notify, Done, Idle, Blank, Pending
<1>12. ASSUME NEW u \in Tasks, Fail(u) PROVE plugin = "known"
  BY <1>12 DEF Fail, Step, Move, Put, Notify, Done, Idle, Blank
<1>13. ASSUME NEW u \in Tasks, ReviewStub(u) PROVE plugin = "known"
  BY <1>13 DEF ReviewStub, Step, Goto
<1>14. ASSUME NEW u \in Tasks, ReviewInvoke(u) PROVE plugin = "known"
  BY <1>14 DEF ReviewInvoke, Step, Cover, Blank
<1>15. ASSUME NEW u \in Tasks, ReviewReturn(u) PROVE plugin = "known"
  BY <1>15 DEF ReviewReturn, Step, Move, Put, Notify, Goto
<1>16. ASSUME NEW u \in Tasks, ReviewPersist(u) PROVE plugin = "known"
  BY <1>16 DEF ReviewPersist, Step, Goto
<1>17. ASSUME NEW u \in Tasks, ReviewVerify(u) PROVE plugin = "known"
  BY <1>17 DEF ReviewVerify, Step, Move, Put, Notify, Goto
<1>18. ASSUME NEW u \in Tasks, ReviewLast(u) PROVE plugin = "known"
  BY <1>18 DEF ReviewLast, Step, Cover, Goto
<1>19. ASSUME NEW u \in Tasks, ReviewWrap(u) PROVE plugin = "known"
  BY <1>19 DEF ReviewWrap, Step, Done, Idle, Blank
<1>20. ASSUME NEW u \in Tasks, ReviewFail(u) PROVE plugin = "known"
  BY <1>20 DEF ReviewFail, Step, Move, Put, Notify, Done, Idle, Blank
<1>21. CASE Crash
  BY <1>21 DEF Crash, Idle, Blank
<1>22. CASE UNCHANGED vars
  BY <1>22 DEF vars
<1> HIDE DEF TypeOK, Columns, Watched, Checkpoint, Task, Places, Research, graphVars, cardVars, Step
<1> QED
  BY <1>1, <1>2, <1>3, <1>4, <1>5, <1>6, <1>7, <1>8, <1>9, <1>10, <1>11, <1>12, <1>13, <1>14, <1>15, <1>16, <1>17, <1>18, <1>19, <1>20, <1>21, <1>22
  DEF Next, Handle, ResearchStep, ReviewStep

LEMMA KeptStep == TypeOK /\ Kept /\ [Next]_vars => (Started =>
        own.pending = "nothing" \/ shadowed \/ ~careful \/ faults > 0)
<1> SUFFICES ASSUME TypeOK, Kept, [Next]_vars,
                    NEW t \in Tasks, Step(t, {"start"}, "queued"), task'[t].at = "plan",
                    careful, ~(faults > 0)
             PROVE  own.pending = "nothing" \/ shadowed
  BY DEF Started
<1>1. plugin = "known"
  BY StartsKnown
<1>2. faults = 0
  BY DEF TypeOK
<1> QED
  BY <1>1, <1>2 DEF Kept

\* A fresh start does not throw away a run that waits or was cut short
\* (server.py:574-597).
THEOREM RunKeptCorrect == Spec => RunKept
<1>1. TypeOK /\ Kept /\ [Next]_vars =>
        [Started => own.pending = "nothing" \/ shadowed \/ ~careful \/ faults > 0]_vars
  BY KeptStep
<1> QED
  BY <1>1, KeptCorrect, PTL DEF Spec, RunKept

-----------------------------------------------------------------------------
(* The checkpoints of the tasks are those of one run.  A task under way    *)
(* holds the node that the last checkpoint has pending.                    *)
Continues ==
  careful /\ ~shadowed =>
    \A t \in Tasks :
      /\ Step(t, Research, "plan") => own.pending = "plan"
      /\ Step(t, Research, "implement") => own.pending = "gate"
      /\ Step(t, Research, "work") => own.pending = "work"

LEMMA InitContinues == Init => Continues
BY DEF Init, Continues, Step, Idle, Blank, Research

LEMMA NextContinues ==
  ASSUME TypeOK, Alone, Kept, Continues, [Next]_vars PROVE Continues'
<1> USE DEF TypeOK, Alone, Researching, Rounds, Columns, Watched, Checkpoint, Task, Places, Research, graphVars, cardVars, Kept, Step, Continues
<1>1. ASSUME NEW column \in Columns, UserMove(column) PROVE Continues'
  BY <1>1 DEF UserMove, Put, Notify, Quiet, Active
<1>2. CASE HandlePending
  BY <1>2 DEF HandlePending, Accept, Spawn, Idle, Blank
<1>3. CASE HandleVerify
  <2>1. UNCHANGED <<own, shadowed, careful>>
    BY <1>3 DEF HandleVerify, Accept
  <2>2. ASSUME NEW u \in Tasks PROVE task'[u] = task[u] \/ task'[u].at = "queued"
    BY <1>3 DEF HandleVerify, Accept, Spawn, Idle
  <2> QED
    BY <2>1, <2>2
<1>4. CASE HandleFailed
  BY <1>4 DEF HandleFailed, Accept, Spawn, Idle, Blank
<1>5. ASSUME NEW column \in Watched, Lose(column) PROVE Continues'
  BY <1>5 DEF Lose, Accept
<1>6. ASSUME NEW t \in Tasks, Start(t) PROVE Continues'
  BY <1>6 DEF Start, Goto, Pending
<1>7. ASSUME NEW t \in Tasks, Resume(t) PROVE Continues'
  BY <1>7 DEF Resume, Goto
<1>8. ASSUME NEW t \in Tasks, Plan(t) PROVE Continues'
  BY <1>8 DEF Plan, Save, Goto, Pending
<1>9. ASSUME NEW t \in Tasks, Implement(t) PROVE Continues'
  BY <1>9 DEF Implement, Save, Goto, Pending
<1>10. ASSUME NEW t \in Tasks, Work(t) PROVE Continues'
  BY <1>10 DEF Work, Save, Goto
<1>11. ASSUME NEW t \in Tasks, Finish(t) PROVE Continues'
  BY <1>11 DEF Finish, FinishColumn, Move, Put, Notify, Done, Idle, Blank
<1>12. ASSUME NEW t \in Tasks, Fail(t) PROVE Continues'
  BY <1>12 DEF Fail, Move, Put, Notify, Done, Idle, Blank
<1>13. ASSUME NEW t \in Tasks, ReviewStub(t) PROVE Continues'
  BY <1>13 DEF ReviewStub, Goto
<1>14. ASSUME NEW t \in Tasks, ReviewInvoke(t) PROVE Continues'
  BY <1>14 DEF ReviewInvoke, Cover
<1>15. ASSUME NEW t \in Tasks, ReviewReturn(t) PROVE Continues'
  BY <1>15 DEF ReviewReturn, Move, Put, Notify, Goto
<1>16. ASSUME NEW t \in Tasks, ReviewPersist(t) PROVE Continues'
  BY <1>16 DEF ReviewPersist, Goto
<1>17. ASSUME NEW t \in Tasks, ReviewVerify(t) PROVE Continues'
  BY <1>17 DEF ReviewVerify, Move, Put, Notify, Goto
<1>18. ASSUME NEW t \in Tasks, ReviewLast(t) PROVE Continues'
  BY <1>18 DEF ReviewLast, Cover, Goto
<1>19. ASSUME NEW t \in Tasks, ReviewWrap(t) PROVE Continues'
  BY <1>19 DEF ReviewWrap, Step, Done, Idle, Blank
<1>20. ASSUME NEW t \in Tasks, ReviewFail(t) PROVE Continues'
  BY <1>20 DEF ReviewFail, Move, Put, Notify, Done, Idle, Blank
<1>21. CASE Crash
  BY <1>21 DEF Crash, Idle, Blank
<1>22. CASE UNCHANGED vars
  BY <1>22 DEF vars
<1> HIDE DEF TypeOK, Alone, Researching, Rounds, Columns, Watched, Checkpoint, Task, Places, Research, graphVars, cardVars, Kept, Step, Continues
<1> QED
  BY <1>1, <1>2, <1>3, <1>4, <1>5, <1>6, <1>7, <1>8, <1>9, <1>10, <1>11, <1>12, <1>13, <1>14, <1>15, <1>16, <1>17, <1>18, <1>19, <1>20, <1>21, <1>22
  DEF Next, Handle, ResearchStep, ReviewStep

LEMMA ContinuesCorrect == Spec => [](TypeOK /\ Alone /\ Kept /\ Continues)
<1>1. Init => Continues
  BY InitContinues
<1>2. TypeOK /\ Alone /\ Kept /\ Continues /\ [Next]_vars => Continues'
  BY NextContinues
<1> QED
  BY <1>1, <1>2, KeptCorrect, PTL DEF Spec

LEMMA OwnStep ==
  ASSUME TypeOK, Kept, Continues, [Next]_vars, careful, ~shadowed
  PROVE  Thread!Next \/ UNCHANGED own
<1> USE DEF TypeOK, Checkpoint, Kept, Step, Continues, graphVars, cardVars
<1>1. ASSUME NEW t \in Tasks, Start(t) PROVE Thread!Begin
  BY <1>1 DEF Start, Pending, Thread!Begin
<1>2. ASSUME NEW t \in Tasks, Plan(t) PROVE Thread!Planned
  BY <1>2 DEF Plan, Save, Pending, Thread!Planned
<1>3. ASSUME NEW t \in Tasks, Implement(t) PROVE Thread!Opened
  BY <1>3 DEF Implement, Save, Pending, Thread!Opened
<1>4. ASSUME NEW t \in Tasks, Work(t) PROVE Thread!Judged
  BY <1>4 DEF Work, Save, Thread!Judged, Thread!Verdict
<1>5. ASSUME NEW t \in Tasks, ReviewStep(t) PROVE UNCHANGED own
  BY <1>5 DEF ReviewStep, ReviewStub, ReviewInvoke, ReviewReturn, ReviewPersist,
              ReviewVerify, ReviewLast, ReviewWrap, ReviewFail, Cover
<1>6. ASSUME NEW t \in Tasks, Resume(t) \/ Finish(t) \/ Fail(t)
      PROVE UNCHANGED own
  BY <1>6 DEF Resume, Finish, Fail
<1>7. CASE Handle \/ \E column \in Watched : Lose(column)
  BY <1>7 DEF Handle, HandlePending, HandleVerify, HandleFailed, Lose, Accept
<1>8. CASE \E column \in Columns : UserMove(column)
  BY <1>8 DEF UserMove
<1>9. CASE Crash
  BY <1>9 DEF Crash
<1>10. CASE UNCHANGED vars
  BY <1>10 DEF vars
<1> QED
  BY <1>1, <1>2, <1>3, <1>4, <1>5, <1>6, <1>7, <1>8, <1>9, <1>10
  DEF Next, ResearchStep, Thread!Next

\* With a user who waits, no task continues from a checkpoint that has been
\* superseded: what the tasks write is what one run would write
\* (server.py:196-220, 281, 409).
THEOREM OwnFollowsCorrect == Spec => OwnFollows
<1>1. TypeOK /\ Alone /\ Kept /\ Continues /\ [Next]_vars =>
        [careful /\ ~shadowed => Thread!Next]_own
  BY OwnStep
<1> QED
  BY <1>1, ContinuesCorrect, PTL DEF Spec, OwnFollows

-----------------------------------------------------------------------------
(* What the server still has to do falls with each of its steps.           *)

ResearchPlaces == {"queued", "plan", "implement", "work", "read"}
ReviewPlaces == {"queued", "review", "rounds", "verify", "last", "wrap"}

\* A task is where its kind can be.
Placed ==
  \A t \in Tasks : /\ task[t].kind \in Research => task[t].at \in ResearchPlaces
                   /\ task[t].kind = "review" => task[t].at \in ReviewPlaces

LEMMA InitPlaced == Init => Placed
BY DEF Init, Placed, Idle, Research

LEMMA NextPlaced ==
  ASSUME TypeOK, Placed, [Next]_vars PROVE Placed'
<1> USE DEF TypeOK, Placed, ResearchPlaces, ReviewPlaces, Research, Checkpoint, Task, Places
<1>1. ASSUME NEW column \in Columns, UserMove(column) PROVE Placed'
  BY <1>1 DEF UserMove
<1>2. CASE HandlePending
  BY <1>2 DEF HandlePending, Accept, Spawn, Idle
<1>3. CASE HandleVerify
  BY <1>3 DEF HandleVerify, Accept, Spawn, Idle, KindFor
<1>4. CASE HandleFailed
  BY <1>4 DEF HandleFailed, Accept, Spawn, Idle
<1>5. ASSUME NEW column \in Watched, Lose(column) PROVE Placed'
  BY <1>5 DEF Lose, Accept
<1>6. ASSUME NEW t \in Tasks, Start(t) PROVE Placed'
  BY <1>6 DEF Start, Step, Goto
<1>7. ASSUME NEW t \in Tasks, Resume(t) PROVE Placed'
  BY <1>7 DEF Resume, Step, Goto
<1>8. ASSUME NEW t \in Tasks, Plan(t) PROVE Placed'
  BY <1>8 DEF Plan, Step, Goto
<1>9. ASSUME NEW t \in Tasks, Implement(t) PROVE Placed'
  BY <1>9 DEF Implement, Step, Goto
<1>10. ASSUME NEW t \in Tasks, Work(t) PROVE Placed'
  BY <1>10 DEF Work, Step, Goto
<1>11. ASSUME NEW t \in Tasks, Finish(t) PROVE Placed'
  BY <1>11 DEF Finish, Done, Idle
<1>12. ASSUME NEW t \in Tasks, Fail(t) PROVE Placed'
  BY <1>12 DEF Fail, Done, Idle
<1>13. ASSUME NEW t \in Tasks, ReviewStub(t) PROVE Placed'
  BY <1>13 DEF ReviewStub, Step, Goto
<1>14. ASSUME NEW t \in Tasks, ReviewInvoke(t) PROVE Placed'
  BY <1>14 DEF ReviewInvoke, Step
<1>15. ASSUME NEW t \in Tasks, ReviewReturn(t) PROVE Placed'
  BY <1>15 DEF ReviewReturn, Step, Goto
<1>16. ASSUME NEW t \in Tasks, ReviewPersist(t) PROVE Placed'
  BY <1>16 DEF ReviewPersist, Step, Goto
<1>17. ASSUME NEW t \in Tasks, ReviewVerify(t) PROVE Placed'
  BY <1>17 DEF ReviewVerify, Step, Goto
<1>18. ASSUME NEW t \in Tasks, ReviewLast(t) PROVE Placed'
  BY <1>18 DEF ReviewLast, Step, Goto
<1>19. ASSUME NEW t \in Tasks, ReviewWrap(t) PROVE Placed'
  BY <1>19 DEF ReviewWrap, Done, Idle
<1>20. ASSUME NEW t \in Tasks, ReviewFail(t) PROVE Placed'
  BY <1>20 DEF ReviewFail, Done, Idle
<1>21. CASE Crash
  BY <1>21 DEF Crash, Idle
<1>22. CASE UNCHANGED vars
  BY <1>22 DEF vars
<1> HIDE DEF TypeOK, Placed, ResearchPlaces, ReviewPlaces, Research, Checkpoint, Task, Places
<1> QED
  BY <1>1, <1>2, <1>3, <1>4, <1>5, <1>6, <1>7, <1>8, <1>9, <1>10, <1>11, <1>12, <1>13, <1>14, <1>15, <1>16, <1>17, <1>18, <1>19, <1>20, <1>21, <1>22
  DEF Next, Handle, ResearchStep, ReviewStep

LEMMA PlacedCorrect == Spec => [](TypeOK /\ Placed)
<1>1. Init => TypeOK /\ Placed
  BY InitType, InitPlaced
<1>2. TypeOK /\ Placed /\ [Next]_vars => TypeOK' /\ Placed'
  BY NextType, NextPlaced
<1> QED
  BY <1>1, <1>2, PTL DEF Spec

\* Two sets that differ at most in one element.
LEMMA OneMoves ==
  ASSUME NEW S, NEW T, NEW t, IsFiniteSet(S), IsFiniteSet(T), S \ {t} = T \ {t}
  PROVE  /\ Cardinality(S) \in Nat /\ Cardinality(T) \in Nat
         /\ Cardinality(T) = Cardinality(S) - (IF t \in S THEN 1 ELSE 0)
                                            + (IF t \in T THEN 1 ELSE 0)
<1>1. Cardinality(S) \in Nat /\ Cardinality(T) \in Nat
  BY FS_CardinalityType
<1>2. ASSUME NEW R, IsFiniteSet(R)
      PROVE  Cardinality(R \ {t}) = Cardinality(R) - (IF t \in R THEN 1 ELSE 0)
  <2>1. Cardinality(R) \in Nat
    BY <1>2, FS_CardinalityType
  <2>2. Cardinality(R \ {t}) = IF t \in R THEN Cardinality(R) - 1 ELSE Cardinality(R)
    BY <1>2, FS_RemoveElement
  <2> QED
    BY <2>1, <2>2
<1>3. Cardinality(S \ {t}) = Cardinality(S) - (IF t \in S THEN 1 ELSE 0)
  BY <1>2
<1>4. Cardinality(S \ {t}) = Cardinality(T) - (IF t \in T THEN 1 ELSE 0)
  BY <1>2
<1> QED
  BY <1>1, <1>3, <1>4

LEMMA AtMoves ==
  ASSUME NEW t \in Tasks, \A u \in Tasks : u # t => task'[u] = task[u],
         NEW kinds, NEW place
  PROVE  /\ At(kinds, place) \in Nat /\ At(kinds, place)' \in Nat
         /\ At(kinds, place)' =
              At(kinds, place) - (IF Step(t, kinds, place) THEN 1 ELSE 0)
                               + (IF Step(t, kinds, place)' THEN 1 ELSE 0)
<1> DEFINE before == {u \in Tasks : Step(u, kinds, place)}
           after == {u \in Tasks : Step(u, kinds, place)'}
<1>1. IsFiniteSet(before) /\ IsFiniteSet(after)
  BY TasksAssumption, FS_Subset
<1>2. before \ {t} = after \ {t}
  BY DEF Step
<1>3. /\ t \in before <=> Step(t, kinds, place)
      /\ t \in after <=> Step(t, kinds, place)'
  OBVIOUS
<1>4. At(kinds, place) = Cardinality(before) /\ At(kinds, place)' = Cardinality(after)
  BY DEF At
<1> HIDE DEF before, after
<1> QED
  BY <1>1, <1>2, <1>3, <1>4, OneMoves

\* The part of a task in the load.
Rank(s) ==
  CASE s.kind \in Research /\ s.at = "queued" -> 11
    [] s.kind \in Research /\ s.at = "plan" -> 10
    [] s.kind \in Research /\ s.at = "implement" -> 9
    [] s.kind \in Research /\ s.at = "work" -> 8
    [] s.kind \in Research /\ s.at = "read" -> 7
    [] s.kind = "review" /\ s.at = "queued" -> 30
    [] s.kind = "review" /\ s.at = "review" -> 29
    [] s.kind = "review" /\ s.at = "rounds" -> 28
    [] s.kind = "review" /\ s.at = "verify" -> 27
    [] s.kind = "review" /\ s.at = "last" -> 8
    [] s.kind = "review" /\ s.at = "wrap" -> 7
    [] OTHER -> 0

TaskLoad == ResearchLoad + ReviewLoad
CallLoad ==
  31 * events["Pending"] + 12 * (events["Verify"] + events["Failed"])
  + (IF card = "Failed" THEN 0 ELSE 6)

LEMMA TaskMoves ==
  ASSUME NEW t \in Tasks, \A u \in Tasks : u # t => task'[u] = task[u]
  PROVE  /\ TaskLoad \in Nat /\ TaskLoad' \in Nat
         /\ TaskLoad' = TaskLoad - Rank(task[t]) + Rank(task'[t])
<1> DEFINE is(s, kinds, place) ==
             IF s.kind \in kinds /\ s.at = place THEN 1 ELSE 0
           from(kinds, place) == is(task[t], kinds, place)
           to(kinds, place) == is(task'[t], kinds, place)
           moved(kinds, place) ==
             /\ At(kinds, place) \in Nat /\ At(kinds, place)' \in Nat
             /\ from(kinds, place) \in Nat /\ to(kinds, place) \in Nat
             /\ At(kinds, place)' =
                  At(kinds, place) - from(kinds, place) + to(kinds, place)
           research(w(_, _)) ==
             11 * w(Research, "queued") + 10 * w(Research, "plan")
             + 9 * w(Research, "implement") + 8 * w(Research, "work")
             + 7 * w(Research, "read")
           review(w(_, _)) ==
             30 * w({"review"}, "queued") + 29 * w({"review"}, "review")
             + 28 * w({"review"}, "rounds") + 27 * w({"review"}, "verify")
             + 8 * w({"review"}, "last") + 7 * w({"review"}, "wrap")
           left == research(from)
           found == research(to)
           leftReview == review(from)
           foundReview == review(to)
<1>1. ASSUME NEW kinds, NEW place PROVE moved(kinds, place)
  BY AtMoves DEF Step
<1>2. /\ moved(Research, "queued") /\ moved(Research, "plan")
      /\ moved(Research, "implement") /\ moved(Research, "work")
      /\ moved(Research, "read")
  BY <1>1
<1>3. /\ moved({"review"}, "queued") /\ moved({"review"}, "review")
      /\ moved({"review"}, "rounds") /\ moved({"review"}, "verify")
      /\ moved({"review"}, "last") /\ moved({"review"}, "wrap")
  BY <1>1
<1>4. /\ left + leftReview = Rank(task[t])
      /\ found + foundReview = Rank(task'[t])
  BY DEF Rank, Research
<1>5. /\ ResearchLoad \in Nat /\ ResearchLoad' \in Nat
      /\ ResearchLoad' = ResearchLoad - left + found
  <2> HIDE DEF from, to
  <2> QED
    BY <1>2 DEF ResearchLoad
<1>6. /\ ReviewLoad \in Nat /\ ReviewLoad' \in Nat
      /\ ReviewLoad' = ReviewLoad - leftReview + foundReview
  <2> HIDE DEF from, to
  <2> QED
    BY <1>3 DEF ReviewLoad
<1>7. /\ left \in Nat /\ found \in Nat
      /\ leftReview \in Nat /\ foundReview \in Nat
  OBVIOUS
<1> HIDE DEF left, found, leftReview, foundReview
<1>8. /\ TaskLoad = ResearchLoad + ReviewLoad
      /\ TaskLoad' = ResearchLoad' + ReviewLoad'
  BY DEF TaskLoad
<1> QED
  BY <1>4, <1>5, <1>6, <1>7, <1>8

LEMMA RankType == \A s : Rank(s) \in Nat /\ (s.kind = "none" => Rank(s) = 0)
BY DEF Rank, Research

NoneLeft == \A t \in Tasks : task[t].kind = "none"

LEMMA NoTasks == NoneLeft => TaskLoad = 0
<1> SUFFICES ASSUME NoneLeft PROVE TaskLoad = 0
  OBVIOUS
<1>1. ASSUME NEW kinds \in SUBSET {"start", "resume", "review"}, NEW place
      PROVE  At(kinds, place) = 0
  <2>1. {t \in Tasks : Step(t, kinds, place)} = {}
    BY DEF Step, NoneLeft
  <2> QED
    BY <2>1, FS_EmptySet DEF At
<1>2. Research \in SUBSET {"start", "resume", "review"}
  BY DEF Research
<1> QED
  BY <1>1, <1>2 DEF TaskLoad, ResearchLoad, ReviewLoad

LEMMA TaskLoadType == ResearchLoad \in Nat /\ ReviewLoad \in Nat /\ TaskLoad \in Nat
<1>1. ASSUME NEW kinds, NEW place PROVE At(kinds, place) \in Nat
  <2>1. IsFiniteSet({u \in Tasks : Step(u, kinds, place)})
    BY TasksAssumption, FS_Subset
  <2> QED
    BY <2>1, FS_CardinalityType DEF At
<1> QED
  BY <1>1 DEF TaskLoad, ResearchLoad, ReviewLoad

LEMMA CallLoadType == TypeOK => CallLoad \in Nat
BY DEF TypeOK, CallLoad, Watched

LEMMA CallsType ==
  TypeOK => CallLoad \in Nat /\ \A c \in Watched : events[c] \in Nat
BY DEF TypeOK, CallLoad, Watched

LEMMA LoadSum == TypeOK => Load = TaskLoad + CallLoad
BY CallsType, TaskLoadType DEF Load, TaskLoad, CallLoad, Watched

\* A move by the server adds at most the call it causes.
LEMMA MoveLoad ==
  ASSUME TypeOK, NEW column \in Columns \ {"Pending"}, Move(column)
  PROVE  CallLoad' <= CallLoad + (IF column = "Verify" THEN 18 ELSE 6)
<1>1. \A c \in Watched : events[c] \in Nat
  BY CallsType
<1>2. CASE Put(column)
  <2>1. card' = column
    BY <1>2 DEF Put
  <2>2. /\ events'["Pending"] = events["Pending"]
        /\ events'["Verify"] = events["Verify"]
             + (IF column = "Verify" /\ column # card THEN 1 ELSE 0)
        /\ events'["Failed"] = events["Failed"]
             + (IF column = "Failed" /\ column # card THEN 1 ELSE 0)
    BY <1>2 DEF Put, Notify, TypeOK, Watched
  <2> QED
    BY <1>1, <2>1, <2>2 DEF CallLoad, Watched
<1>3. CASE UNCHANGED cardVars
  BY <1>1, <1>3 DEF cardVars, CallLoad, Watched
<1> QED
  BY <1>2, <1>3 DEF Move

\* A call that is handled.
LEMMA AcceptLoad ==
  ASSUME TypeOK, NEW column \in Watched, Accept(column)
  PROVE  CallLoad' = CallLoad - (IF column = "Pending" THEN 31 ELSE 12)
<1>1. \A c \in Watched : events[c] \in Nat
  BY CallsType
<1>2. /\ card' = card
      /\ events'["Pending"] = events["Pending"] - (IF column = "Pending" THEN 1 ELSE 0)
      /\ events'["Verify"] = events["Verify"] - (IF column = "Verify" THEN 1 ELSE 0)
      /\ events'["Failed"] = events["Failed"] - (IF column = "Failed" THEN 1 ELSE 0)
  BY DEF Accept, TypeOK, Watched
<1> QED
  BY <1>1, <1>2 DEF CallLoad, Watched

LEMMA SpawnLoad ==
  ASSUME TypeOK, NEW kind \in Research \cup {"review"}, Spawn(kind)
  PROVE  TaskLoad' = TaskLoad + (IF kind = "review" THEN 30 ELSE 11)
<1>1. PICK t \in Tasks : task[t] = Idle /\ task' = [task EXCEPT ![t].kind = kind]
  BY DEF Spawn
<1>2. \A u \in Tasks : u # t => task'[u] = task[u]
  BY <1>1 DEF TypeOK
<1>3. /\ task[t].kind = "none" /\ task'[t].kind = kind /\ task'[t].at = "queued"
  BY <1>1 DEF TypeOK, Idle, Task
<1>4. Rank(task[t]) = 0 /\ Rank(task'[t]) = IF kind = "review" THEN 30 ELSE 11
  BY <1>3 DEF Rank, Research
<1> QED
  BY <1>2, <1>4, TaskMoves

LEMMA SameTasks == UNCHANGED task => TaskLoad' = TaskLoad
BY DEF TaskLoad, ResearchLoad, ReviewLoad, At, Step

LEMMA SameCalls == UNCHANGED cardVars => CallLoad' = CallLoad
BY DEF CallLoad, cardVars

LEMMA GoesTo ==
  ASSUME TypeOK, NEW t \in Tasks, NEW place \in Places, Goto(t, place)
  PROVE  /\ \A u \in Tasks : u # t => task'[u] = task[u]
         /\ task'[t].kind = task[t].kind /\ task'[t].at = place
BY DEF TypeOK, Goto, Task

LEMMA IsDone ==
  ASSUME TypeOK, NEW t \in Tasks, Done(t)
  PROVE  /\ \A u \in Tasks : u # t => task'[u] = task[u]
         /\ Rank(task'[t]) = 0
BY DEF TypeOK, Done, Idle, Rank, Research

LEMMA Less ==
  \A a, b, c, d \in Nat, m, n \in Int :
    c <= a + m /\ d <= b + n /\ m + n < 0 => c + d < a + b
OBVIOUS

LEMMA FewerOrLess ==
  ASSUME NEW a \in Nat, NEW b \in Nat, NEW load \in Nat, NEW c \in Nat, NEW d \in Nat,
         NEW loadNext, NEW same \in BOOLEAN, load = a + b, loadNext = c + d,
         c + d < a + b \/ (~same /\ c + d <= a + b)
  PROVE  /\ 0 <= loadNext /\ loadNext <= load
         /\ same => loadNext < load
OBVIOUS

LEMMA LoadFalls ==
  ASSUME TypeOK, TypeOK', Placed, Next, moves' = moves
  PROVE  /\ 0 <= Load' /\ Load' <= Load
         /\ faults' = faults => Load' < Load
<1>1. /\ Load = TaskLoad + CallLoad /\ Load' = TaskLoad' + CallLoad'
      /\ TaskLoad \in Nat /\ TaskLoad' \in Nat
      /\ CallLoad \in Nat /\ CallLoad' \in Nat
  <2>1. /\ (TypeOK => Load = TaskLoad + CallLoad)'
        /\ (ResearchLoad \in Nat /\ ReviewLoad \in Nat /\ TaskLoad \in Nat)'
        /\ (TypeOK => CallLoad \in Nat)'
    BY CallLoadType, LoadSum, TaskLoadType, PTL
  <2> QED
    BY <2>1, LoadSum, TaskLoadType, CallsType
<1>2. ASSUME NEW m \in Int, NEW n \in Int, m + n < 0,
             TaskLoad' <= TaskLoad + m, CallLoad' <= CallLoad + n
      PROVE  TaskLoad' + CallLoad' < TaskLoad + CallLoad
  BY <1>1, <1>2, Less
<1>2b. SUFFICES \/ TaskLoad' + CallLoad' < TaskLoad + CallLoad
               \/ (faults' # faults /\ TaskLoad' + CallLoad' <= TaskLoad + CallLoad)
  <2> DEFINE same == faults' = faults
  <2>1. /\ same \in BOOLEAN
        /\ TaskLoad' + CallLoad' < TaskLoad + CallLoad
           \/ (~same /\ TaskLoad' + CallLoad' <= TaskLoad + CallLoad)
    BY <1>2b
  <2>2. Load \in Nat
    BY <1>1
  <2> HIDE DEF same
  <2>3. /\ 0 <= Load' /\ Load' <= Load
        /\ same => Load' < Load
    BY <1>1, <2>1, <2>2, FewerOrLess
  <2> QED
    BY <2>3 DEF same
<1>3. CASE HandlePending
  <2>1. CallLoad' = CallLoad - 31
    BY <1>3, AcceptLoad DEF HandlePending, Watched
  <2>2. TaskLoad' = TaskLoad + 30
    BY <1>3, SpawnLoad DEF HandlePending
  <2> QED
    BY <1>1, <2>1, <2>2
<1>4. CASE HandleVerify
  <2>1. CallLoad' = CallLoad - 12
    BY <1>4, AcceptLoad DEF HandleVerify, Watched
  <2>2. TaskLoad' = TaskLoad \/ TaskLoad' = TaskLoad + 11
    BY <1>4, SpawnLoad, SameTasks DEF HandleVerify, KindFor, Research
  <2>3. TaskLoad' <= TaskLoad + 11 /\ CallLoad' <= CallLoad + (-12)
    BY <1>1, <2>1, <2>2
  <2> QED
    BY <2>3, <1>2
<1>5. CASE HandleFailed
  <2>1. CallLoad' = CallLoad - 12
    BY <1>5, AcceptLoad DEF HandleFailed, Watched
  <2>2. TaskLoad' = TaskLoad \/ TaskLoad' = TaskLoad + 11
    BY <1>5, SpawnLoad, SameTasks DEF HandleFailed, Research
  <2>3. TaskLoad' <= TaskLoad + 11 /\ CallLoad' <= CallLoad + (-12)
    BY <1>1, <2>1, <2>2
  <2> QED
    BY <2>3, <1>2
<1>6. ASSUME NEW column \in Watched, Lose(column)
      PROVE  TaskLoad' + CallLoad' < TaskLoad + CallLoad
  <2>1. CallLoad' = CallLoad - 31 \/ CallLoad' = CallLoad - 12
    BY <1>6, AcceptLoad DEF Lose
  <2>2. TaskLoad' = TaskLoad
    BY <1>6, SameTasks DEF Lose
  <2>3. TaskLoad' <= TaskLoad + 0 /\ CallLoad' <= CallLoad + (-12)
    BY <1>1, <2>1, <2>2
  <2> QED
    BY <2>3, <1>2
<1>7. ASSUME NEW t \in Tasks, Start(t) \/ Resume(t) \/ Plan(t) \/ Implement(t) \/ Work(t)
      PROVE  TaskLoad' + CallLoad' < TaskLoad + CallLoad
  <2>1. CallLoad' = CallLoad
    BY <1>7, SameCalls DEF Start, Resume, Plan, Implement, Work
  <2>2. PICK place \in {"plan", "implement", "work", "read"} : Goto(t, place)
    BY <1>7 DEF Start, Resume, Plan, Implement, Work, TypeOK, Checkpoint
  <2>3. /\ \A u \in Tasks : u # t => task'[u] = task[u]
        /\ task'[t].kind = task[t].kind /\ task'[t].at = place
    BY <2>2, GoesTo DEF Places
  <2>4. Rank(task'[t]) < Rank(task[t])
    <3>1. CASE Start(t) \/ Resume(t)
      BY <2>3, <3>1 DEF Start, Resume, Step, Rank, Research
    <3>2. CASE Plan(t) \/ Implement(t) \/ Work(t)
      <4>1. \/ task[t].at = "plan" /\ place \in {"work", "read"}
            \/ task[t].at = "implement" /\ place = "work"
            \/ task[t].at = "work" /\ place = "read"
        BY <2>2, <2>3, <3>2 DEF Plan, Implement, Work, Step, Goto, TypeOK, Task
      <4>2. task[t].kind \in Research
        BY <3>2 DEF Plan, Implement, Work, Step
      <4> QED
        BY <2>3, <4>1, <4>2 DEF Rank, Research
    <3> QED
      BY <1>7, <3>1, <3>2
  <2>5. TaskLoad' = TaskLoad - Rank(task[t]) + Rank(task'[t])
    BY <2>3, TaskMoves
  <2> QED
    BY <1>1, <2>1, <2>4, <2>5, RankType
<1>8. ASSUME NEW t \in Tasks, Finish(t) \/ Fail(t)
      PROVE  TaskLoad' + CallLoad' < TaskLoad + CallLoad
  <2>1. CallLoad' <= CallLoad + 6
    <3>1. PICK column \in {"Review", "Done", "Planning", "Failed"} : Move(column)
      BY <1>8 DEF Finish, Fail, FinishColumn
    <3> QED
      BY <3>1, MoveLoad DEF Columns
  <2>2. Rank(task[t]) >= 7
    BY <1>8 DEF Finish, Fail, Step, Placed, ResearchPlaces, Rank, Research
  <2>3. /\ \A u \in Tasks : u # t => task'[u] = task[u]
        /\ Rank(task'[t]) = 0
    BY <1>8, IsDone DEF Finish, Fail
  <2>4. TaskLoad' = TaskLoad - Rank(task[t]) + Rank(task'[t])
    BY <2>3, TaskMoves
  <2> QED
    BY <1>1, <2>1, <2>2, <2>3, <2>4, RankType
<1>9. ASSUME NEW t \in Tasks, ReviewStub(t) \/ ReviewInvoke(t) \/ ReviewPersist(t)
      PROVE  TaskLoad' + CallLoad' < TaskLoad + CallLoad
  <2>1. CallLoad' = CallLoad
    BY <1>9, SameCalls DEF ReviewStub, ReviewInvoke, ReviewPersist
  <2>2. /\ \A u \in Tasks : u # t => task'[u] = task[u]
        /\ task[t].kind = "review" /\ task'[t].kind = "review"
        /\ \/ task[t].at = "queued" /\ task'[t].at = "review"
           \/ task[t].at = "review" /\ task'[t].at = "rounds"
           \/ task[t].at = "rounds" /\ task'[t].at = "verify"
    BY <1>9 DEF ReviewStub, ReviewInvoke, ReviewPersist, Step, Goto, TypeOK, Task
  <2>3. Rank(task'[t]) < Rank(task[t])
    BY <2>2 DEF Rank, Research
  <2>4. TaskLoad' = TaskLoad - Rank(task[t]) + Rank(task'[t])
    BY <2>2, TaskMoves
  <2> QED
    BY <1>1, <2>1, <2>3, <2>4, RankType
<1>10. ASSUME NEW t \in Tasks, ReviewReturn(t) \/ ReviewVerify(t)
       PROVE  TaskLoad' + CallLoad' < TaskLoad + CallLoad
  <2>1. /\ \A u \in Tasks : u # t => task'[u] = task[u]
        /\ task'[t].kind = "review" /\ task'[t].at = "last"
    BY <1>10, GoesTo DEF ReviewReturn, ReviewVerify, Step, Places
  <2>2. Rank(task'[t]) = 8
    BY <2>1 DEF Rank, Research
  <2>3. TaskLoad' = TaskLoad - Rank(task[t]) + 8
    BY <2>1, <2>2, TaskMoves
  <2>4. CASE ReviewReturn(t)
    <3>1. Rank(task[t]) = 28
      BY <2>4 DEF ReviewReturn, Step, Rank, Research
    <3>2. CallLoad' <= CallLoad + 6
      BY <2>4, MoveLoad DEF ReviewReturn, Columns
    <3>3. TaskLoad' <= TaskLoad + (-20)
      BY <1>1, <2>3, <3>1
    <3> QED
      BY <3>2, <3>3, <1>2
  <2>5. CASE ReviewVerify(t)
    <3>1. Rank(task[t]) = 27
      BY <2>5 DEF ReviewVerify, Step, Rank, Research
    <3>2. CallLoad' <= CallLoad + 18
      BY <2>5, MoveLoad DEF ReviewVerify, Columns
    <3>3. TaskLoad' <= TaskLoad + (-19)
      BY <1>1, <2>3, <3>1
    <3> QED
      BY <3>2, <3>3, <1>2
  <2> QED
    BY <1>10, <2>4, <2>5
<1>11. ASSUME NEW t \in Tasks, ReviewLast(t) \/ ReviewWrap(t)
       PROVE  TaskLoad' + CallLoad' < TaskLoad + CallLoad
  <2>1. CallLoad' = CallLoad
    BY <1>11, SameCalls DEF ReviewLast, ReviewWrap
  <2>2. /\ \A u \in Tasks : u # t => task'[u] = task[u]
        /\ Rank(task'[t]) < Rank(task[t])
    <3>1. CASE ReviewLast(t)
      <4>1. /\ \A u \in Tasks : u # t => task'[u] = task[u]
            /\ task'[t].kind = "review" /\ task'[t].at = "wrap"
        BY <3>1, GoesTo DEF ReviewLast, Step, Places
      <4>2. Rank(task[t]) = 8
        BY <3>1 DEF ReviewLast, Step, Rank, Research
      <4> QED
        BY <4>1, <4>2 DEF Rank, Research
    <3>2. CASE ReviewWrap(t)
      <4>1. Rank(task[t]) = 7
        BY <3>2 DEF ReviewWrap, Step, Rank, Research
      <4> QED
        BY <3>2, <4>1, IsDone DEF ReviewWrap
    <3> QED
      BY <1>11, <3>1, <3>2
  <2>3. TaskLoad' = TaskLoad - Rank(task[t]) + Rank(task'[t])
    BY <2>2, TaskMoves
  <2> QED
    BY <1>1, <2>1, <2>2, <2>3, RankType
<1>12. ASSUME NEW t \in Tasks, ReviewFail(t)
       PROVE  TaskLoad' + CallLoad' < TaskLoad + CallLoad
  <2>1. CallLoad' <= CallLoad + 6
    BY <1>12, MoveLoad DEF ReviewFail, Columns
  <2>2. Rank(task[t]) >= 7
    BY <1>12 DEF ReviewFail, Placed, ReviewPlaces, Rank, Research
  <2>3. /\ \A u \in Tasks : u # t => task'[u] = task[u]
        /\ Rank(task'[t]) = 0
    BY <1>12, IsDone DEF ReviewFail
  <2>4. TaskLoad' = TaskLoad - Rank(task[t]) + Rank(task'[t])
    BY <2>3, TaskMoves
  <2> QED
    BY <1>1, <2>1, <2>2, <2>3, <2>4, RankType
<1>13. CASE Crash
  <2>1. CallLoad' = CallLoad
    BY <1>13, SameCalls DEF Crash
  <2>2. TaskLoad' = 0
    <3>1. NoneLeft'
      BY <1>13 DEF Crash, Idle, NoneLeft
    <3>2. (TaskLoad = 0)'
      BY <3>1, NoTasks, PTL
    <3> QED
      BY <3>2
  <2>3. faults' # faults
    BY <1>13 DEF Crash, TypeOK
  <2> QED
    BY <1>1, <2>1, <2>2, <2>3
<1>14. ASSUME NEW column \in Columns PROVE ~UserMove(column)
  BY DEF UserMove, TypeOK
<1> QED
  BY <1>3, <1>4, <1>5, <1>6, <1>7, <1>8, <1>9, <1>10, <1>11, <1>12, <1>13, <1>14
  DEF Next, Handle, ResearchStep, ReviewStep

\* The server winds down: only its user gives it more to do, and so each of
\* the user's moves is followed by a bounded number of the server's steps
\* (server.py:196, 533, 600-612).
THEOREM WindsDownCorrect == Spec => WindsDown
<1>1. TypeOK /\ Placed /\ TypeOK' /\ [Next]_vars =>
        [ moves' = moves =>
            /\ 0 <= Load' /\ Load' <= Load
            /\ faults' = faults => Load' < Load ]_vars
  BY LoadFalls
<1> QED
  BY <1>1, PlacedCorrect, PTL DEF Spec, WindsDown
=============================================================================
