-------------------------- MODULE ProjectCardsProofs --------------------------
(***************************************************************************)
(* Proofs about ProjectCards, for every set of cards, projects, boards and *)
(* LLM chains, and any number of outages, edits and restarts.              *)
(***************************************************************************)
EXTENDS ProjectCards, TLAPS

-----------------------------------------------------------------------------
(* Types.                                                                  *)

IndexType ==
  /\ memory \in [Projects -> Cards \cup {NoCard}]
  /\ row \in [Projects -> Cards \cup {"absent", "empty"}]

ReviewType == review \in [Cards -> Review]

LastType ==
  last \in [kind : {"none", "comment", "move", "start"},
            project : Projects \cup {"none"}, card : Cards \cup {NoCard}]

LEMMA ReviewRow ==
  ASSUME TypeOK, NEW c \in Cards, review[c].at # "idle"
  PROVE  /\ review[c] \in [at : {"cache", "stub", "tag", "graph", "move"},
                           project : Projects, tagged : BOOLEAN]
         /\ review[c].project \in Projects
<1>1. review[c] \in Review
  BY DEF TypeOK
<1>2. review[c] # NoReview
  BY DEF NoReview
<1> QED
  BY <1>1, <1>2 DEF Review

LEMMA GotoType ==
  ASSUME TypeOK, NEW c \in Cards, review[c].at # "idle",
         NEW place \in {"cache", "stub", "tag", "graph", "move"}, Goto(c, place)
  PROVE  /\ ReviewType'
         /\ \A d \in Cards : d # c => review'[d] = review[d]
         /\ review'[c].at = place /\ review'[c].project = review[c].project
         /\ review'[c].tagged = review[c].tagged
<1> DEFINE gone == [review[c] EXCEPT !.at = place]
<1>1. gone \in Review /\ gone.at = place /\ gone.project = review[c].project
      /\ gone.tagged = review[c].tagged
  BY ReviewRow DEF Review
<1>2. review' = [review EXCEPT ![c] = gone]
  BY DEF Goto
<1> HIDE DEF gone
<1> QED
  BY <1>1, <1>2 DEF TypeOK, ReviewType

LEMMA CachedType ==
  ASSUME TypeOK, NEW p \in Projects
  PROVE  Cached(p) \in Cards \cup {NoCard}
BY DEF TypeOK, Cached

LEMMA CacheCardIdType ==
  ASSUME TypeOK, NEW p \in Projects, NEW c \in Cards, CacheCardId(p, c)
  PROVE  IndexType'
BY DEF TypeOK, CacheCardId, IndexType

LEMMA ResolveType ==
  ASSUME TypeOK, NEW p \in Projects, NEW c, Resolve(p, c)
  PROVE  IndexType' /\ c \in Cards \cup {NoCard}
<1>1. CASE Cached(p) # NoCard /\ c = Cached(p)
           /\ memory' = [memory EXCEPT ![p] = c] /\ UNCHANGED row
  BY <1>1, CachedType DEF TypeOK, IndexType
<1>2. CASE c \in Scan(p) /\ CacheCardId(p, c)
  BY <1>2, CacheCardIdType DEF Scan
<1>3. CASE c = NoCard /\ UNCHANGED indexVars
  BY <1>3 DEF TypeOK, IndexType, indexVars
<1> QED
  BY <1>1, <1>2, <1>3 DEF Resolve

LEMMA MovedType ==
  ASSUME NEW p \in Projects, NEW c, NEW b, Moved(p, c, b)
  PROVE  LastType'
BY DEF Moved, LastType

LEMMA MoveType ==
  ASSUME TypeOK, NEW p \in Projects, Move(p)
  PROVE  IndexType' /\ LastType' /\ last'.kind = "move" /\ last'.project = p
<1>1. ASSUME NEW c \in Cards, Resolve(p, c), Moved(p, c, board[c])
      PROVE  IndexType' /\ LastType' /\ last'.kind = "move" /\ last'.project = p
  BY <1>1, ResolveType, MovedType DEF Moved
<1>2. CASE Rescan(p)
  <2>1. ASSUME NEW c \in Scan(p), CacheCardId(p, c), Moved(p, c, configured)
        PROVE  IndexType' /\ LastType' /\ last'.kind = "move" /\ last'.project = p
    <3>1. c \in Cards
      BY DEF Scan
    <3> QED
      BY <2>1, <3>1, CacheCardIdType, MovedType DEF Moved
  <2>2. CASE Moved(p, NoCard, configured)
             /\ memory' = [memory EXCEPT ![p] = NoCard] /\ UNCHANGED row
    BY <2>2, MovedType DEF TypeOK, IndexType, Moved
  <2> QED
    BY <1>2, <2>1, <2>2 DEF Rescan
<1>3. ASSUME NEW c \in Cards \cup {NoCard}, Resolve(p, c),
             Moved(p, NoCard, configured)
      PROVE  IndexType' /\ LastType' /\ last'.kind = "move" /\ last'.project = p
  BY <1>3, ResolveType, MovedType DEF Moved
<1>4. CASE Moved(p, NoCard, configured)
           /\ memory' = [memory EXCEPT ![p] = NoCard] /\ UNCHANGED row
  BY <1>4, MovedType DEF TypeOK, IndexType, Moved
<1> QED
  BY <1>1, <1>2, <1>3, <1>4 DEF Move

LEMMA CommentType ==
  ASSUME TypeOK, NEW p \in Projects, Comment(p)
  PROVE  IndexType' /\ LastType' /\ last'.kind = "comment"
BY ResolveType DEF Comment, LastType, Answers

LEMMA ProjectOfType ==
  ASSUME TypeOK, NEW c \in Cards
  PROVE  ProjectOf(c) \in Projects
BY SetsAssumption DEF TypeOK, ProjectOf

\* What a start may leave in the cache, and what it counts.
LEMMA CheckFacts ==
  ASSUME TypeOK, NEW ch \in Chains, PreflightCheck(ch), ~Hit(ch)
  PROVE  /\ up' = ({ch, "planka", "database"} \subseteq services)
         /\ passed' = passed \cup ({ch} \cap services)
         /\ \/ cache' = cache \/ cache' = NoCache
            \/ up' /\ cache' = [chain |-> ch, ok |-> TRUE]
<1> DEFINE ok == {ch, "planka", "database"} \subseteq services
<1>1. /\ up' = ok /\ passed' = passed \cup ({ch} \cap services)
      /\ cache' = Saved(ch, ok) \/ (ok /\ Unsaved)
  BY DEF PreflightCheck
<1>2. CASE ok
  BY <1>1, <1>2 DEF Saved, Unsaved
<1>3. CASE ~ok
  BY <1>1, <1>3 DEF Saved
<1> QED
  BY <1>1, <1>2, <1>3

LEMMA StartCounts ==
  ASSUME TypeOK, NEW b \in Boards, NEW ch \in Chains, Start(b, ch)
  PROVE  outages' \in Nat /\ (outages' = 0 => outages = 0)
<1>1. PreflightCheck(ch) /\ outages \in Nat
  BY DEF Start, TypeOK
<1>2. outages' = outages \/ outages' = outages + 1
  BY <1>1 DEF PreflightCheck, Unsaved
<1> QED
  BY <1>1, <1>2

LEMMA InitType == Init => TypeOK
<1> SUFFICES ASSUME Init PROVE TypeOK
  OBVIOUS
<1>1. NoReview \in Review /\ Nothing \in [kind : {"none", "comment", "move", "start"},
               project : Projects \cup {"none"}, card : Cards \cup {NoCard}]
      /\ NoCache \in [chain : Chains \cup {"none"}, ok : BOOLEAN]
  BY DEF Review, Nothing, NoCache
<1>2. review \in [Cards -> Review]
  BY <1>1 DEF Init
<1>3. memory \in [Projects -> Cards \cup {NoCard}]
      /\ row \in [Projects -> Cards \cup {"absent", "empty"}]
      /\ claims \in [Projects -> SUBSET Cards]
  BY DEF Init
<1>4. board \in [Cards -> Boards \cup {"deleted"}]
      /\ tag \in [Cards -> Projects \cup {"none"}]
  BY DEF Init
<1> QED
  BY <1>1, <1>2, <1>3, <1>4 DEF Init, TypeOK

LEMMA NextType ==
  ASSUME TypeOK, [Next]_vars PROVE TypeOK'
<1> USE SetsAssumption, NamesAssumption, BoundAssumption
<1>1. ASSUME NEW b \in Boards, NEW ch \in Chains, Start(b, ch) PROVE TypeOK'
  <2>1. last' \in [kind : {"none", "comment", "move", "start"},
                   project : Projects \cup {"none"}, card : Cards \cup {NoCard}]
    BY <1>1 DEF Start, Nothing
  <2>2. columns' \subseteq Boards /\ configured' \in Boards /\ chain' \in Chains
    BY <1>1 DEF Start, EnsureColumns, TypeOK
  <2>3. /\ up' \in BOOLEAN /\ passed' \subseteq Chains
        /\ cache' \in [chain : Chains \cup {"none"}, ok : BOOLEAN]
    <3>1. PreflightCheck(ch)
      BY <1>1 DEF Start
    <3>2. CASE Hit(ch)
      BY <3>1, <3>2 DEF PreflightCheck, TypeOK
    <3>3. CASE ~Hit(ch)
      <4>1. /\ up' = ({ch, "planka", "database"} \subseteq services)
            /\ passed' = passed \cup ({ch} \cap services)
            /\ cache' \in {cache, NoCache, [chain |-> ch, ok |-> TRUE]}
        BY <3>1, <3>3, CheckFacts
      <4>2. up' \in BOOLEAN
        BY <4>1
      <4>3. passed' \subseteq Chains
        BY <4>1 DEF TypeOK
      <4>4. cache' \in [chain : Chains \cup {"none"}, ok : BOOLEAN]
        <5> DEFINE Results == [chain : Chains \cup {"none"}, ok : BOOLEAN]
        <5>1. cache \in Results
          BY DEF TypeOK
        <5>2. NoCache \in Results /\ [chain |-> ch, ok |-> TRUE] \in Results
          BY DEF NoCache
        <5> HIDE DEF Results
        <5>3. cache' \in Results
          BY <4>1, <5>1, <5>2
        <5> QED
          BY <5>3 DEF Results
      <4> QED
        BY <4>2, <4>3, <4>4
    <3> QED
      BY <3>2, <3>3
  <2> QED
    BY <1>1, <2>1, <2>2, <2>3, StartCounts
    DEF Start, TypeOK, cardVars, indexVars
<1>2. CASE Stop
  <2>1. review' \in [Cards -> Review]
    BY <1>2 DEF Stop, Review
  <2>2. memory' \in [Projects -> Cards \cup {NoCard}]
    BY <1>2 DEF Stop
  <2>3. last' \in [kind : {"none", "comment", "move", "start"},
                   project : Projects \cup {"none"}, card : Cards \cup {NoCard}]
    BY <1>2 DEF Stop, Nothing
  <2>4. restarts' \in Nat
    BY <1>2 DEF Stop, TypeOK
  <2> QED
    BY <1>2, <2>1, <2>2, <2>3, <2>4 DEF Stop, TypeOK, cardVars
<1>3. ASSUME NEW b \in Boards, InitBoard(b) PROVE TypeOK'
  BY <1>3 DEF InitBoard, TypeOK, Nothing, cardVars, indexVars, boundVars
<1>4. ASSUME NEW c \in Cards, Trigger(c) PROVE TypeOK'
  BY <1>4, ProjectOfType DEF Trigger, At, TypeOK, Review, Nothing, indexVars, processVars, boundVars
<1>5. ASSUME NEW c \in Cards, CacheCard(c) PROVE TypeOK'
  BY <1>5, GotoType, ReviewRow, CacheCardIdType
  DEF CacheCard, At, TypeOK, ReviewType, IndexType, Nothing, cardVars, processVars, boundVars
<1>6. ASSUME NEW c \in Cards, Stub(c) PROVE TypeOK'
  BY <1>6, GotoType, ReviewRow
  DEF Stub, At, TypeOK, ReviewType, Nothing, cardVars, processVars, boundVars
<1>7. ASSUME NEW c \in Cards, TagCard(c) PROVE TypeOK'
  BY <1>7, GotoType, ReviewRow, ResolveType
  DEF TagCard, At, TypeOK, ReviewType, IndexType, Nothing, Answers, cardVars, indexVars, processVars, boundVars
<1>8. ASSUME NEW c \in Cards, Graph(c) PROVE TypeOK'
  BY <1>8, GotoType, ReviewRow
  DEF Graph, At, TypeOK, ReviewType, Nothing, cardVars, processVars, boundVars
<1>9. ASSUME NEW c \in Cards, LastMove(c) PROVE TypeOK'
  BY <1>9, ReviewRow, MoveType
  DEF LastMove, At, TypeOK, Review, IndexType, LastType, cardVars, processVars, boundVars
<1>u. ASSUME NEW c \in Cards, Unread(c) PROVE TypeOK'
  BY <1>u DEF Unread, At, TypeOK, Review, Nothing, cardVars, indexVars, processVars, boundVars
<1>10. ASSUME NEW p \in Projects, Serve(p) PROVE TypeOK'
  BY <1>10, MoveType, CommentType
  DEF Serve, TypeOK, IndexType, LastType, cardVars, processVars, boundVars
<1>11. ASSUME NEW c \in Cards, DeleteCard(c) PROVE TypeOK'
  BY <1>11 DEF DeleteCard, Edit, TypeOK, Nothing, indexVars, processVars
<1>12. ASSUME NEW c \in Cards, NEW b \in Boards, TransferCard(c, b) PROVE TypeOK'
  BY <1>12 DEF TransferCard, Edit, TypeOK, Nothing, indexVars, processVars
<1>13. ASSUME NEW c \in Cards, NEW p \in Projects \cup {"none"}, Describe(c, p)
       PROVE TypeOK'
  BY <1>13 DEF Describe, Edit, TypeOK, Nothing, indexVars, processVars
<1>14. ASSUME NEW s \in Chains \cup {"planka", "database"}, Outage(s) PROVE TypeOK'
  BY <1>14 DEF Outage, TypeOK, Nothing, cardVars, indexVars, processVars
<1>15. ASSUME NEW s \in Chains \cup {"planka", "database"}, Repair(s) PROVE TypeOK'
  BY <1>15 DEF Repair, TypeOK, Nothing, cardVars, indexVars, processVars, boundVars
<1>16. ASSUME NEW ch \in Chains, Expire(ch) PROVE TypeOK'
  BY <1>16 DEF Expire, TypeOK, Nothing, NoCache, cardVars, indexVars, boundVars
<1>17. CASE UNCHANGED vars
  BY <1>17 DEF vars, TypeOK, cardVars, indexVars, processVars, boundVars
<1> QED
  BY <1>1, <1>2, <1>3, <1>4, <1>5, <1>6, <1>7, <1>8, <1>9, <1>10, <1>11,
     <1>12, <1>13, <1>14, <1>15, <1>16, <1>17, <1>u
  DEF Next, ServerStep, World, User

\* Every variable keeps to its values; every review knows its project, also
\* that of a card without a thread_id (server.py:545).
THEOREM TypeCorrect == Spec => []TypeOK
<1> QED
  BY InitType, NextType, PTL DEF Spec

-----------------------------------------------------------------------------
(* What the server remembers of a project's card, and what it works on,    *)
(* the project once had a claim to.                                        *)

Claimed ==
  /\ \A p \in Projects : memory[p] # NoCard => memory[p] \in claims[p]
  /\ \A p \in Projects : row[p] \in Cards => row[p] \in claims[p]
  /\ \A c \in Cards : tag[c] # "none" => c \in claims[tag[c]]
  /\ \A c \in Cards :
       review[c].at # "idle" => c \in claims[review[c].project]
  /\ last.card # NoCard => last.card \in claims[last.project]

\* A step leaves memory and row within the claims.
StaysClaimed ==
  \A p \in Projects :
    /\ memory'[p] # NoCard => memory'[p] \in claims[p]
    /\ row'[p] \in Cards => row'[p] \in claims[p]

LEMMA CachedClaimed ==
  ASSUME TypeOK, Claimed, NEW p \in Projects, Cached(p) # NoCard
  PROVE  Cached(p) \in Cards /\ Cached(p) \in claims[p]
BY SetsAssumption DEF TypeOK, Claimed, Cached

LEMMA ScanClaimed ==
  ASSUME TypeOK, Claimed, NEW p \in Projects, NEW c \in Scan(p)
  PROVE  c \in Cards /\ c \in claims[p] /\ board[c] = configured
BY NamesAssumption DEF TypeOK, Claimed, Scan

LEMMA CacheCardIdClaimed ==
  ASSUME TypeOK, Claimed, NEW p \in Projects, NEW c \in claims[p],
         CacheCardId(p, c)
  PROVE  StaysClaimed /\ memory'[p] = c
BY DEF TypeOK, Claimed, CacheCardId, StaysClaimed

LEMMA ResolveClaimed ==
  ASSUME TypeOK, Claimed, NEW p \in Projects, NEW c, Resolve(p, c)
  PROVE  StaysClaimed /\ (c # NoCard => c \in claims[p] /\ memory'[p] = c)
<1>1. CASE Cached(p) # NoCard /\ c = Cached(p)
           /\ memory' = [memory EXCEPT ![p] = c] /\ UNCHANGED row
  BY <1>1, CachedClaimed DEF TypeOK, Claimed, StaysClaimed
<1>2. CASE c \in Scan(p) /\ CacheCardId(p, c)
  BY <1>2, ScanClaimed, CacheCardIdClaimed
<1>3. CASE c = NoCard /\ UNCHANGED indexVars
  BY <1>3 DEF Claimed, StaysClaimed, indexVars
<1> QED
  BY <1>1, <1>2, <1>3 DEF Resolve

LEMMA MovedClaimed ==
  ASSUME NEW p, NEW c, NEW b, Moved(p, c, b), c # NoCard => c \in claims[p]
  PROVE  last'.card # NoCard => last'.card \in claims[last'.project]
BY DEF Moved

LEMMA MoveClaimed ==
  ASSUME TypeOK, Claimed, NEW p \in Projects, Move(p)
  PROVE  /\ StaysClaimed
         /\ last'.card # NoCard => last'.card \in claims[last'.project]
<1>1. ASSUME NEW c, NEW b, Resolve(p, c), Moved(p, c, b)
      PROVE  /\ StaysClaimed
             /\ last'.card # NoCard => last'.card \in claims[last'.project]
  BY <1>1, ResolveClaimed, MovedClaimed
<1>2. ASSUME NEW c, Resolve(p, c), Moved(p, NoCard, configured)
      PROVE  /\ StaysClaimed
             /\ last'.card # NoCard => last'.card \in claims[last'.project]
  BY <1>2, ResolveClaimed, MovedClaimed
<1>3. CASE Rescan(p)
  <2>1. ASSUME NEW c \in Scan(p), CacheCardId(p, c), Moved(p, c, configured)
        PROVE  /\ StaysClaimed
               /\ last'.card # NoCard => last'.card \in claims[last'.project]
    BY <2>1, ScanClaimed, CacheCardIdClaimed, MovedClaimed
  <2>2. CASE Moved(p, NoCard, configured)
             /\ memory' = [memory EXCEPT ![p] = NoCard] /\ UNCHANGED row
    <3>1. StaysClaimed
      BY <2>2 DEF TypeOK, Claimed, StaysClaimed
    <3> QED
      BY <2>2, <3>1, MovedClaimed
  <2> QED
    BY <1>3, <2>1, <2>2 DEF Rescan
<1>4. CASE Moved(p, NoCard, configured)
           /\ memory' = [memory EXCEPT ![p] = NoCard] /\ UNCHANGED row
  <2>1. StaysClaimed
    BY <1>4 DEF TypeOK, Claimed, StaysClaimed
  <2> QED
    BY <1>4, <2>1, MovedClaimed
<1> QED
  BY <1>1, <1>2, <1>3, <1>4 DEF Move

LEMMA CommentClaimed ==
  ASSUME TypeOK, Claimed, NEW p \in Projects, Comment(p)
  PROVE  /\ StaysClaimed
         /\ last'.card # NoCard => last'.card \in claims[last'.project]
BY ResolveClaimed DEF Comment

LEMMA InitClaimed == Init => Claimed
BY SetsAssumption, NamesAssumption
DEF Init, Claimed, NoReview, Nothing

\* A step that forgets last and leaves tags, claims and reviews alone.
LEMMA ClaimedFrame ==
  ASSUME TypeOK, Claimed, StaysClaimed, UNCHANGED <<tag, claims>>,
         last'.card # NoCard => last'.card \in claims[last'.project],
         \A c \in Cards :
           review'[c].at # "idle" =>
             review[c].at # "idle" /\ review'[c].project = review[c].project
  PROVE  Claimed'
BY DEF Claimed, StaysClaimed

LEMMA SameIndex ==
  ASSUME Claimed, UNCHANGED indexVars
  PROVE  StaysClaimed
BY DEF Claimed, StaysClaimed, indexVars

LEMMA NextClaimed ==
  ASSUME TypeOK, Claimed, [Next]_vars PROVE Claimed'
<1>0. Nothing.card = NoCard
  BY DEF Nothing
<1>1. ASSUME NEW b \in Boards, NEW ch \in Chains, Start(b, ch) PROVE Claimed'
  <2>1. last'.card = NoCard
    BY <1>1 DEF Start, Nothing
  <2> QED
    BY <1>1, <2>1, SameIndex, ClaimedFrame DEF Start, cardVars
<1>2. CASE Stop
  <2>1. StaysClaimed
    BY <1>2 DEF Stop, Claimed, StaysClaimed
  <2> QED
    BY <1>0, <1>2, <2>1, ClaimedFrame DEF Stop, NoReview, cardVars
<1>3. ASSUME NEW b \in Boards, InitBoard(b) PROVE Claimed'
  BY <1>0, <1>3, SameIndex, ClaimedFrame DEF InitBoard, cardVars
<1>4. ASSUME NEW c \in Cards, Trigger(c) PROVE Claimed'
  <2>1. /\ ProjectOf(c) \in Projects
        /\ claims' = [claims EXCEPT ![ProjectOf(c)] = claims[ProjectOf(c)] \cup {c}]
    BY <1>4, ProjectOfType DEF Trigger
  <2>2. c \in claims'[ProjectOf(c)] /\ \A p \in Projects : claims[p] \subseteq claims'[p]
    BY <2>1 DEF TypeOK
  <2>3. \A d \in Cards :
          review'[d].at # "idle" => d \in claims'[review'[d].project]
    <3>1. review'[c].project = ProjectOf(c)
      BY <1>4 DEF Trigger, TypeOK
    <3>2. \A d \in Cards : d # c => review'[d] = review[d]
      BY <1>4 DEF Trigger, TypeOK
    <3> QED
      BY <2>2, <3>1, <3>2, ReviewRow DEF Claimed
  <2>4. UNCHANGED <<tag, memory, row>> /\ last'.card = NoCard
    BY <1>0, <1>4 DEF Trigger, indexVars
  <2> QED
    BY <2>2, <2>3, <2>4, NamesAssumption DEF Claimed, TypeOK
<1>5. ASSUME NEW c \in Cards, CacheCard(c) PROVE Claimed'
  <2>1. review[c].at # "idle" /\ Goto(c, "stub") /\ CacheCardId(review[c].project, c)
        /\ UNCHANGED <<tag, claims>> /\ last'.card = NoCard
    BY <1>0, <1>5 DEF CacheCard, At, cardVars
  <2>2. StaysClaimed
    BY <2>1, ReviewRow, CacheCardIdClaimed DEF Claimed
  <2> QED
    BY <2>1, <2>2, GotoType, ClaimedFrame
<1>6. ASSUME NEW c \in Cards, Stub(c) PROVE Claimed'
  <2>1. /\ review[c].at # "idle" /\ (Goto(c, "tag") \/ Goto(c, "move"))
        /\ UNCHANGED <<tag, claims, memory>> /\ last'.card = NoCard
        /\ row' = [row EXCEPT ![review[c].project] = "empty"] \/ UNCHANGED row
    BY <1>0, <1>6 DEF Stub, At, cardVars
  <2>2. StaysClaimed
    BY <2>1, ReviewRow, NamesAssumption DEF Claimed, TypeOK, StaysClaimed
  <2> QED
    BY <2>1, <2>2, GotoType, ClaimedFrame
<1>7. ASSUME NEW c \in Cards, TagCard(c) PROVE Claimed'
  <2> DEFINE p == review[c].project
  <2>1. /\ review[c].at # "idle" /\ Goto(c, "graph") /\ last'.card = NoCard
        /\ p \in Projects
    BY <1>0, <1>7, ReviewRow DEF TagCard, At
  <2>2. CASE UNCHANGED <<cardVars, indexVars>>
    BY <2>1, <2>2, GotoType, SameIndex, ClaimedFrame DEF cardVars
  <2>3. ASSUME NEW d, Resolve(p, d), UNCHANGED <<tag, claims>> PROVE Claimed'
    BY <2>1, <2>3, ResolveClaimed, GotoType, ClaimedFrame
  <2>4. ASSUME NEW d \in Cards, Resolve(p, d),
               tag' = [tag EXCEPT ![d] = p],
               claims' = [claims EXCEPT ![p] = claims[p] \cup {d}]
        PROVE  Claimed'
    <3>1. StaysClaimed
      BY <2>1, <2>4, ResolveClaimed
    <3>2. d \in claims'[p] /\ \A q \in Projects : claims[q] \subseteq claims'[q]
      BY <2>1, <2>4 DEF TypeOK
    <3>3. \A e \in Cards : tag'[e] # "none" => e \in claims'[tag'[e]]
      BY <2>4, <3>2 DEF TypeOK, Claimed
    <3>4. \A e \in Cards :
            review'[e].at # "idle" => e \in claims'[review'[e].project]
      <4>1. \A e \in Cards :
              review'[e].at # "idle" =>
                review[e].at # "idle" /\ review'[e].project = review[e].project
        BY <2>1, GotoType
      <4> QED
        BY <3>2, <4>1, ReviewRow DEF Claimed
    <3> QED
      BY <2>1, <3>1, <3>2, <3>3, <3>4 DEF Claimed, StaysClaimed
  <2> QED
    BY <1>7, <2>2, <2>3, <2>4 DEF TagCard, Answers
<1>8. ASSUME NEW c \in Cards, Graph(c) PROVE Claimed'
  <2>1. /\ review[c].at # "idle" /\ Goto(c, "move")
        /\ UNCHANGED <<tag, claims, memory>> /\ last'.card = NoCard
        /\ row' = [row EXCEPT ![review[c].project] = "empty"] \/ UNCHANGED row
    BY <1>0, <1>8 DEF Graph, At, cardVars
  <2>2. StaysClaimed
    BY <2>1, ReviewRow, NamesAssumption DEF Claimed, TypeOK, StaysClaimed
  <2> QED
    BY <2>1, <2>2, GotoType, ClaimedFrame
<1>9. ASSUME NEW c \in Cards, LastMove(c) PROVE Claimed'
  <2>1. /\ review[c].at # "idle" /\ Move(review[c].project)
        /\ UNCHANGED <<tag, claims>>
        /\ review' = [review EXCEPT ![c] = NoReview]
    BY <1>9 DEF LastMove, At, cardVars
  <2>2. \A d \in Cards :
          review'[d].at # "idle" =>
            review[d].at # "idle" /\ review'[d].project = review[d].project
    BY <2>1 DEF NoReview, TypeOK
  <2> QED
    BY <2>1, <2>2, ReviewRow, MoveClaimed, ClaimedFrame
<1>u. ASSUME NEW c \in Cards, Unread(c) PROVE Claimed'
  <2>1. \A d \in Cards :
          review'[d].at # "idle" =>
            review[d].at # "idle" /\ review'[d].project = review[d].project
    BY <1>u DEF Unread, NoReview, TypeOK
  <2> QED
    BY <1>0, <1>u, <2>1, SameIndex, ClaimedFrame DEF Unread, cardVars
<1>10. ASSUME NEW p \in Projects, Serve(p) PROVE Claimed'
  BY <1>10, MoveClaimed, CommentClaimed, ClaimedFrame DEF Serve, cardVars
<1>11. ASSUME NEW c \in Cards, DeleteCard(c) PROVE Claimed'
  BY <1>0, <1>11, SameIndex, ClaimedFrame DEF DeleteCard, Edit
<1>12. ASSUME NEW c \in Cards, NEW b \in Boards, TransferCard(c, b)
       PROVE  Claimed'
  BY <1>0, <1>12, SameIndex, ClaimedFrame DEF TransferCard, Edit
<1>13. ASSUME NEW c \in Cards, NEW p \in Projects \cup {"none"}, Describe(c, p)
       PROVE Claimed'
  <2>1. /\ tag' = [tag EXCEPT ![c] = p] /\ UNCHANGED <<memory, row, review>>
        /\ last'.card = NoCard
        /\ claims' = [q \in Projects |->
             IF q = p THEN claims[q] \cup {c} ELSE claims[q]]
    BY <1>0, <1>13 DEF Describe, Edit, indexVars
  <2>2. \A q \in Projects : claims[q] \subseteq claims'[q]
    BY <2>1
  <2>3. \A d \in Cards : tag'[d] # "none" => d \in claims'[tag'[d]]
    BY <2>1, <2>2, NamesAssumption DEF Claimed, TypeOK
  <2>4. \A d \in Cards :
          review'[d].at # "idle" => d \in claims'[review'[d].project]
    BY <2>1, <2>2, ReviewRow DEF Claimed
  <2> QED
    BY <2>1, <2>2, <2>3, <2>4 DEF Claimed
<1>14. ASSUME NEW s \in Chains \cup {"planka", "database"}, Outage(s)
       PROVE  Claimed'
  BY <1>0, <1>14, SameIndex, ClaimedFrame DEF Outage, cardVars
<1>15. ASSUME NEW s \in Chains \cup {"planka", "database"}, Repair(s)
       PROVE  Claimed'
  BY <1>0, <1>15, SameIndex, ClaimedFrame DEF Repair, cardVars
<1>16. ASSUME NEW ch \in Chains, Expire(ch) PROVE Claimed'
  BY <1>0, <1>16, SameIndex, ClaimedFrame DEF Expire, cardVars
<1>17. CASE UNCHANGED vars
  BY <1>17 DEF vars, Claimed, cardVars, indexVars
<1> QED
  BY <1>1, <1>2, <1>3, <1>4, <1>5, <1>6, <1>7, <1>8, <1>9, <1>10, <1>11,
     <1>12, <1>13, <1>14, <1>15, <1>16, <1>17, <1>u
  DEF Next, ServerStep, World, User

\* The server moves and comments only on cards that once were their project's
\* (planka.py:48-76, server.py:926-1004).
THEOREM ReachesClaimedCorrect == Spec => []ReachesClaimed
<1>1. ASSUME TypeOK, Claimed, [Next]_vars PROVE (TypeOK /\ Claimed)'
  BY <1>1, NextType, NextClaimed
<1>2. Claimed => ReachesClaimed
  BY DEF Claimed, ReachesClaimed
<1> QED
  BY <1>1, <1>2, InitType, InitClaimed, PTL DEF Spec

-----------------------------------------------------------------------------
(* What the cached result of a preflight says, and what an operator can    *)
(* rely on who has seen no outage.                                         *)

Ready ==
  /\ cache.ok = TRUE
  /\ cache.chain \in Chains => cache.chain \in passed
  /\ outages = 0 => "planka" \in services /\ "database" \in services
  /\ outages = 0 /\ up => configured \in columns

Started == ChainChecked /\ StartsWhenWell

LEMMA InitReady == Init => Ready /\ Started
BY NamesAssumption
DEF Init, Ready, Started, ChainChecked, StartsWhenWell, NoCache, Nothing

LEMMA OtherStep ==
  ASSUME last'.kind # "start"
  PROVE  Started'
BY DEF Started, ChainChecked, StartsWhenWell

LEMMA NextReady ==
  ASSUME TypeOK, Ready, Started, [Next]_vars PROVE Ready' /\ Started'
<1>0. Nothing.kind = "none"
  BY DEF Nothing
<1>1. ASSUME NEW b \in Boards, NEW ch \in Chains, Start(b, ch)
      PROVE  Ready' /\ Started'
  <2>1. /\ configured' = b /\ chain' = ch /\ columns' = EnsureColumns(b)
        /\ PreflightCheck(ch) /\ UNCHANGED services
        /\ outages' = 0 => outages = 0
    BY <1>1, StartCounts DEF Start
  <2>2. outages' = 0 => configured' \in columns'
    BY <2>1 DEF EnsureColumns, Works, Ready
  <2>3. CASE Hit(ch)
    <3>1. up' = TRUE /\ UNCHANGED <<cache, passed>> /\ cache.chain = ch
      BY <2>1, <2>3 DEF PreflightCheck, Hit, Ready
    <3> QED
      BY <2>1, <2>2, <3>1 DEF Ready, Started, ChainChecked, StartsWhenWell
  <2>4. CASE ~Hit(ch)
    <3>1. /\ up' = ({ch, "planka", "database"} \subseteq services)
          /\ passed' = passed \cup ({ch} \cap services)
          /\ \/ cache' = cache \/ cache' = NoCache
             \/ up' /\ cache' = [chain |-> ch, ok |-> TRUE]
      BY <2>1, <2>4, CheckFacts
    <3>2. cache'.ok = TRUE /\ (cache'.chain \in Chains => cache'.chain \in passed')
      <4>1. CASE cache' = cache
        BY <3>1, <4>1 DEF Ready
      <4>2. CASE cache' = NoCache
        BY <4>2, NamesAssumption DEF NoCache
      <4>3. CASE up' /\ cache' = [chain |-> ch, ok |-> TRUE]
        <5>1. ch \in passed'
          BY <3>1, <4>3
        <5> QED
          BY <4>3, <5>1
      <4> QED
        BY <3>1, <4>1, <4>2, <4>3
    <3>3. ChainChecked'
      BY <2>1, <3>1 DEF ChainChecked
    <3>4. StartsWhenWell'
      BY <2>1, <3>1 DEF StartsWhenWell, Required
    <3> QED
      BY <2>1, <2>2, <3>2, <3>3, <3>4 DEF Ready, Started
  <2> QED
    BY <2>3, <2>4
<1>2. CASE Stop
  BY <1>0, <1>2, OtherStep DEF Stop, Ready
<1>3. ASSUME NEW b \in Boards, InitBoard(b) PROVE Ready' /\ Started'
  BY <1>0, <1>3, OtherStep DEF InitBoard, Ready, boundVars
\* The steps that serve a project.
<1>s. ASSUME UNCHANGED <<processVars, boundVars, services>>, last'.kind # "start"
      PROVE  Ready' /\ Started'
  BY <1>s, OtherStep DEF Ready, processVars, boundVars
<1>4. ASSUME NEW c \in Cards, Trigger(c) PROVE Ready' /\ Started'
  BY <1>0, <1>4, <1>s DEF Trigger
<1>5. ASSUME NEW c \in Cards, CacheCard(c) PROVE Ready' /\ Started'
  BY <1>0, <1>5, <1>s DEF CacheCard
<1>6. ASSUME NEW c \in Cards, Stub(c) PROVE Ready' /\ Started'
  BY <1>0, <1>6, <1>s DEF Stub
<1>7. ASSUME NEW c \in Cards, TagCard(c) PROVE Ready' /\ Started'
  BY <1>0, <1>7, <1>s DEF TagCard
<1>8. ASSUME NEW c \in Cards, Graph(c) PROVE Ready' /\ Started'
  BY <1>0, <1>8, <1>s DEF Graph
<1>9. ASSUME NEW c \in Cards, LastMove(c) PROVE Ready' /\ Started'
  <2>1. review[c].at # "idle" /\ Move(review[c].project)
    BY <1>9 DEF LastMove, At
  <2>2. last'.kind = "move"
    BY <2>1, ReviewRow, MoveType
  <2> QED
    BY <1>9, <1>s, <2>2 DEF LastMove
<1>u. ASSUME NEW c \in Cards, Unread(c) PROVE Ready' /\ Started'
  BY <1>0, <1>u, <1>s DEF Unread
<1>10. ASSUME NEW p \in Projects, Serve(p) PROVE Ready' /\ Started'
  <2>1. last'.kind \in {"move", "comment"}
    BY <1>10, MoveType, CommentType DEF Serve
  <2> QED
    BY <1>10, <1>s, <2>1 DEF Serve
<1>11. ASSUME Edit PROVE Ready' /\ Started'
  BY <1>0, <1>11, OtherStep DEF Edit, Ready, processVars
<1>12. ASSUME NEW s \in Chains \cup {"planka", "database"}, Outage(s)
       PROVE  Ready' /\ Started'
  <2>1. outages' # 0 /\ UNCHANGED processVars /\ last' = Nothing
    BY <1>12 DEF Outage, TypeOK
  <2> QED
    BY <1>0, <2>1, OtherStep DEF Ready, processVars
<1>13. ASSUME NEW s \in Chains \cup {"planka", "database"}, Repair(s)
       PROVE  Ready' /\ Started'
  BY <1>0, <1>13, OtherStep DEF Repair, Ready, processVars, boundVars
<1>14. ASSUME NEW ch \in Chains, Expire(ch) PROVE Ready' /\ Started'
  <2>1. /\ passed' = passed \ {ch} /\ last' = Nothing
        /\ cache' = IF cache.chain = ch THEN NoCache ELSE cache
        /\ UNCHANGED <<up, configured, columns, outages, services>>
    BY <1>14 DEF Expire, boundVars
  <2>2. cache'.ok = TRUE /\ (cache'.chain \in Chains => cache'.chain \in passed')
    BY <2>1, NamesAssumption DEF Ready, NoCache
  <2> QED
    BY <1>0, <2>1, <2>2, OtherStep DEF Ready
<1>15. CASE UNCHANGED vars
  BY <1>15 DEF vars, Ready, Started, ChainChecked, StartsWhenWell, Required,
               processVars, boundVars
<1> QED
  BY <1>1, <1>2, <1>3, <1>4, <1>5, <1>6, <1>7, <1>8, <1>9, <1>10, <1>11,
     <1>12, <1>13, <1>14, <1>15, <1>u
  DEF Next, ServerStep, World, User, DeleteCard, TransferCard, Describe

LEMMA ReadyCorrect == Spec => [](TypeOK /\ Claimed /\ Ready /\ Started)
<1>1. ASSUME TypeOK, Claimed, Ready, Started, [Next]_vars
      PROVE  (TypeOK /\ Claimed /\ Ready /\ Started)'
  BY <1>1, NextType, NextClaimed, NextReady
<1> QED
  BY <1>1, InitType, InitClaimed, InitReady, PTL DEF Spec

\* No server starts on the word of a check of another chain, of a failed one
\* or of an old one (llm_preflight.py:178-192, 241-246).
THEOREM ChainCheckedCorrect == Spec => []ChainChecked
<1>1. Started => ChainChecked
  BY DEF Started
<1> QED
  BY <1>1, ReadyCorrect, PTL

\* Once everything a server needs is well, it starts (llm_preflight.py:
\* 276-278).
THEOREM StartsWhenWellCorrect == Spec => []StartsWhenWell
<1>1. Started => StartsWhenWell
  BY DEF Started
<1> QED
  BY <1>1, ReadyCorrect, PTL

-----------------------------------------------------------------------------
(* What a move of the card comes to.                                       *)

Reached == MoveReaches /\ MoveHeals

LEMMA MoveReached ==
  ASSUME TypeOK, Claimed, Ready, up, NEW p \in Projects, Move(p),
         UNCHANGED <<cardVars, processVars, outages, services>>
  PROVE  Reached'
<1>0. last'.kind = "move" /\ last'.project = p
  BY MoveType
<1> DEFINE home == (\E c \in Cards : tag[c] = p /\ board[c] = configured)
                   /\ (\A c \in claims[p] : board[c] \in {configured, "deleted"})
<1>1. SUFFICES /\ outages = 0 /\ home => last'.card # NoCard
               /\ Works("planka") =>
                    memory'[p] = NoCard \/ board[memory'[p]] # "deleted"
  BY <1>0 DEF Reached, MoveReaches, MoveHeals, Works, cardVars, processVars
<1>2. outages = 0 /\ home =>
        /\ Works("planka") /\ Works("database") /\ configured \in columns
        /\ Scan(p) # {}
  BY DEF Ready, Works, Scan
<1>3. configured # "deleted"
  BY NamesAssumption DEF TypeOK
<1>4. ASSUME NEW c \in Cards, Answers(c), Resolve(p, c), Moved(p, c, board[c])
      PROVE  /\ outages = 0 /\ home => last'.card # NoCard
             /\ memory'[p] = c /\ board[c] # "deleted"
  <2>1. c \in claims[p] /\ memory'[p] = c
    BY <1>4, ResolveClaimed, SetsAssumption
  <2>2. outages = 0 /\ home => board[c] \in columns
    BY <1>2, <1>4, <2>1 DEF Answers
  <2> QED
    BY <1>4, <2>1, <2>2, SetsAssumption DEF Answers, Moved
<1>5. CASE Rescan(p) /\ Works("planka")
  <2>1. ASSUME NEW c \in Scan(p), CacheCardId(p, c), Moved(p, c, configured)
        PROVE  /\ outages = 0 /\ home => last'.card # NoCard
               /\ memory'[p] = c /\ board[c] # "deleted"
    <3>1. c \in Cards /\ c \in claims[p] /\ board[c] = configured
      BY <2>1, ScanClaimed
    <3>2. memory'[p] = c
      BY <2>1, <3>1, CacheCardIdClaimed
    <3> QED
      BY <1>2, <1>3, <2>1, <3>1, <3>2, SetsAssumption DEF Moved
  <2>2. CASE Scan(p) = {} /\ memory' = [memory EXCEPT ![p] = NoCard]
    <3>1. memory'[p] = NoCard
      BY <2>2 DEF TypeOK
    <3> QED
      BY <1>2, <2>2, <3>1
  <2> QED
    BY <1>5, <2>1, <2>2 DEF Rescan
<1>6. CASE Resolve(p, NoCard) /\ Works("planka")
  <2>1. Scan(p) = {} /\ memory'[p] = NoCard
    <3>1. NoCard \notin Scan(p)
      BY SetsAssumption DEF Scan
    <3>2. Cached(p) = NoCard /\ Scan(p) = {} /\ UNCHANGED indexVars
      BY <1>6, <3>1 DEF Resolve
    <3>3. memory[p] = NoCard
      BY <3>2 DEF Cached
    <3> QED
      BY <3>2, <3>3 DEF indexVars
  <2> QED
    BY <1>2, <2>1
<1>7. CASE ~Works("planka")
  BY <1>2, <1>7
<1> QED
  BY <1>4, <1>5, <1>6, <1>7 DEF Move

LEMMA NextReached ==
  ASSUME TypeOK, Claimed, Ready, Reached, [Next]_vars PROVE Reached'
<1>0. Nothing.kind = "none"
  BY DEF Nothing
<1>1. ASSUME last'.kind # "move" PROVE Reached'
  BY <1>1 DEF Reached, MoveReaches, MoveHeals
<1>2. ASSUME NEW b \in Boards, NEW ch \in Chains, Start(b, ch) PROVE Reached'
  BY <1>1, <1>2 DEF Start, Nothing
<1>3. CASE Stop
  BY <1>0, <1>1, <1>3 DEF Stop
<1>4. ASSUME NEW b \in Boards, InitBoard(b) PROVE Reached'
  BY <1>0, <1>1, <1>4 DEF InitBoard
<1>5. ASSUME NEW c \in Cards,
             \/ Trigger(c) \/ CacheCard(c) \/ Unread(c) \/ Stub(c) \/ TagCard(c)
             \/ Graph(c)
      PROVE  Reached'
  BY <1>0, <1>1, <1>5 DEF Trigger, CacheCard, Unread, Stub, TagCard, Graph
<1>6. ASSUME NEW c \in Cards, LastMove(c) PROVE Reached'
  <2>1. /\ review[c].at # "idle" /\ up /\ Move(review[c].project)
        /\ UNCHANGED <<cardVars, processVars, outages, services>>
    BY <1>6 DEF LastMove, At, boundVars
  <2> QED
    BY <2>1, ReviewRow, MoveReached
<1>7. ASSUME NEW p \in Projects, Serve(p) PROVE Reached'
  <2>1. CASE Move(p)
    BY <1>7, <2>1, MoveReached DEF Serve, boundVars
  <2>2. CASE Comment(p)
    BY <1>1, <2>2, CommentType
  <2> QED
    BY <1>7, <2>1, <2>2 DEF Serve
<1>8. CASE World
  BY <1>0, <1>1, <1>8
  DEF World, User, DeleteCard, TransferCard, Describe, Edit, Outage, Repair,
      Expire
<1>9. CASE UNCHANGED vars
  BY <1>9 DEF vars, Reached, MoveReaches, MoveHeals, Works, cardVars, indexVars,
              processVars, boundVars
<1> QED
  BY <1>2, <1>3, <1>4, <1>5, <1>6, <1>7, <1>8, <1>9 DEF Next, ServerStep

LEMMA ReachedCorrect == Spec => []Reached
<1>1. Init => Reached
  BY DEF Init, Reached, MoveReaches, MoveHeals, Nothing
<1>2. ASSUME TypeOK, Claimed, Ready, Reached, [Next]_vars PROVE Reached'
  BY <1>2, NextReached
<1> QED
  BY <1>1, <1>2, ReadyCorrect, PTL DEF Spec

\* Without outages a move reaches a card if the board has one for the project
\* (server.py:944-996).
THEOREM MoveReachesCorrect == Spec => []MoveReaches
<1>1. Reached => MoveReaches
  BY DEF Reached
<1> QED
  BY <1>1, ReachedCorrect, PTL

\* A move that found Planka up leaves no deleted card in the memory
\* (server.py:951-957).
THEOREM MoveHealsCorrect == Spec => []MoveHeals
<1>1. Reached => MoveHeals
  BY DEF Reached
<1> QED
  BY <1>1, ReachedCorrect, PTL

-----------------------------------------------------------------------------
(* Reviews of cards that their users leave alone.  A card then has a claim *)
(* by one project only, and the memory of that project is never emptied    *)
(* while the server is up.                                                 *)

Alone ==
  edits = 0 =>
    /\ \A c \in Cards : board[c] # "deleted"
    /\ \A p \in Projects : \A c \in claims[p] : p = ProjectOf(c)

TaggedOf(c) ==
  edits = 0 =>
    /\ review[c].at # "idle" /\ review[c].tagged => tag[c] # "none"
    /\ outages = 0 /\ review[c].at \in {"stub", "tag"} =>
         memory[review[c].project] # NoCard
    /\ outages = 0 /\ review[c].at \in {"graph", "move"}
         /\ claims[review[c].project] = {c} => tag[c] # "none"

Tagged == \A c \in Cards : TaggedOf(c)

LEMMA InitTagged == Init => Alone /\ Tagged
BY NamesAssumption DEF Init, Alone, Tagged, TaggedOf, ProjectOf, NoReview

\* A step that writes no description and edits no card.
LEMMA AloneFrame ==
  ASSUME Alone, UNCHANGED <<cardVars, edits>>
  PROVE  Alone'
BY DEF Alone, ProjectOf, cardVars

\* Without edits no project forgets its card, ...
LEMMA MoveRemembers ==
  ASSUME TypeOK, Claimed, Alone, Ready, NEW p \in Projects, Move(p),
         edits = 0, outages = 0
  PROVE  \A q \in Projects : memory[q] # NoCard => memory'[q] # NoCard
<1> SUFFICES ASSUME NEW q \in Projects, memory[q] # NoCard
             PROVE  memory'[q] # NoCard
  OBVIOUS
<1>1. Works("planka") /\ Works("database")
  BY DEF Ready, Works
<1>2. ASSUME Cached(p) # NoCard PROVE Answers(Cached(p))
  BY <1>1, <1>2, CachedClaimed DEF Alone, Answers
<1>3. ASSUME NEW c, Resolve(p, c) PROVE memory'[q] # NoCard
  BY <1>3 DEF Resolve, CacheCardId, Scan, TypeOK, indexVars, Cached
<1> QED
  BY <1>1, <1>2, <1>3 DEF Move

LEMMA ResolveRemembers ==
  ASSUME TypeOK, NEW p \in Projects, NEW c, Resolve(p, c)
  PROVE  \A q \in Projects : memory[q] # NoCard => memory'[q] # NoCard
<1>1. NoCard \notin Scan(p)
  BY SetsAssumption DEF Scan
<1> QED
  BY <1>1 DEF Resolve, CacheCardId, TypeOK, indexVars

\* ... and a step that leaves descriptions and a review alone leaves it in
\* order.
LEMMA TaggedFrame ==
  ASSUME TypeOK, NEW c \in Cards, TaggedOf(c), edits' = 0 => edits = 0,
         outages' = 0 => outages = 0, review'[c] = review[c], tag'[c] = tag[c],
         \A p \in Projects : claims[p] \subseteq claims'[p],
         Claimed,
         edits = 0 /\ outages = 0 =>
           \A q \in Projects : memory[q] # NoCard => memory'[q] # NoCard
  PROVE  TaggedOf(c)'
<1>1. CASE review[c].at = "idle"
  BY <1>1 DEF TaggedOf
<1>2. CASE review[c].at # "idle"
  <2>1. review[c].project \in Projects /\ c \in claims[review[c].project]
    BY <1>2, ReviewRow DEF Claimed
  <2> QED
    BY <2>1 DEF TaggedOf
<1> QED
  BY <1>1, <1>2

\* A step that forgets, edits or resolves nothing.
LEMMA TaggedStays ==
  ASSUME TypeOK, Claimed, Tagged, edits' = 0 => edits = 0,
         outages' = 0 => outages = 0,
         UNCHANGED <<tag, claims, memory, review>>
  PROVE  Tagged'
BY TaggedFrame DEF Tagged

LEMMA NextTagged ==
  ASSUME TypeOK, Claimed, Ready, Alone, Tagged, [Next]_vars
  PROVE  Alone' /\ Tagged'
<1>1. ASSUME NEW b \in Boards, NEW ch \in Chains, Start(b, ch)
      PROVE  Alone' /\ Tagged'
  BY <1>1, AloneFrame, TaggedStays, StartCounts DEF Start, cardVars, indexVars
<1>2. CASE Stop
  <2>1. \A c \in Cards : review'[c] = NoReview
    BY <1>2 DEF Stop
  <2> QED
    BY <1>2, <2>1, AloneFrame DEF Stop, Tagged, TaggedOf, NoReview
<1>3. ASSUME NEW b \in Boards, InitBoard(b) PROVE Alone' /\ Tagged'
  BY <1>3, AloneFrame, TaggedStays DEF InitBoard, boundVars, cardVars, indexVars
<1>4. ASSUME NEW c \in Cards, Trigger(c) PROVE Alone' /\ Tagged'
  <2>1. /\ ProjectOf(c) \in Projects /\ UNCHANGED <<board, tag, memory, edits, outages>>
        /\ claims' = [claims EXCEPT ![ProjectOf(c)] = claims[ProjectOf(c)] \cup {c}]
    BY <1>4, ProjectOfType DEF Trigger, indexVars, boundVars
  <2>2. \A p \in Projects : claims[p] \subseteq claims'[p]
    BY <2>1 DEF TypeOK
  <2>3. Alone'
    BY <2>1 DEF Alone, ProjectOf, TypeOK
  <2>4. ASSUME NEW d \in Cards, d # c PROVE TaggedOf(d)'
    <3>1. review'[d] = review[d]
      BY <1>4, <2>4 DEF Trigger, TypeOK
    <3> QED
      BY <2>1, <2>2, <3>1, TaggedFrame DEF Tagged
  <2>5. TaggedOf(c)'
    <3>1. review'[c].at = "cache" /\ review'[c].tagged = (tag[c] # "none")
      BY <1>4 DEF Trigger, TypeOK
    <3> QED
      BY <2>1, <3>1 DEF TaggedOf
  <2> QED
    BY <2>3, <2>4, <2>5 DEF Tagged
<1>5. ASSUME NEW c \in Cards, CacheCard(c) PROVE Alone' /\ Tagged'
  <2>1. /\ review[c].at = "cache" /\ Goto(c, "stub")
        /\ CacheCardId(review[c].project, c) /\ UNCHANGED <<cardVars, edits, outages>>
        /\ review[c].project \in Projects
    BY <1>5, ReviewRow DEF CacheCard, At, boundVars
  <2>2. memory' = [memory EXCEPT ![review[c].project] = c] /\ c # NoCard
    BY <2>1, SetsAssumption DEF CacheCardId
  <2>3. ASSUME NEW d \in Cards, d # c PROVE TaggedOf(d)'
    <3>1. review'[d] = review[d]
      BY <2>1, <2>3, GotoType
    <3>2. \A q \in Projects : memory[q] # NoCard => memory'[q] # NoCard
      BY <2>2 DEF TypeOK
    <3> QED
      BY <2>1, <3>1, <3>2, TaggedFrame DEF Tagged, cardVars
  <2>4. TaggedOf(c)'
    <3>1. /\ review'[c].at = "stub" /\ review'[c].project = review[c].project
          /\ review'[c].tagged = review[c].tagged
      BY <2>1, GotoType
    <3>2. memory'[review[c].project] # NoCard
      BY <2>1, <2>2 DEF TypeOK
    <3> QED
      BY <2>1, <3>1, <3>2 DEF Tagged, TaggedOf, cardVars
  <2> QED
    BY <2>1, <2>3, <2>4, AloneFrame DEF Tagged
<1>6. ASSUME NEW c \in Cards, Stub(c) PROVE Alone' /\ Tagged'
  <2>1. /\ review[c].at = "stub" /\ UNCHANGED <<cardVars, edits, outages, memory>>
        /\ (Goto(c, "tag") \/ Goto(c, "move")) /\ (Works("database") => Goto(c, "tag"))
    BY <1>6 DEF Stub, At, boundVars
  <2>2. /\ review'[c].at \in {"tag", "move"} /\ review'[c].project = review[c].project
        /\ review'[c].tagged = review[c].tagged
        /\ Works("database") => review'[c].at = "tag"
        /\ \A d \in Cards : d # c => review'[d] = review[d]
    BY <2>1, GotoType
  <2>3. TaggedOf(c)'
    BY <2>1, <2>2 DEF Tagged, TaggedOf, Ready, Works, cardVars
  <2>4. ASSUME NEW d \in Cards, d # c PROVE TaggedOf(d)'
    BY <2>1, <2>2, <2>4, TaggedFrame DEF Tagged, cardVars
  <2> QED
    BY <2>1, <2>3, <2>4, AloneFrame DEF Tagged
<1>7. ASSUME NEW c \in Cards, TagCard(c) PROVE Alone' /\ Tagged'
  <2> DEFINE p == review[c].project
  <2>1. /\ review[c].at = "tag" /\ Goto(c, "graph") /\ p \in Projects
        /\ UNCHANGED <<board, edits, outages>> /\ c \in claims[p]
    BY <1>7, ReviewRow DEF TagCard, At, boundVars, cardVars, Claimed
  <2>2. /\ review'[c].at = "graph" /\ review'[c].project = p
        /\ review'[c].tagged = review[c].tagged
        /\ \A d \in Cards : d # c => review'[d] = review[d]
    BY <2>1, GotoType
  <2>3. CASE review[c].tagged /\ UNCHANGED <<cardVars, indexVars>>
    <3>1. TaggedOf(c)'
      BY <2>1, <2>2, <2>3 DEF Tagged, TaggedOf, cardVars
    <3>2. ASSUME NEW d \in Cards, d # c PROVE TaggedOf(d)'
      BY <2>1, <2>2, <2>3, <3>2, TaggedFrame DEF Tagged, cardVars, indexVars
    <3> QED
      BY <2>1, <2>3, <3>1, <3>2, AloneFrame DEF Tagged
  <2>4. ASSUME NEW d \in Cards \cup {NoCard}, Resolve(p, d), ~Answers(d),
               UNCHANGED <<tag, claims>>
        PROVE  Alone' /\ Tagged'
    <3>1. TaggedOf(c)'
      <4>1. ASSUME edits = 0, outages = 0 PROVE FALSE
        <5>1. memory[p] # NoCard
          BY <2>1, <4>1 DEF Tagged, TaggedOf
        <5>2. d = memory[p] /\ d \in Cards
          BY <2>1, <2>4, <5>1 DEF Resolve, Cached, TypeOK
        <5> QED
          BY <2>4, <4>1, <5>2 DEF Answers, Alone, Ready, Works
      <4> QED
        BY <2>1, <2>2, <2>4, <4>1 DEF Tagged, TaggedOf
    <3>2. ASSUME NEW e \in Cards, e # c PROVE TaggedOf(e)'
      BY <2>1, <2>2, <2>4, <3>2, ResolveRemembers, TaggedFrame DEF Tagged
    <3> QED
      BY <2>1, <2>4, <3>1, <3>2, AloneFrame DEF Tagged, cardVars
  <2>5. ASSUME NEW d \in Cards, Resolve(p, d),
               tag' = [tag EXCEPT ![d] = p],
               claims' = [claims EXCEPT ![p] = claims[p] \cup {d}]
        PROVE  Alone' /\ Tagged'
    <3>1. d \in claims[p] /\ claims' = claims
      BY <2>1, <2>5, ResolveClaimed, SetsAssumption DEF TypeOK
    <3>2. p # "none"
      BY <2>1, NamesAssumption
    <3>3. Alone'
      <4>1. ASSUME NEW e \in Cards, edits = 0 PROVE ProjectOf(e)' = ProjectOf(e)
        <5>1. CASE e = d
          <6>1. p = ProjectOf(d)
            BY <2>1, <3>1, <4>1 DEF Alone
          <6>2. tag'[d] = p
            BY <2>5 DEF TypeOK
          <6> QED
            BY <3>2, <5>1, <6>1, <6>2 DEF ProjectOf
        <5>2. CASE e # d
          BY <2>5, <5>2 DEF ProjectOf, TypeOK
        <5> QED
          BY <5>1, <5>2
      <4> QED
        BY <2>1, <3>1, <4>1 DEF Alone, TypeOK
    <3>4. ASSUME NEW e \in Cards, tag[e] # "none" PROVE tag'[e] # "none"
      BY <2>5, <3>2, <3>4 DEF TypeOK
    <3>5. \A q \in Projects : memory[q] # NoCard => memory'[q] # NoCard
      BY <2>1, <2>5, ResolveRemembers
    <3>6. TaggedOf(c)'
      <4>1. ASSUME edits = 0, outages = 0, claims[p] = {c} PROVE tag'[c] # "none"
        <5>1. d = c
          BY <3>1, <4>1
        <5> QED
          BY <2>5, <3>2, <5>1 DEF TypeOK
      <4> QED
        BY <2>1, <2>2, <3>1, <3>4, <4>1 DEF Tagged, TaggedOf
    <3>7. ASSUME NEW e \in Cards, e # c PROVE TaggedOf(e)'
      <4>1. review'[e] = review[e] /\ TaggedOf(e)
        BY <2>2, <3>7 DEF Tagged
      <4>2. CASE review[e].at = "idle"
        BY <4>1, <4>2 DEF TaggedOf
      <4>3. CASE review[e].at # "idle"
        BY <2>1, <3>1, <3>4, <3>5, <4>1, <4>3, ReviewRow DEF TaggedOf
      <4> QED
        BY <4>2, <4>3
    <3> QED
      BY <3>3, <3>6, <3>7 DEF Tagged
  <2> QED
    BY <1>7, <2>3, <2>4, <2>5 DEF TagCard, Answers
<1>8. ASSUME NEW c \in Cards, Graph(c) PROVE Alone' /\ Tagged'
  <2>1. /\ review[c].at = "graph" /\ UNCHANGED <<cardVars, edits, outages, memory>>
        /\ Goto(c, "move")
    BY <1>8 DEF Graph, At, boundVars
  <2>2. /\ review'[c].at = "move" /\ review'[c].project = review[c].project
        /\ review'[c].tagged = review[c].tagged
        /\ \A d \in Cards : d # c => review'[d] = review[d]
    BY <2>1, GotoType
  <2>3. TaggedOf(c)'
    BY <2>1, <2>2 DEF Tagged, TaggedOf, cardVars
  <2>4. ASSUME NEW d \in Cards, d # c PROVE TaggedOf(d)'
    BY <2>1, <2>2, <2>4, TaggedFrame DEF Tagged, cardVars
  <2> QED
    BY <2>1, <2>3, <2>4, AloneFrame DEF Tagged
<1>9. ASSUME NEW c \in Cards, LastMove(c) PROVE Alone' /\ Tagged'
  <2>1. /\ review[c].at # "idle" /\ Move(review[c].project)
        /\ UNCHANGED <<cardVars, edits, outages>>
        /\ review' = [review EXCEPT ![c] = NoReview]
    BY <1>9 DEF LastMove, At, boundVars
  <2>2. edits = 0 /\ outages = 0 =>
          \A q \in Projects : memory[q] # NoCard => memory'[q] # NoCard
    BY <2>1, ReviewRow, MoveRemembers
  <2>3. TaggedOf(c)'
    BY <2>1 DEF TaggedOf, NoReview, TypeOK
  <2>4. ASSUME NEW d \in Cards, d # c PROVE TaggedOf(d)'
    <3>1. review'[d] = review[d]
      BY <2>1, <2>4 DEF TypeOK
    <3> QED
      BY <2>1, <2>2, <3>1, TaggedFrame DEF Tagged, cardVars
  <2> QED
    BY <2>1, <2>3, <2>4, AloneFrame DEF Tagged
<1>u. ASSUME NEW c \in Cards, Unread(c) PROVE Alone' /\ Tagged'
  <2>1. /\ UNCHANGED <<cardVars, memory, edits, outages>>
        /\ review' = [review EXCEPT ![c] = NoReview]
    BY <1>u DEF Unread, indexVars, boundVars
  <2>2. TaggedOf(c)'
    BY <2>1 DEF TaggedOf, NoReview, TypeOK
  <2>3. ASSUME NEW d \in Cards, d # c PROVE TaggedOf(d)'
    <3>1. review'[d] = review[d]
      BY <2>1, <2>3 DEF TypeOK
    <3> QED
      BY <2>1, <3>1, TaggedFrame DEF Tagged, cardVars
  <2> QED
    BY <2>1, <2>2, <2>3, AloneFrame DEF Tagged
<1>10. ASSUME NEW p \in Projects, Serve(p) PROVE Alone' /\ Tagged'
  <2>1. edits = 0 /\ outages = 0 =>
          \A q \in Projects : memory[q] # NoCard => memory'[q] # NoCard
    BY <1>10, MoveRemembers, ResolveRemembers DEF Serve, Comment
  <2> QED
    BY <1>10, <2>1, AloneFrame, TaggedFrame
    DEF Serve, Tagged, cardVars, boundVars
<1>11. CASE User
  <2>1. edits' # 0
    BY <1>11 DEF User, DeleteCard, TransferCard, Describe, Edit, TypeOK
  <2> QED
    BY <2>1 DEF Alone, Tagged, TaggedOf
<1>12. ASSUME NEW s \in Chains \cup {"planka", "database"}, Outage(s)
       PROVE  Alone' /\ Tagged'
  <2>1. outages' # 0 /\ UNCHANGED <<edits, memory, review, cardVars>>
    BY <1>12 DEF Outage, TypeOK, indexVars
  <2> QED
    BY <2>1, AloneFrame, TaggedStays DEF cardVars
<1>13. ASSUME NEW s \in Chains \cup {"planka", "database"}, Repair(s)
       PROVE  Alone' /\ Tagged'
  BY <1>13, AloneFrame, TaggedStays DEF Repair, boundVars, cardVars, indexVars
<1>14. ASSUME NEW ch \in Chains, Expire(ch) PROVE Alone' /\ Tagged'
  BY <1>14, AloneFrame, TaggedStays DEF Expire, boundVars, cardVars, indexVars
<1>15. CASE UNCHANGED vars
  BY <1>15, AloneFrame, TaggedStays DEF vars, boundVars, cardVars, indexVars
<1> QED
  BY <1>1, <1>2, <1>3, <1>4, <1>5, <1>6, <1>7, <1>8, <1>9, <1>10, <1>11,
     <1>12, <1>13, <1>14, <1>15, <1>u
  DEF Next, ServerStep, World

LEMMA TaggedCard ==
  TypeOK /\ Claimed /\ Alone /\ Tagged => TaggedByReview
<1> SUFFICES ASSUME TypeOK, Claimed, Alone, Tagged, NEW c \in Cards,
                    review[c].at \in {"graph", "move"}, edits = 0, outages = 0,
                    claims[review[c].project] = {c}
             PROVE  tag[c] = review[c].project
  BY DEF TaggedByReview
<1>1. review[c].project \in Projects /\ tag[c] # "none"
  BY ReviewRow DEF Tagged, TaggedOf
<1>2. review[c].project = ProjectOf(c)
  BY <1>1 DEF Alone
<1> QED
  BY <1>1, <1>2 DEF ProjectOf

\* A review leaves the id of its project in the card's description
\* (server.py:337-355).
THEOREM TaggedByReviewCorrect == Spec => []TaggedByReview
<1>1. ASSUME TypeOK, Claimed, Ready, Alone, Tagged, [Next]_vars
      PROVE  (Alone /\ Tagged)'
  BY <1>1, NextTagged
<1> QED
  BY <1>1, InitTagged, TaggedCard, ReadyCorrect, PTL DEF Spec

===============================================================================
