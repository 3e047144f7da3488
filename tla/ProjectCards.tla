----------------------------- MODULE ProjectCards -----------------------------
(***************************************************************************)
(* How the server starts and how it finds a project's card.                *)
(*                                                                         *)
(* The framework knows projects, Planka knows cards; a card belongs to the *)
(* project its description names (thread_id: ...).  PlankaSink (framework/ *)
(* planka.py) remembers a project's card in memory and in the config of    *)
(* its row, and failing both looks through the configured board;           *)
(* _move_planka_card (framework/api/server.py) asks it, and looks once     *)
(* more when the card it is told is gone.  The memory is lost with the     *)
(* process, and create_project replaces the config and with it the card.   *)
(*                                                                         *)
(* The process starts through _lifespan: columns of the board, preflight   *)
(* with its cached result (framework/llm_preflight.py), traffic.  Every    *)
(* request to Planka or the database fails while that service is down.     *)
(***************************************************************************)
EXTENDS Integers, FiniteSets

CONSTANTS
  Cards, Projects, Boards, Chains,  \* Chains: values of LLM_CHAIN
  Slug,         \* the project id made of a card's name
  NoCard,
  MaxEvents     \* bound: services going down, changes of cards by their
                \* users, and ends of the process

ASSUME SetsAssumption == NoCard \notin Cards /\ Slug \in [Cards -> Projects]
ASSUME NamesAssumption ==
  {"absent", "empty"} \cap Cards = {} /\ "none" \notin Projects \cup Chains
    /\ "deleted" \notin Boards /\ {"planka", "database"} \cap Chains = {}
ASSUME BoundAssumption == MaxEvents \in Nat

VARIABLES
  board,       \* each card's board, or "deleted"
  tag,         \* the project in its description, or "none"
  columns,     \* boards that have the columns
  memory,      \* PlankaSink._cache
  row,         \* planka_card_id in the project's row; "empty"; no row: "absent"
  review,      \* the review a card is in
  up,          \* does the server take requests?
  configured,  \* PLANKA_BOARD_ID
  chain,       \* LLM_CHAIN
  cache,       \* preflight_cache.json: the chain and whether all was well
  services,    \* what would pass a check now: chains, Planka, database
  outages, edits, restarts,
  claims,      \* history: cards that were tagged with or reviewed as a project
  passed,      \* history: chains that passed a check within the last hour
  last         \* history: the latest step, if it moved, commented or started

cardVars    == <<board, tag, claims>>
indexVars   == <<memory, row>>
processVars == <<up, configured, chain, cache, passed, columns>>
boundVars   == <<outages, edits, restarts>>
vars == <<cardVars, indexVars, processVars, boundVars, review, services, last>>

NoReview == [at |-> "idle", project |-> "none", tagged |-> FALSE]
Review == {NoReview} \cup
  [at : {"cache", "stub", "tag", "graph", "move"}, project : Projects,
   tagged : BOOLEAN]
NoCache  == [chain |-> "none", ok |-> TRUE]
Nothing  == [kind |-> "none", project |-> "none", card |-> NoCard]

MayHappen == outages + edits + restarts < MaxEvents

-----------------------------------------------------------------------------
(* PlankaSink.                                                             *)

Works(service) == service \in services

Cached(p) ==
  IF memory[p] # NoCard THEN memory[p]
  ELSE IF Works("database") /\ row[p] \in Cards THEN row[p] ELSE NoCard

\* Fault: the first card of the board is as good as any.
ScanAny(p) ==
  IF Works("planka") THEN {c \in Cards : board[c] = configured} ELSE {}

\* _scan_board_for_card
Scan(p) ==
  IF Works("planka") THEN {c \in Cards : board[c] = configured /\ tag[c] = p}
  ELSE {}

\* Fault: only the row is told.
PersistOnly(p, c) ==
  /\ memory' = memory
  /\ row' = IF Works("database") /\ row[p] # "absent"
            THEN [row EXCEPT ![p] = c] ELSE row

\* cache_card_id: the UPDATE finds nothing to update without a row.
CacheCardId(p, c) ==
  /\ memory' = [memory EXCEPT ![p] = c]
  /\ row' = IF Works("database") /\ row[p] # "absent"
            THEN [row EXCEPT ![p] = c] ELSE row

\* resolve_card_id, with c for its result.
Resolve(p, c) ==
  \/ /\ Cached(p) # NoCard /\ c = Cached(p)
     /\ memory' = [memory EXCEPT ![p] = c] /\ UNCHANGED row
  \/ Cached(p) = NoCard /\ c \in Scan(p) /\ CacheCardId(p, c)
  \/ Cached(p) = NoCard /\ Scan(p) = {} /\ c = NoCard /\ UNCHANGED indexVars

\* A request for card c gets through.
Answers(c) == Works("planka") /\ c \in Cards /\ board[c] # "deleted"

Comment(p) ==
  \E c \in Cards \cup {NoCard} :
    /\ Resolve(p, c)
    /\ last' = [kind |-> "comment", project |-> p,
                card |-> IF Answers(c) THEN c ELSE NoCard]

-----------------------------------------------------------------------------
(* _move_planka_card.                                                      *)

Moved(p, c, b) ==
  last' = [kind |-> "move", project |-> p,
           card |-> IF c \in Cards /\ b \in columns THEN c ELSE NoCard]

\* Faults: a card that is gone is not looked for; and not forgotten.
RescanNever(p) == memory' = [memory EXCEPT ![p] = NoCard] /\ UNCHANGED row
                    /\ Moved(p, NoCard, configured)
RescanKeeps(p) ==
  \/ \E c \in Scan(p) : CacheCardId(p, c) /\ Moved(p, c, configured)
  \/ Scan(p) = {} /\ UNCHANGED indexVars /\ Moved(p, NoCard, configured)

\* The remembered card is gone.
Rescan(p) ==
  \/ \E c \in Scan(p) : CacheCardId(p, c) /\ Moved(p, c, configured)
  \/ /\ Scan(p) = {} /\ Moved(p, NoCard, configured)
     /\ memory' = [memory EXCEPT ![p] = NoCard] /\ UNCHANGED row

Move(p) ==
  \/ \E c \in Cards : Answers(c) /\ Resolve(p, c) /\ Moved(p, c, board[c])
  \/ Works("planka") /\ Cached(p) # NoCard /\ ~Answers(Cached(p)) /\ Rescan(p)
  \/ Works("planka") /\ Resolve(p, NoCard) /\ Moved(p, NoCard, configured)
  \/ /\ ~Works("planka") /\ \E c \in Cards \cup {NoCard} : Resolve(p, c)
     /\ Moved(p, NoCard, configured)
  \/ /\ ~Works("planka") /\ Cached(p) # NoCard  \* an error status
     /\ memory' = [memory EXCEPT ![p] = NoCard] /\ UNCHANGED row
     /\ Moved(p, NoCard, configured)

-----------------------------------------------------------------------------
(* _lifespan.                                                              *)

Required == {chain, "planka", "database"}

\* Fault: columns are for the first board only.
EnsureColumnsNever(b) == columns

\* _ensure_planka_columns; when Planka is down the server starts without.
EnsureColumns(b) == IF Works("planka") THEN columns \cup {b} ELSE columns

\* Fault: a result counts for every chain.
HitAnyChain(ch) == cache.chain # "none"
Hit(ch) == cache.chain = ch

\* Fault: the results are saved before they are enforced.
SavedAlways(ch, ok) == [chain |-> ch, ok |-> ok]
Saved(ch, ok) == IF ok THEN [chain |-> ch, ok |-> TRUE] ELSE cache

\* A write that fails leaves what was there, or nothing that can be read.
Unsaved == MayHappen /\ outages' = outages + 1 /\ cache' \in {cache, NoCache}

PreflightCheck(ch) ==
  LET ok == {ch, "planka", "database"} \subseteq services IN
  IF Hit(ch)
  THEN up' = cache.ok /\ UNCHANGED <<cache, passed, outages>>
  ELSE /\ up' = ok /\ passed' = passed \cup ({ch} \cap services)
       /\ \/ cache' = Saved(ch, ok) /\ UNCHANGED outages
          \/ ok /\ Unsaved

\* The process starts, in the environment its operator gave it.
Start(b, ch) ==
  /\ ~up
  /\ configured' = b /\ chain' = ch /\ columns' = EnsureColumns(b)
  /\ PreflightCheck(ch)
  /\ last' = [Nothing EXCEPT !.kind = "start"]
  /\ UNCHANGED <<cardVars, indexVars, edits, restarts, review, services>>

Stop ==
  /\ up /\ MayHappen /\ restarts' = restarts + 1
  /\ up' = FALSE
  /\ memory' = [p \in Projects |-> NoCard] /\ review' = [c \in Cards |-> NoReview]
  /\ last' = Nothing
  /\ UNCHANGED <<cardVars, row, configured, chain, cache, passed, columns,
                 services, outages, edits>>

\* init_planka_board makes a new board, with the columns.
InitBoard(b) ==
  /\ up /\ Works("planka") /\ \A c \in Cards : board[c] # b
  /\ columns' = columns \cup {b} /\ last' = Nothing
  /\ UNCHANGED <<cardVars, indexVars, up, configured, chain, cache, passed,
                 boundVars, review, services>>

-----------------------------------------------------------------------------
(* _run_spec_review_bg, as far as it is about the card.                    *)

\* Fault: a card without a thread_id has no project.
ProjectOfTag(c) == tag[c]

\* The slug is an id of its own, which cards of one name share.
ProjectOf(c) == IF tag[c] # "none" THEN tag[c] ELSE Slug[c]

At(c, place) == up /\ review[c].at = place
Goto(c, place) == review' = [review EXCEPT ![c].at = place]

Trigger(c) ==
  /\ At(c, "idle") /\ Works("planka") /\ board[c] \in columns
  /\ review' = [review EXCEPT ![c] =
       [at |-> "cache", project |-> ProjectOf(c), tagged |-> tag[c] # "none"]]
  /\ claims' = [claims EXCEPT ![ProjectOf(c)] = @ \cup {c}]
  /\ last' = Nothing
  /\ UNCHANGED <<board, tag, indexVars, processVars, boundVars, services>>

CacheCard(c) ==
  /\ At(c, "cache") /\ Goto(c, "stub")
  /\ CacheCardId(review[c].project, c) /\ last' = Nothing
  /\ UNCHANGED <<cardVars, processVars, boundVars, services>>

\* get_project raises, outside of every try block, and the task is gone.
Unread(c) ==
  /\ At(c, "cache") /\ ~Works("database")
  /\ review' = [review EXCEPT ![c] = NoReview] /\ last' = Nothing
  /\ UNCHANGED <<cardVars, indexVars, processVars, boundVars, services>>

\* The config is replaced; an exception leads to the last move.
Stub(c) ==
  /\ At(c, "stub")
  /\ IF Works("database")
     THEN row' = [row EXCEPT ![review[c].project] = "empty"] /\ Goto(c, "tag")
     ELSE Goto(c, "move") /\ UNCHANGED row
  /\ last' = Nothing
  /\ UNCHANGED <<cardVars, memory, processVars, boundVars, services>>

\* update_card_description, for the card resolve_card_id names.
TagCard(c) ==
  LET p == review[c].project IN
  /\ At(c, "tag") /\ Goto(c, "graph")
  /\ IF review[c].tagged
     THEN UNCHANGED <<cardVars, indexVars>>
     ELSE \E d \in Cards \cup {NoCard} :
            /\ Resolve(p, d)
            /\ IF Answers(d)
               THEN /\ tag' = [tag EXCEPT ![d] = p]
                    /\ claims' = [claims EXCEPT ![p] = @ \cup {d}]
               ELSE UNCHANGED <<tag, claims>>
            /\ UNCHANGED board
  /\ last' = Nothing
  /\ UNCHANGED <<processVars, boundVars, services>>

\* The graph upserts the reviewed project, whose config it replaces, or not.
Graph(c) ==
  /\ At(c, "graph") /\ Goto(c, "move")
  /\ \/ UNCHANGED row
     \/ Works("database") /\ row' = [row EXCEPT ![review[c].project] = "empty"]
  /\ last' = Nothing
  /\ UNCHANGED <<cardVars, memory, processVars, boundVars, services>>

\* The move to Verify or Planning; or at once, when the row says that the
\* project is under review.
LastMove(c) ==
  /\ At(c, "move") \/ (At(c, "cache") /\ row[review[c].project] # "absent")
  /\ Move(review[c].project)
  /\ review' = [review EXCEPT ![c] = NoReview]
  /\ UNCHANGED <<cardVars, processVars, boundVars, services>>

\* The research, and the comments of both.
Serve(p) ==
  /\ up /\ row[p] # "absent" /\ (Move(p) \/ Comment(p))
  /\ UNCHANGED <<cardVars, processVars, boundVars, review, services>>

ServerStep ==
  \/ \E b \in Boards, ch \in Chains : Start(b, ch)
  \/ Stop \/ \E b \in Boards : InitBoard(b)
  \/ \E c \in Cards :
       \/ Trigger(c) \/ CacheCard(c) \/ Unread(c) \/ Stub(c) \/ TagCard(c)
       \/ Graph(c) \/ LastMove(c)
  \/ \E p \in Projects : Serve(p)

-----------------------------------------------------------------------------
(* Users, services and time.                                               *)

Edit ==
  /\ MayHappen /\ edits' = edits + 1 /\ last' = Nothing
  /\ UNCHANGED <<indexVars, processVars, outages, restarts, review, services>>

DeleteCard(c) ==
  /\ Edit /\ board[c] # "deleted"
  /\ board' = [board EXCEPT ![c] = "deleted"] /\ UNCHANGED <<tag, claims>>

TransferCard(c, b) ==
  /\ Edit /\ board[c] \notin {"deleted", b}
  /\ board' = [board EXCEPT ![c] = b] /\ UNCHANGED <<tag, claims>>

Describe(c, p) ==
  /\ Edit /\ board[c] # "deleted" /\ p # tag[c]
  /\ tag' = [tag EXCEPT ![c] = p]
  /\ claims' = [q \in Projects |->
       IF q = p THEN claims[q] \cup {c} ELSE claims[q]]
  /\ UNCHANGED board

User ==
  \E c \in Cards :
    \/ DeleteCard(c) \/ \E b \in Boards : TransferCard(c, b)
    \/ \E p \in Projects \cup {"none"} : Describe(c, p)

\* Chains and the age of their checks matter to a process that starts.
Matters(service) == service \in Chains => ~up

Outage(service) ==
  /\ Matters(service) /\ Works(service) /\ MayHappen /\ outages' = outages + 1
  /\ services' = services \ {service} /\ last' = Nothing
  /\ UNCHANGED <<cardVars, indexVars, processVars, edits, restarts, review>>

Repair(service) ==
  /\ Matters(service) /\ ~Works(service)
  /\ services' = services \cup {service} /\ last' = Nothing
  /\ UNCHANGED <<cardVars, indexVars, processVars, boundVars, review>>

\* A check of the chain becomes an hour old.
Expire(ch) ==
  /\ Matters(ch) /\ ch \in passed /\ passed' = passed \ {ch}
  /\ cache' = IF cache.chain = ch THEN NoCache ELSE cache
  /\ last' = Nothing
  /\ UNCHANGED <<cardVars, indexVars, up, configured, chain, columns,
                 boundVars, review, services>>

World ==
  \/ User
  \/ \E s \in Chains \cup {"planka", "database"} : Outage(s) \/ Repair(s)
  \/ \E ch \in Chains : Expire(ch)

-----------------------------------------------------------------------------
Init ==
  /\ board \in [Cards -> Boards] /\ tag \in [Cards -> Projects \cup {"none"}]
  /\ columns = {} /\ memory = [p \in Projects |-> NoCard]
  /\ row = [p \in Projects |-> "absent"] /\ review = [c \in Cards |-> NoReview]
  /\ up = FALSE /\ configured \in Boards /\ chain \in Chains
  /\ cache = NoCache /\ services = Chains \cup {"planka", "database"}
  /\ outages = 0 /\ edits = 0 /\ restarts = 0
  /\ claims = [p \in Projects |-> {c \in Cards : tag[c] = p}]
  /\ passed = {} /\ last = Nothing

Next == ServerStep \/ World

Spec == Init /\ [][Next]_vars

-----------------------------------------------------------------------------
(* Properties.                                                             *)

\* Every variable keeps to its values; every review knows its project, also
\* that of a card without a thread_id (server.py:545).
TypeOK ==
  /\ board \in [Cards -> Boards \cup {"deleted"}]
  /\ tag \in [Cards -> Projects \cup {"none"}]
  /\ columns \subseteq Boards
  /\ memory \in [Projects -> Cards \cup {NoCard}]
  /\ row \in [Projects -> Cards \cup {"absent", "empty"}]
  /\ review \in [Cards -> Review]
  /\ up \in BOOLEAN /\ configured \in Boards /\ chain \in Chains
  /\ cache \in [chain : Chains \cup {"none"}, ok : BOOLEAN]
  /\ services \subseteq Chains \cup {"planka", "database"}
  /\ outages \in Nat /\ edits \in Nat /\ restarts \in Nat
  /\ claims \in [Projects -> SUBSET Cards] /\ passed \subseteq Chains
  /\ last \in [kind : {"none", "comment", "move", "start"},
               project : Projects \cup {"none"}, card : Cards \cup {NoCard}]

\* Whatever is remembered, forgotten or looked up again: the server moves and
\* comments only on cards that once were their project's, by description or
\* by a review (planka.py:48-76, server.py:926-1004).
ReachesClaimed ==
  last.card # NoCard => last.card \in claims[last.project]

\* As long as Planka and the database were up, a move reaches a card when the
\* configured board has one for the project, be the remembered one deleted
\* meanwhile, the process restarted or the board changed; unless a card of the
\* project was taken to a board that is not configured (server.py:944-996).
MoveReaches ==
  last.kind = "move" /\ outages = 0
    /\ (\E c \in Cards : tag[c] = last.project /\ board[c] = configured)
    /\ (\A c \in claims[last.project] : board[c] \in {configured, "deleted"}) =>
      last.card # NoCard

\* A move that found Planka up leaves no deleted card in the memory, which the
\* comments to come rely on (server.py:951-957).
MoveHeals ==
  last.kind = "move" /\ Works("planka") =>
    memory[last.project] = NoCard \/ board[memory[last.project]] # "deleted"

\* A review leaves the id of its project in the card's description, which is
\* what a later process finds the card by, for the row forgets it (server.py:
\* 337-355).
TaggedByReview ==
  \A c \in Cards :
    review[c].at \in {"graph", "move"} /\ claims[review[c].project] = {c}
      /\ edits = 0 /\ outages = 0 => tag[c] = review[c].project

\* No server starts on the word of a check of another chain, or of one that
\* failed or is more than an hour old (llm_preflight.py:178-192, 241-246).
ChainChecked == last.kind = "start" /\ up => chain \in passed

\* A failed check is not remembered: once everything it needs is well, the
\* server starts (llm_preflight.py:276-278).
StartsWhenWell ==
  last.kind = "start" /\ Required \subseteq services => up
=============================================================================
