CONSTANTS
  c = c
  d = d
  here = here
  there = there
  x = x
  y = y
  Cards <- MCCards
  Projects <- MCProjects
  Boards <- MCBoards
  Chains <- MCChains
  Slug <- MCSlug
  NoCard = NoCard
  MaxEvents = 2
SPECIFICATION Spec
SYMMETRY Symmetry
INVARIANTS
  TypeOK
  ReachesClaimed
  MoveReaches
  MoveHeals
  TaggedByReview
  ChainChecked
  StartsWhenWell
CHECK_DEADLOCK FALSE
