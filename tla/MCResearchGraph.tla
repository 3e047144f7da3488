--------------------------- MODULE MCResearchGraph ---------------------------
(* Instances of ResearchGraph for TLC.                                       *)
EXTENDS ResearchGraph
\* Every plugin of projects/.
MCPlugins == AllPlugins
\* A plugin whose plans an operator approves.
MCHitlPlugins == {"demo"}
=============================================================================
