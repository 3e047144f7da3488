----------------------------- MODULE MCAgentCalls -----------------------------
(* An instance of AgentCalls for TLC: fewer workers than tasks.              *)
EXTENDS AgentCalls
CONSTANTS a, b, r
MCResearches == {a, b}
MCReviews == {r}
MCNodeOps == {"plan", "analyze", "revise"}
=============================================================================
