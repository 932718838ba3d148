---------------------------- MODULE MCAgentWorkflow ----------------------------
\* Instance for TLC: no breakpoints, or one before the first gate.
EXTENDS AgentWorkflow, TLC

MCBreakpoints == {{}, {MarketAnalysis}}
Symmetry == Permutations(Requests)
=============================================================================
