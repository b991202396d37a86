---------------------------- MODULE MCPullVerifier ----------------------------
EXTENDS PullVerifierRefinement, TLC

CONSTANTS c1, c2, p1, p2
=============================================================================
