---------------------------- MODULE MCAutoApprove ----------------------------
EXTENDS AutoApprove, TLC
CONSTANTS m1, m2, x1, p
MCPairOf == [a \in ManifestAsks |-> p]
==============================================================================
