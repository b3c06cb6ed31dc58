------------------------- MODULE MC_WorkspaceSettings -------------------------
EXTENDS WorkspaceSettings

CONSTANTS w1, w2, w3, w4

MCWorkspace == {w1, w2, w3, w4}

=============================================================================
