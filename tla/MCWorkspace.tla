----------------------------- MODULE MCWorkspace -----------------------------
(* Model values for Workspace.                                             *)
EXTENDS Workspace, TLC

CONSTANTS u1, u2, u3, c1, c2

WorkspaceSymmetry == Permutations({u1, u2, u3}) \union Permutations({c1, c2})
=============================================================================
