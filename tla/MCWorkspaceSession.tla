------------------------- MODULE MCWorkspaceSession -------------------------
(* Small instances of module WorkspaceSession for TLC.                     *)
EXTENDS WorkspaceSession, TLC

CONSTANTS api, w1, w2

\* Two wrappers of one app: a restart, or two tasks in one directory.
MCAppOf == (w1 :> api) @@ (w2 :> api)
=============================================================================
