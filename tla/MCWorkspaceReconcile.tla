------------------------- MODULE MCWorkspaceReconcile -------------------------
(* Small instances of WorkspaceReconcile.                                  *)
EXTENDS WorkspaceReconcile
===============================================================================
