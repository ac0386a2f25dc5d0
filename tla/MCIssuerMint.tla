----------------------------- MODULE MCIssuerMint -----------------------------
(* Small instances of IssuerMint. *)
EXTENDS IssuerMint
===============================================================================
