----------------------------- MODULE MCTokenTools -----------------------------
(***************************************************************************)
(* A small instance of Origin Token and its tools for TLC.                 *)
(***************************************************************************)
EXTENDS TokenTools

CONSTANTS admin, shop, safe, ogn
=============================================================================
