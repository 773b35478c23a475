------------------------------ MODULE MCMessaging ------------------------------
(***************************************************************************)
(* A small instance of the messaging resource for TLC.                     *)
(***************************************************************************)
EXTENDS Messaging

CONSTANTS a1, b1

MCCaller == [c \in Call |-> IF c = b1 THEN Bob ELSE Alice]
=============================================================================
