----------------------------- MODULE MCProcess -----------------------------
(* A small instance of Process for TLC: three connections whose requests   *)
(* need an invoice, and one whose requests do not.                         *)
EXTENDS Process

CONSTANTS b1, b2, b3, h
=============================================================================
