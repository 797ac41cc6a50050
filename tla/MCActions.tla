----------------------------- MODULE MCActions -----------------------------
(* Small instances of Actions: two requests.                *)
EXTENDS Actions

CONSTANTS q1, q2
=============================================================================
