----------------------------- MODULE MCClientV1 -----------------------------
(* Small instances of ClientV1.                                            *)
EXTENDS ClientV1

CONSTANTS r1
=============================================================================
