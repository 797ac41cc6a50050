----------------------------- MODULE MCServices -----------------------------
(* Small instances of Services.                                            *)
EXTENDS Services

CONSTANTS t1, k1, k2, v1

TwoParts == <<"one", "two">>
=============================================================================
