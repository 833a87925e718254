------------------------------ MODULE MCServer ------------------------------
(* Two processes that start together and three requests, of which two may    *)
(* hold a session of one process.                                            *)
EXTENDS Server

CONSTANTS w1, w2, r1, r2, r3
=============================================================================
