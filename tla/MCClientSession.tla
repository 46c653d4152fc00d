--------------------------- MODULE MCClientSession ---------------------------
(* Model checking of ClientSession: two faults stand for the five, which    *)
(* client and library treat alike.                                          *)
EXTENDS ClientSession

SomeFaults == {"CONNECTION_ERROR", "ACTION_NOT_SUPPORTED"}
================================================================================
