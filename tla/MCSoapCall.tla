------------------------------- MODULE MCSoapCall -------------------------------
(* Model checking of SoapCall: a device whose services may be announced    *)
(* under another host or another port than its own.                        *)
EXTENDS SoapCall

MCMaster == [host |-> "h1", port |-> "p1"]
================================================================================
