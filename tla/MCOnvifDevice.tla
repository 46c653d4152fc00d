----------------------------- MODULE MCOnvifDevice -----------------------------
(* Model checking of OnvifDevice: two threads that make every call, one of  *)
(* which also calls getSystemDateTime.                                      *)
EXTENDS OnvifDevice
================================================================================
