---------------------------- MODULE MCCameraClock ----------------------------
(* Model checking of CameraClock: clocks that agree, that are ahead or      *)
(* behind, and a camera whose clock starts at or before the epoch.          *)
EXTENDS CameraClock

SmallSkews == {-7, -6, -5, 0, 3, 20}
================================================================================
