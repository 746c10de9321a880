----------------------------- MODULE MCCameraTest -----------------------------
(* Instances of CameraTest.                                                *)
EXTENDS CameraTest
===============================================================================
