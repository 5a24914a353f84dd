------------------------------ MODULE MCRecorder ------------------------------
(* The directories are numbers: None is 0.                                     *)
EXTENDS Recorder
TwoDirs == {1, 2}
===============================================================================
