------------------------------ MODULE MCFrames ------------------------------
(* Instances of Frames for TLC: frames of one beat, which the receive engine *)
(* parses, among longer ones, which the multiplexer must not break up.       *)
EXTENDS Frames

MCSsrFrames == <<1, 1, 1, 1, 2>>
MCHostFrames == <<2, 1>>
=============================================================================
