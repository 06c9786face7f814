----------------------------- MODULE MCH264Encoder -----------------------------
(* The encoder wrapper with two threads that call it, and the conversion of the frames it
   publishes, a function that TLC evaluates once, for the bounds it is given. *)
EXTENDS H264Encoder, AnnexB

ASSUME ConversionAssumption == WholeUnitsConverted
=============================================================================
