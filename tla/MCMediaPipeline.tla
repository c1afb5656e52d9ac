-------------------------- MODULE MCMediaPipeline --------------------------
(* Two emulators, one after the other or overlapping: the first announces
   RGB565, the second draws libretro's default 0RGB1555, may announce it or
   not, pads its rows and reports a higher sample rate.  Durations are those of a chunk,
   in units of 1/96 of the time of one sample at rate 1; a chunk lasts more than
   one unit, as its nanoseconds do. *)
EXTENDS MediaPipeline

MCRawFormat == <<2, 0>>
MCPitch == <<2, 4>>
MCRateOf == <<24, 48>>
MCDuration == [rate \in {0, 24, 48} |-> IF rate = 24 THEN 4 ELSE 2]
=============================================================================
