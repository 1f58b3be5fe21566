---------------------------- MODULE MCRtlMeasure ----------------------------
(* A pulse of two periods, callbacks shorter and longer than the pulse, and *)
(* one that is too long for the input buffer.                              *)
EXTENDS RtlMeasure

MCOutputSizes == {2, 3}
MCInputSizes  == {2, 5, 6}
MCDelays      == {0, 5}
MCLeads       == {0, 1}
=============================================================================
