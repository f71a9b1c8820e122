------------------------------ MODULE MCVoiceTalk ------------------------------
(***************************************************************************)
(* VoiceTalk with two talks and two devices.  The samples lie at the ends of *)
(* the range and next to zero.                                              *)
(***************************************************************************)
EXTENDS VoiceTalk

FewSamples == {-32768, -1, 2175}
OneSample == {0}
=============================================================================
