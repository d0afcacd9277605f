-------------------------- MODULE MCSpeakerTimers --------------------------
(* SpeakerTimers with small durations, the idle close at its least value.    *)
EXTENDS SpeakerTimers

ASSUME DurationsFit == TimersFit
=============================================================================
