-------------------------- MODULE MCTranscription --------------------------
(* Transcription for TLC.                                                   *)
EXTENDS Transcription, TLC

CONSTANTS x1, x2
=============================================================================
