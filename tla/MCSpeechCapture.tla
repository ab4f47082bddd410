-------------------------- MODULE MCSpeechCapture --------------------------
(***************************************************************************)
(* The instance of SpeechCapture that TLC checks; the constants' values are  *)
(* in speech.cfg.                                                           *)
(***************************************************************************)
EXTENDS SpeechCapture
=============================================================================
