------------------------- MODULE MCTranscriptionMux -------------------------
(***************************************************************************)
(* Instances of TranscriptionMux for TLC.                                   *)
(***************************************************************************)
EXTENDS TranscriptionMux

\* The wake activation and the fault fall into different behaviours.
Apart == wake' # "closed" => faults' = 0

Lengths == ("a" :> 2) @@ ("b" :> 2)
Speakers == ("a" :> "ann") @@ ("b" :> "bob")
=============================================================================
