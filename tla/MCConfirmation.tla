--------------------------- MODULE MCConfirmation ---------------------------
(***************************************************************************)
(* Instances of Confirmation for TLC.                                       *)
(***************************************************************************)
EXTENDS Confirmation, TLC

\* An approval and a cancellation by the requester.
Contested == ("yes" :> "approve") @@ ("no" :> "cancel")

=============================================================================
