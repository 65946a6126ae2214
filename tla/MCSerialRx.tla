----------------------------- MODULE MCSerialRx -----------------------------
(* A small instance of the UART reception for TLC. *)
EXTENDS SerialRx, TLC

\* A frame after the damaged ones, and one without data among them.
FourFrames == 1 :> 1 @@ 2 :> 0 @@ 3 :> 2 @@ 4 :> 1

=============================================================================
