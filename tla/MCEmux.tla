------------------------------- MODULE MCEmux -------------------------------
(* A small instance of the multiplexer for TLC. *)
EXTENDS Emux, TLC

\* A frame for the application between two for the gateway, with a length of two
\* bytes.
PortOf   == 1 :> "hal" @@ 2 :> "app" @@ 3 :> "hal"
Prefixes == 1 :> 4 @@ 2 :> 5 @@ 3 :> 4
Lengths  == 1 :> 2 @@ 2 :> 2 @@ 3 :> 1
\* The second data byte of the first frame.
Like     == {[frame |-> 1, pos |-> 6]}
Use(ports, w, d, e, a) ==
  [ports |-> ports, wanted |-> w, damaged |-> d, escapes |-> e, again |-> a]

\* Both users on a line without faults; one user on a line with faults, which the
\* parser answers in the same way for every port.
LineUses == {Use({"hal", "app"}, {2}, 0, 0, 0), Use({"hal"}, {}, 0, 1, 1), Use({"app"}, {1, 2}, 1, 1, 0)}

=============================================================================
