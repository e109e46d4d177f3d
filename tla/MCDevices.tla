----------------------------- MODULE MCDevices -----------------------------
(***************************************************************************)
(* Devices on a small screen, with movements in both directions.           *)
(***************************************************************************)
EXTENDS Devices

\* Right and up, right and down, left and up.
MovesDef == {<<8, 1, 2>>, <<40, 2, 255>>, <<24, 254, 3>>}
=============================================================================
