------------------------------ MODULE MCCanvas ------------------------------
(* Model checking of Canvas: Canvas.cfg. *)
EXTENDS Canvas
=============================================================================
