---------------------------- MODULE MCController ----------------------------
(* Model checking of Controller: Controller.cfg. *)
EXTENDS Controller
=============================================================================
