------------------------------ MODULE ControllerMC ------------------------------
(* The Pi comes and goes four times; two attempts for each change.             *)
EXTENDS Controller
=================================================================================
