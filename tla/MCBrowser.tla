------------------------------ MODULE MCBrowser ------------------------------
(***************************************************************************)
(* The small instance of Browser that TLC checks.                          *)
(***************************************************************************)
EXTENDS Browser
=============================================================================
