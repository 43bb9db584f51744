--------------------------- MODULE MCLightController ---------------------------
(* A small instance of LightController for TLC.                                   *)
EXTENDS LightController
================================================================================
