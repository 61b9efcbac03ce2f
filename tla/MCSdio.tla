------------------------------- MODULE MCSdio -------------------------------
(* The SDIO bus on an instance small enough for TLC.                         *)
EXTENDS Sdio
=============================================================================
