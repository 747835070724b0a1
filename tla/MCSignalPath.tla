----------------------------- MODULE MCSignalPath -----------------------------
(* Constants of SignalPath a cfg cannot write. *)
EXTENDS SignalPath

MCTimeframes == <<2, 4>>
=============================================================================
