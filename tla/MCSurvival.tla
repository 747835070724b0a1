----------------------------- MODULE MCSurvival -----------------------------
(* An instance of the survival control for TLC. *)
EXTENDS SurvivalControl

\* One unit lost or won: at the initial equity the loss reaches the death
\* line, one unit above it does not.
MCSwings == {-1, 1}
=============================================================================
