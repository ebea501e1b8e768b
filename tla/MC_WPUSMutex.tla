---------------------------- MODULE MC_WPUSMutex ----------------------------
(* Four threads, for TLC. *)
EXTENDS WPUSMutex
=============================================================================
