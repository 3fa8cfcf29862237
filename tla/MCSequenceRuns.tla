--------------------------- MODULE MCSequenceRuns ---------------------------
(* A journey of a message, a condition and a task, for TLC.                 *)
EXTENDS SequenceRuns

Journey == <<"send", "gate", "act">>
=============================================================================
