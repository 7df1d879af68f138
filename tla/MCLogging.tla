----------------------------- MODULE MCLogging ------------------------------
(* Finite instances of Logging for TLC. *)
EXTENDS Logging

Config(sinks, rotate) == [sinks |-> sinks, rotate |-> rotate]

\* the console, with or without the file, or nothing at all
AnyConfig == {Config({"console"}, TRUE), Config({"console", "file"}, TRUE), Config({}, FALSE)}
\* the log file alone
FileOnly    == {Config({"file"}, TRUE)}
=============================================================================
