--------------------------------- MODULE MCJobs ---------------------------------
(* Three jobs, one of which (drives) may hang for ever. *)
EXTENDS Jobs
CONSTANTS dirScan, logs, drives
MCKey == {dirScan, logs, drives}
MCBounded == {dirScan, logs}
=================================================================================
