---------------------------- MODULE MCReporting ----------------------------
(* One report task and one finding record per run are enough: the races are  *)
(* between the report's queries and the audits that commit meanwhile.        *)
EXTENDS Reporting
=============================================================================
