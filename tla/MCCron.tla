-------------------------------- MODULE MCCron --------------------------------
(* Cron, with a no-skip job, a rare job that may be skipped, and crontabs *)
(* that name both, or have a line in between that does not parse.        *)
EXTENDS Cron

CONSTANTS a, b

MCPeriod == [j \in AllJobs |-> IF j = Loader THEN 2 ELSE IF j = a THEN 1 ELSE 6]
MCPhase == [j \in AllJobs |-> IF j = a THEN 0 ELSE 1]
MCTexts == {<<b, a>>, <<a, Bad, b>>}
=============================================================================
