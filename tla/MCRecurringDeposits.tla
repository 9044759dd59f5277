------------------------ MODULE MCRecurringDeposits -------------------------
(* Instances of RecurringDeposits for TLC: the hourly ticker of the worker *)
(* and the nightly CronJob run the same batch.                             *)
EXTENDS RecurringDeposits

CONSTANTS ticker, cronjob

MCRunners == {ticker, cronjob}

(* Periods of one and two weeks, and a frequency the schema refuses; a     *)
(* month differs from them only in its length.                             *)
MCFrequencies == {"one_time", "weekly", "biweekly"}
=============================================================================
