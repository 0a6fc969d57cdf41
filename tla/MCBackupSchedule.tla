------------------------- MODULE MCBackupSchedule -------------------------
(* Small instances of BackupSchedule for TLC.                              *)
EXTENDS BackupSchedule, TLC

CONSTANTS daily, shop, config, w1, w2

MCName     == [s \in Schedules |-> CASE s = config -> 0 [] s = daily -> 1 [] OTHER -> 2]
MCWeekDay  == [s \in Weekly |-> Week - 1]
MCMonthDay == [s \in Monthly |-> 1]
=============================================================================
