--------------------------- MODULE MCReminderBatch ---------------------------
(* Two requests, two runs that overlap in any order, one reminder in the schedule.  *)
EXTENDS ReminderBatch

ScheduleDef == <<1>>
=============================================================================
