------------------------------ MODULE MCReminders ------------------------------
(* Instances of Reminders for TLC. *)
EXTENDS Reminders, TLC

MCReminder == 1..2
===============================================================================
