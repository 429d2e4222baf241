----------------------------- MODULE MCCronJobs ------------------------------
(* The program's start for TLC: the migrations upgrade the store (the          *)
(* assumptions of StoreUpgrade and Migrations are evaluated), then the         *)
(* scheduled workflows get their cron jobs.  CronJobs goes on from there: two  *)
(* requests may save the same workflow.                                        *)
EXTENDS CronJobs, StoreUpgrade

CONSTANTS w1, w2, q1, q2, daily, hourly, broken
==============================================================================
