-------------------------- MODULE MCWorkerSchedule --------------------------
(* Small instances of WorkerSchedule: two workers share the job table.      *)
EXTENDS WorkerSchedule, TLC

CONSTANTS w1, w2, p1, p2

=============================================================================
