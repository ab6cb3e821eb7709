---------------------------- MODULE JobLifecycle ----------------------------
(***************************************************************************)
(* What the prover job orchestrator promises about its jobs (spec sections *)
(* 3 and 4.2): job ids are issued 1, 2, ... in order and never reused;     *)
(* every job goes from Staged to exactly one terminal outcome, Succeeded   *)
(* or Failed; the only way to stop is a fatal decode error on a successful *)
(* job's output, which aborts that job and ends the process.               *)
(***************************************************************************)
EXTENDS Naturals

CONSTANT MaxJobs

VARIABLES
    issued,   \* the number of job ids handed out
    status,   \* status[j] for j \in 1..issued
    halted    \* the process has ended

vars == <<issued, status, halted>>

Status == {"staged", "succeeded", "failed", "aborted"}

Init ==
    /\ issued = 0
    /\ status = [j \in {} |-> "staged"]
    /\ halted = FALSE

Stage ==
    /\ ~halted
    /\ issued < MaxJobs
    /\ issued' = issued + 1
    /\ status' = [j \in 1..issued + 1 |-> IF j <= issued THEN status[j] ELSE "staged"]
    /\ UNCHANGED halted

Finish(j, outcome) ==
    /\ ~halted
    /\ status[j] = "staged"
    /\ status' = [status EXCEPT ![j] = outcome]
    /\ UNCHANGED <<issued, halted>>

Abort(j) ==
    /\ ~halted
    /\ status[j] = "staged"
    /\ status' = [status EXCEPT ![j] = "aborted"]
    /\ halted' = TRUE
    /\ UNCHANGED issued

Next ==
    \/ Stage
    \/ \E j \in 1..issued, outcome \in {"succeeded", "failed"} : Finish(j, outcome)
    \/ \E j \in 1..issued : Abort(j)

Spec == Init /\ [][Next]_vars
=============================================================================
