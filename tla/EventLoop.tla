----------------------------- MODULE EventLoop -----------------------------
(***************************************************************************)
(* The prover job orchestrator of golem-symbiotic-consensus-mpt            *)
(* (src/golem-symbiotic-consensus-mpt/src/api/event_loop.rs).              *)
(*                                                                         *)
(* One coordinator task owns the job table (job_id, prover_jobs) and runs  *)
(* the tokio::select! loop of EventLoop::run over two channels: the        *)
(* finality detector's output channel and the unbounded job-result         *)
(* channel.  stage_transition_proof spawns one proving task per job; the   *)
(* task reports Ok/Err on the result channel and the coordinator then      *)
(* runs handle_prover_success or handle_prover_failure.  After spawning,   *)
(* the coordinator awaits a send of the job's expected output window on    *)
(* the bounded stage-input channel of the detector.                        *)
(*                                                                         *)
(* The run loop's finality branch (lines 282-284) is empty: it receives an *)
(* event and drops it.  stage_transition_proof is therefore modelled as    *)
(* an operation of the coordinator that its caller may invoke with any     *)
(* window whenever the coordinator is at the select, which covers every    *)
(* caller, including the one spec section 4.2 describes.                  *)
(*                                                                         *)
(* The finality detector and the prover backend are not under src/: the   *)
(* detector's two channel ends and finality_update_job are modelled from   *)
(* the spec (sections 4.2, 5 and 6).                                       *)
(***************************************************************************)
EXTENDS Naturals, Sequences, FiniteSets, Functions, Bags

CONSTANTS
    Windows,    \* ProofInputsWithWindow values the detector can produce
    NoWindow,   \* no stage-input send in progress
    MaxJobs,    \* bound on job_id (number of stage_transition_proof calls)
    MaxEvents,  \* bound on the finality events the detector emits
    OutCap,     \* capacity of the detector's bounded output channel
    StageCap,   \* capacity of the bounded stage-input channel
    InitialSlot,\* the finalized slot get_latest_finality_slot_and_store_hash returns
    OutputSlot  \* window -> its expected_output_slot

ASSUME /\ NoWindow \notin Windows
       /\ MaxJobs \in Nat /\ MaxEvents \in Nat
       /\ OutCap \in Nat \ {0} /\ StageCap \in Nat \ {0}
       /\ InitialSlot \in Nat /\ OutputSlot \in [Windows -> Nat]

VARIABLES
    job_id,          \* EventLoop.job_id, the last job id handed out
    prover_jobs,     \* EventLoop.prover_jobs: job id -> inputs_with_window
    workers,         \* bag of job ids captured by spawned tasks not yet reported
    job_chan,        \* job_tx/job_rx: queued Result<ProverJobOutput, ProverJobError>
    finality_output, \* finality_output_rx: detector events not yet received
    stage_input,     \* finality_stage_input_tx: updates not yet read by the detector
    stage_open,      \* the detector still holds the stage-input receiver
    coord,           \* coordinator: "select", "staging", "exited", "panicked"
    pending,         \* window whose stage-input send is being awaited
    emitted,         \* number of events the detector has emitted
    \* history variables, written but never read by the actions
    staged,          \* staged[j] = window passed to stage_transition_proof for job j
    stage_log,       \* every FinalityChangeDetectorUpdate sent, in order
    received,        \* finality events taken off finality_output by run
    succeeded,       \* job ids handled by handle_prover_success
    failed,          \* job ids handled by handle_prover_failure
    relayed          \* job ids for which a ProofMessage reached downstream

vars == <<job_id, prover_jobs, workers, job_chan, finality_output, stage_input,
          stage_open, coord, pending, emitted, staged, stage_log, received,
          succeeded, failed, relayed>>

JobIds == 1..MaxJobs

(* EventLoop.current_slot, "Current finalized slot head": new() sets it    *)
(* from the consensus proxy and no other code assigns it, so it is a       *)
(* constant of the run; stage_transition_proof copies it into every       *)
(* proving task (line 238).                                               *)
current_slot == InitialSlot

(* A message on the job channel.  ok = FALSE is a ProverJobError; for an   *)
(* Ok result, decodes says whether ProofOutputs::from_bytes and the JSON   *)
(* re-serialisation of the public values succeed.                          *)
JobResult == [job_id: JobIds, ok: BOOLEAN, decodes: BOOLEAN]

(* The job ids carried by results queued on the job channel.              *)
QueuedIds == {job_chan[i].job_id : i \in DOMAIN job_chan}

-----------------------------------------------------------------------------
(* EventLoop::new: job_id = 0, an empty job table, a fresh unbounded job  *)
(* channel, and the detector's channels as it hands them back.             *)
Init ==
    /\ job_id = 0
    /\ prover_jobs = << >>
    /\ workers = EmptyBag
    /\ job_chan = << >>
    /\ finality_output = << >>
    /\ stage_input = << >>
    /\ stage_open = TRUE
    /\ coord = "select"
    /\ pending = NoWindow
    /\ emitted = 0
    /\ staged = << >>
    /\ stage_log = << >>
    /\ received = {}
    /\ succeeded = {}
    /\ failed = {}
    /\ relayed = {}

(* stage_transition_proof, up to the awaited send: take the next job id,  *)
(* insert the job, spawn its proving task (which captures job_id), then    *)
(* suspend on the stage-input send of the expected output window.          *)
StageTransitionProof(w) ==
    /\ coord = "select"
    /\ job_id < MaxJobs
    /\ job_id' = job_id + 1
    /\ prover_jobs' = prover_jobs @@ (job_id + 1 :> w)
    /\ workers' = workers (+) SetToBag({job_id + 1})
    /\ staged' = Append(staged, w)
    /\ coord' = "staging"
    /\ pending' = w
    /\ UNCHANGED <<job_chan, finality_output, stage_input, stage_open, emitted,
                   stage_log, received, succeeded, failed, relayed>>

(* Mutation of StageSend: a try_send that drops the hint when the inbox  *)
(* is full.                                                                *)
StageSendTry ==
    /\ coord = "staging"
    /\ IF stage_open /\ Len(stage_input) < StageCap
       THEN /\ stage_input' = Append(stage_input, pending)
            /\ stage_log' = Append(stage_log, pending)
       ELSE UNCHANGED <<stage_input, stage_log>>
    /\ coord' = "select"
    /\ pending' = NoWindow
    /\ UNCHANGED <<job_id, prover_jobs, workers, job_chan, finality_output,
                   stage_open, emitted, staged, received, succeeded, failed,
                   relayed>>

(* Mutation of StageSend: the send waits on a closed receiver as if it    *)
(* were full.                                                              *)
StageSendWaitsOnClosed ==
    /\ coord = "staging"
    /\ stage_open
    /\ Len(stage_input) < StageCap
    /\ stage_input' = Append(stage_input, pending)
    /\ stage_log' = Append(stage_log, pending)
    /\ coord' = "select"
    /\ pending' = NoWindow
    /\ UNCHANGED <<job_id, prover_jobs, workers, job_chan, finality_output,
                   stage_open, emitted, staged, received, succeeded, failed,
                   relayed>>

(* Mutation of StageSend: the stage-input channel is unbounded.         *)
StageSendUnbounded ==
    /\ coord = "staging"
    /\ \/ /\ stage_open
          /\ stage_input' = Append(stage_input, pending)
          /\ stage_log' = Append(stage_log, pending)
       \/ /\ ~stage_open
          /\ UNCHANGED <<stage_input, stage_log>>
    /\ coord' = "select"
    /\ pending' = NoWindow
    /\ UNCHANGED <<job_id, prover_jobs, workers, job_chan, finality_output,
                   stage_open, emitted, staged, received, succeeded, failed,
                   relayed>>

(* The awaited send of FinalityChangeDetectorUpdate completes: it is      *)
(* queued when there is room, or fails at once (result ignored, `let _`)   *)
(* when the detector has dropped the receiver; stage_transition_proof      *)
(* then returns to the select loop.                                        *)
StageSend ==
    /\ coord = "staging"
    /\ \/ /\ stage_open
          /\ Len(stage_input) < StageCap
          /\ stage_input' = Append(stage_input, pending)
          /\ stage_log' = Append(stage_log, pending)
       \/ /\ ~stage_open
          /\ UNCHANGED <<stage_input, stage_log>>
    /\ coord' = "select"
    /\ pending' = NoWindow
    /\ UNCHANGED <<job_id, prover_jobs, workers, job_chan, finality_output,
                   stage_open, emitted, staged, received, succeeded, failed,
                   relayed>>

(* Mutation of WorkerFinish: the task reports its result twice.         *)
WorkerFinishTwice(j) ==
    /\ BagIn(j, workers)
    /\ \E ok, decodes \in BOOLEAN :
          /\ ok \/ decodes
          /\ job_chan' = Append(job_chan, [job_id |-> j, ok |-> ok, decodes |-> decodes])
    /\ UNCHANGED <<workers, job_id, prover_jobs, finality_output, stage_input,
                   stage_open, coord, pending, emitted, staged, stage_log,
                   received, succeeded, failed, relayed>>

(* The spawned task: finality_update_job(job_id, ...) returns, and the    *)
(* task sends Ok(output) or Err(ProverJobError{job_id, ..}) on job_tx.     *)
(* The output of a successful job carries the job id it was called with.  *)
WorkerFinish(j) ==
    /\ BagIn(j, workers)
    /\ \E ok, decodes \in BOOLEAN :
          /\ ok \/ decodes
          /\ job_chan' = Append(job_chan, [job_id |-> j, ok |-> ok, decodes |-> decodes])
    /\ workers' = workers (-) SetToBag({j})
    /\ UNCHANGED <<job_id, prover_jobs, finality_output, stage_input, stage_open,
                   coord, pending, emitted, staged, stage_log, received,
                   succeeded, failed, relayed>>

(* select! branch 1: an event arrives from the detector and is dropped.   *)
RecvFinalityEvent ==
    /\ coord = "select"
    /\ finality_output # << >>
    /\ received' = received \cup {Head(finality_output)}
    /\ finality_output' = Tail(finality_output)
    /\ UNCHANGED <<job_id, prover_jobs, workers, job_chan, stage_input,
                   stage_open, coord, pending, emitted, staged, stage_log,
                   succeeded, failed, relayed>>

(* handle_prover_success(job_id, proof), and run's exit on its error:     *)
(* the job is looked up with unwrap (a miss panics), removed, then the    *)
(* public values are decoded; a decode error makes run call exit(1).      *)
(* On success the verified slots are built and nothing more is done.      *)
HandleProverSuccess(r) ==
    IF r.job_id \notin DOMAIN prover_jobs
    THEN /\ coord' = "panicked"
         /\ UNCHANGED <<prover_jobs, succeeded>>
    ELSE /\ prover_jobs' = Restrict(prover_jobs, DOMAIN prover_jobs \ {r.job_id})
         /\ coord' = IF r.decodes THEN "select" ELSE "exited"
         /\ succeeded' = IF r.decodes THEN succeeded \cup {r.job_id} ELSE succeeded

(* Mutation of HandleProverFailure: removes self.job_id, the last id     *)
(* handed out, instead of err.job_id.                                      *)
HandleProverFailureRemovesCurrent(r) ==
    IF r.job_id \notin DOMAIN prover_jobs
    THEN /\ coord' = "panicked"
         /\ UNCHANGED <<prover_jobs, failed>>
    ELSE /\ prover_jobs' = Restrict(prover_jobs, DOMAIN prover_jobs \ {job_id})
         /\ failed' = failed \cup {r.job_id}
         /\ UNCHANGED coord

(* handle_prover_failure(err): unwrap lookup, remove, log.                *)
HandleProverFailure(r) ==
    IF r.job_id \notin DOMAIN prover_jobs
    THEN /\ coord' = "panicked"
         /\ UNCHANGED <<prover_jobs, failed>>
    ELSE /\ prover_jobs' = Restrict(prover_jobs, DOMAIN prover_jobs \ {r.job_id})
         /\ failed' = failed \cup {r.job_id}
         /\ UNCHANGED coord

(* select! branch 2: a job result is received and dispatched.             *)
RecvJobResult ==
    /\ coord = "select"
    /\ job_chan # << >>
    /\ job_chan' = Tail(job_chan)
    /\ IF Head(job_chan).ok
       THEN HandleProverSuccess(Head(job_chan)) /\ UNCHANGED failed
       ELSE HandleProverFailure(Head(job_chan)) /\ UNCHANGED succeeded
    /\ UNCHANGED <<job_id, workers, finality_output, stage_input, stage_open,
                   pending, emitted, staged, stage_log, received, relayed>>

-----------------------------------------------------------------------------
(* The finality change detector's side of the channels (spec section 6).  *)

(* It emits a window to prove; the bounded send waits for room.           *)
DetectorEmit(w) ==
    /\ emitted < MaxEvents
    /\ Len(finality_output) < OutCap
    /\ finality_output' = Append(finality_output, w)
    /\ emitted' = emitted + 1
    /\ UNCHANGED <<job_id, prover_jobs, workers, job_chan, stage_input,
                   stage_open, coord, pending, staged, stage_log, received,
                   succeeded, failed, relayed>>

(* It reads one pipelining hint from its stage-input inbox.               *)
DetectorReadStage ==
    /\ stage_open
    /\ stage_input # << >>
    /\ stage_input' = Tail(stage_input)
    /\ UNCHANGED <<job_id, prover_jobs, workers, job_chan, finality_output,
                   stage_open, coord, pending, emitted, staged, stage_log,
                   received, succeeded, failed, relayed>>

(* It drops its stage-input receiver; queued hints are discarded.         *)
DetectorCloseStage ==
    /\ stage_open
    /\ stage_open' = FALSE
    /\ stage_input' = << >>
    /\ UNCHANGED <<job_id, prover_jobs, workers, job_chan, finality_output,
                   coord, pending, emitted, staged, stage_log, received,
                   succeeded, failed, relayed>>

-----------------------------------------------------------------------------
(* The process has ended (exit(1) or a panic), or every bounded input is  *)
(* used up and the coordinator waits in select! for ever.                  *)
Halted ==
    \/ coord \in {"exited", "panicked"}
    \/ /\ coord = "select"
       /\ job_id = MaxJobs /\ emitted = MaxEvents
       /\ workers = EmptyBag /\ job_chan = << >> /\ finality_output = << >>
       /\ (stage_open => stage_input = << >>)

Terminated == Halted /\ UNCHANGED vars

(* Only the coordinator's and the detector's steps stop when the process   *)
(* has ended; a proving task still running is killed with the process.    *)
Alive == coord \in {"select", "staging"}

Next ==
    \/ Alive /\ \E w \in Windows : StageTransitionProof(w)
    \/ Alive /\ StageSend
    \/ Alive /\ \E j \in BagToSet(workers) : WorkerFinish(j)
    \/ Alive /\ RecvFinalityEvent
    \/ Alive /\ RecvJobResult
    \/ Alive /\ \E w \in Windows : DetectorEmit(w)
    \/ Alive /\ DetectorReadStage
    \/ Alive /\ DetectorCloseStage
    \/ Terminated

(* tokio::select! polls its ready branches in random order, so a ready    *)
(* channel is not starved; the awaited send completes once the detector   *)
(* reads its inbox, and the detector keeps reading it (spec section 4.2). *)
Fairness ==
    /\ WF_vars(Alive /\ RecvJobResult)
    /\ WF_vars(Alive /\ RecvFinalityEvent)
    /\ WF_vars(Alive /\ StageSend)
    /\ WF_vars(Alive /\ DetectorReadStage)

Spec == Init /\ [][Next]_vars /\ Fairness

-----------------------------------------------------------------------------
TypeOK ==
    /\ job_id \in 0..MaxJobs
    /\ DOMAIN prover_jobs \subseteq JobIds
    /\ \A j \in DOMAIN prover_jobs : prover_jobs[j] \in Windows
    /\ BagToSet(workers) \subseteq JobIds
    /\ job_chan \in Seq(JobResult)
    /\ finality_output \in Seq(Windows) /\ Len(finality_output) <= OutCap
    /\ stage_input \in Seq(Windows) /\ Len(stage_input) <= StageCap
    /\ stage_open \in BOOLEAN
    /\ coord \in {"select", "staging", "exited", "panicked"}
    /\ pending \in Windows \cup {NoWindow}
    /\ emitted \in 0..MaxEvents
    /\ staged \in Seq(Windows)
    /\ stage_log \in Seq(Windows)
    /\ received \subseteq Windows
    /\ succeeded \subseteq JobIds /\ failed \subseteq JobIds
    /\ relayed \subseteq JobIds


-----------------------------------------------------------------------------
(* Job table consistency (spec section 3, "at most one ProverJob per job  *)
(* id"; section 4.2, every result matches one staged job): while the       *)
(* process runs, the live entries of prover_jobs are exactly the jobs      *)
(* whose proving task is still running or whose result is queued, each     *)
(* such job has exactly one outcome to come, and every entry still holds   *)
(* the window staged under its id (no later job overwrote it).             *)
JobTableConsistent ==
    Alive =>
      /\ DOMAIN prover_jobs = BagToSet(workers) \cup QueuedIds
      /\ \A j \in BagToSet(workers) : CopiesIn(j, workers) = 1 /\ j \notin QueuedIds
      /\ \A i, k \in DOMAIN job_chan : i # k => job_chan[i].job_id # job_chan[k].job_id
      /\ \A j \in DOMAIN prover_jobs : j <= Len(staged) /\ prover_jobs[j] = staged[j]

(* Pipelining (spec section 8): whenever stage_transition_proof has       *)
(* returned and the detector still listens, exactly one                    *)
(* FinalityChangeDetectorUpdate has been sent per staged job, in staging   *)
(* order, each naming that job's expected output window.                   *)
PipeliningHint ==
    (coord = "select" /\ stage_open) => stage_log = staged

(* Every job whose result reaches the result channel is eventually        *)
(* removed from the job table, unless the process has ended: the run loop *)
(* is never wedged, not even while stage_transition_proof awaits the       *)
(* stage-input send.                                                       *)
ResultsHandled ==
    \A j \in JobIds : (j \in QueuedIds) ~> (j \notin DOMAIN prover_jobs \/ ~Alive)

(* Refinement mapping onto JobLifecycle: a job is staged while it is in   *)
(* the job table, succeeded or failed once its handler ran, and aborted    *)
(* when it left the table any other way (the exit(1) after a decode        *)
(* error); the process has halted once the coordinator no longer runs.     *)
JobStatus ==
    [j \in 1..job_id |->
        CASE j \in succeeded            -> "succeeded"
          [] j \in failed               -> "failed"
          [] j \in DOMAIN prover_jobs   -> "staged"
          [] OTHER                      -> "aborted"]

Lifecycle == INSTANCE JobLifecycle WITH issued <- job_id, status <- JobStatus,
                                        halted <- ~Alive

(* The orchestrator implements JobLifecycle: ids are issued in order, each *)
(* job ends exactly once, and the run loop never stops but through the    *)
(* fatal decode error of a job's output (no unwrap panic, no job dropped   *)
(* from the table without its handler running).                           *)
JobLifecycleSpec == Lifecycle!Spec

(* Spec section 4.2: on a finality-output event the run loop derives the  *)
(* proof inputs and calls stage_transition_proof, so every window it has   *)
(* received has been staged as a job.                                      *)
FinalityEventsStaged == received \subseteq Range(staged)

(* Spec section 4.2, success handler step 4: every job handled as a       *)
(* success has its ProofMessage emitted to the downstream relay.          *)
ProofMessagesRelayed == succeeded \subseteq relayed

(* The doc comment of EventLoop.current_slot calls it the current         *)
(* finalized slot head, and spec section 6 hands it to the prover with    *)
(* each job: it is never behind the output slot of a proof the loop has   *)
(* handled as a success (handle_prover_success decodes output_slot and     *)
(* drops it).                                                              *)
CurrentSlotIsHead ==
    \A j \in succeeded : OutputSlot[staged[j]] <= current_slot

=============================================================================
