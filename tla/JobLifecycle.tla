---------------------------- MODULE JobLifecycle ----------------------------
(***************************************************************************)
(* The status of one job: the row Job of the tenant's database, written by *)
(* the route that launches it, by the webhook that receives the worker's   *)
(* events, by requests to cancel it and by the sweep of stale jobs, each   *)
(* of them by id and on its own.  The worker runs the workflow from a      *)
(* Redis queue (RQ), reports by webhook, and reads the status back to      *)
(* learn that it has been cancelled.                                       *)
(*                                                                         *)
(* Jobs share no state, so one is enough.  Left out: progress, steps and   *)
(* logs of the job and the status of its command, which are shown and      *)
(* never read; what an event says of leads and drafts.  There is no clock: *)
(* the worker sends no heartbeat and the caller of the sweep chooses the   *)
(* age, so that a pending or running job may be stale at any time.         *)
(***************************************************************************)
EXTENDS Naturals, FiniteSets

CONSTANTS
  Canceller,    \* requests to cancel the job: its route, or a new chat command
  Sweeper,      \* requests to reconcile stale jobs
  MaxAttempts,  \* posts of one event by _notify_webhook: 4 in the code
  MaxRetries,   \* further runs RQ allows a failed workflow: 3, or 2 for /run
  MaxFaults     \* bound: lost or late posts, failed reads, killed workers

ASSUME AttemptsAssumption == MaxAttempts \in Nat \ {0}
ASSUME RetriesAssumption == MaxRetries \in Nat
ASSUME FaultsAssumption == MaxFaults \in Nat

VARIABLES
  status,    \* Job.status; "none" before the row exists
  launch,    \* the request that creates the job and calls the worker
  run,       \* where the worker is, next, once it has reported `sending`
  retries,   \* runs of the workflow begun after a failure
  work,      \* how the present run's work ended: in full, or cut by a cancellation
  sending,   \* the event _notify_webhook is reporting, "nothing" if none
  attempt,   \* how often it has been posted
  handlers,  \* the executions of the webhook in progress
  canceller, \* the requests to cancel
  sweeper,   \* the requests to sweep
  asked,     \* history: a request to cancel found the job unfinished
  faults     \* history: how many faults there have been

vars == <<status, launch, run, retries, work, sending, attempt, handlers,
          canceller, sweeper, asked, faults>>
workerVars == <<run, retries, work, sending, attempt>>

Final == {"completed", "failed", "cancelled"}
CancelStatus == {"cancellation_requested", "cancelled"}
Status == {"none", "pending", "running", "cancellation_requested"} \cup Final

(* "unscoped_failed" is the job_failed of the workflow's except block, which *)
(* is sent without the workspace_id that the webhook insists on.             *)
Event == {"job_started", "job_completed", "job_cancelled", "job_failed", "unscoped_failed"}

(* The worker waits for the handler `now`; those the network made it give up *)
(* on carry the number of the fault.                                         *)
now == 0
Handler == [type : Event, id : 0 .. MaxFaults]
Awaited == {h \in handlers : h.id = now}

Init ==
  /\ status = "none" /\ launch = "new" /\ run = "none"
  /\ retries = 0 /\ work = "none"
  /\ sending = "nothing" /\ attempt = 0 /\ handlers = {}
  /\ canceller = [c \in Canceller |-> "idle"]
  /\ sweeper = [s \in Sweeper |-> "idle"]
  /\ asked = FALSE /\ faults = 0

-----------------------------------------------------------------------------
(* Launching *)

CreateJob ==
  /\ launch = "new"
  /\ status' = "pending" /\ launch' = "created"
  /\ UNCHANGED <<workerVars, handlers, canceller, sweeper, asked, faults>>

(* The worker's API puts the workflow in RQ and answers.  An error may hide   *)
(* that it did; the routes then fail the job, a Telegram command leaves it.   *)
StartWorkerJob ==
  /\ launch = "created"
  /\ \/ run' = "queued" /\ launch' = "done"
     \/ run' \in {"none", "queued"} /\ launch' \in {"refused", "done"}
  /\ UNCHANGED <<status, retries, work, sending, attempt, handlers, canceller, sweeper,
                 asked, faults>>

LaunchFailed ==
  /\ launch = "refused"
  /\ status' = "failed" /\ launch' = "failed"
  /\ UNCHANGED <<workerVars, handlers, canceller, sweeper, asked, faults>>

-----------------------------------------------------------------------------
(* Cancelling: requestCancellation reads the row, then writes it by id *)

CancelRead(c) ==
  /\ canceller[c] = "idle" /\ status # "none"
  /\ IF status \in Final
       THEN canceller' = [canceller EXCEPT ![c] = "done"] /\ asked' = asked
       ELSE canceller' = [canceller EXCEPT ![c] = "write"] /\ asked' = TRUE
  /\ UNCHANGED <<status, launch, workerVars, handlers, sweeper, faults>>

CancelWrite(c) ==
  /\ canceller[c] = "write"
  /\ canceller' = [canceller EXCEPT ![c] = "done"]
  /\ status' = "cancellation_requested"
  /\ UNCHANGED <<launch, workerVars, handlers, sweeper, asked, faults>>

(* Sweeping: failStaleJobs lists the stale jobs, then fails each of them by id *)

SweepList(s) ==
  /\ sweeper[s] = "idle" /\ status \in {"pending", "running"}
  /\ sweeper' = [sweeper EXCEPT ![s] = "write"]
  /\ UNCHANGED <<status, launch, workerVars, handlers, canceller, asked, faults>>

SweepWrite(s) ==
  /\ sweeper[s] = "write"
  /\ sweeper' = [sweeper EXCEPT ![s] = "wrote"]
  /\ status' = "failed"
  /\ UNCHANGED <<launch, workerVars, handlers, canceller, asked, faults>>

-----------------------------------------------------------------------------
(* Reporting: _notify_webhook and the webhook *)

Send(e) == sending' = e /\ attempt' = 0
KeepQuiet == UNCHANGED <<sending, attempt>>

Post_uncounted ==
  /\ sending # "nothing" /\ Awaited = {}
  /\ handlers' = handlers \cup {[type |-> sending, id |-> now]}
  /\ UNCHANGED <<status, launch, workerVars, canceller, sweeper, asked, faults>>


Post ==
  /\ sending # "nothing" /\ Awaited = {} /\ attempt < MaxAttempts
  /\ handlers' = handlers \cup {[type |-> sending, id |-> now]}
  /\ attempt' = attempt + 1
  /\ UNCHANGED <<status, launch, run, retries, work, sending, canceller, sweeper, asked, faults>>

(* After the last attempt it returns as if it had succeeded. *)
GiveUp ==
  /\ sending # "nothing" /\ Awaited = {} /\ attempt = MaxAttempts
  /\ Send("nothing")
  /\ UNCHANGED <<status, launch, run, retries, work, handlers, canceller, sweeper, asked, faults>>

(* The post is lost, or times out while the webhook goes on handling it. *)
TimeOut ==
  /\ faults < MaxFaults /\ faults' = faults + 1
  /\ \E h \in Awaited :
       handlers' \in {handlers \ {h},
                      (handlers \ {h}) \cup {[h EXCEPT !.id = faults + 1]}}
  /\ UNCHANGED <<status, launch, workerVars, canceller, sweeper, asked>>

StatusAfter(e) ==
  CASE e = "job_started" -> "running"
    [] e = "job_completed" -> "completed"
    [] e = "job_cancelled" -> "cancelled"
    [] e = "job_failed" -> "failed"
    [] OTHER -> status

(* The webhook writes the status whatever it was, and answers.  An event     *)
(* without a workspace is an error to the worker, which posts it again.      *)
Handle(h) ==
  /\ status' = StatusAfter(h.type)
  /\ handlers' = handlers \ {h}
  /\ IF h.id = now /\ h.type # "unscoped_failed" THEN Send("nothing") ELSE KeepQuiet
  /\ UNCHANGED <<launch, run, retries, work, canceller, sweeper, asked, faults>>

-----------------------------------------------------------------------------
(* The workflow: run_command_workflow, one run at a time under RQ *)

At(loc) == run = loc /\ sending = "nothing"

ReadsCancelled_anyEnd == status \in CancelStatus \cup {"failed"} /\ faults' = faults

(* is_job_cancelled: an error counts as no *)
ReadsCancelled == status \in CancelStatus /\ faults' = faults
ReadsNotCancelled ==
  \/ status \notin CancelStatus /\ faults' = faults
  \/ status \in CancelStatus /\ faults < MaxFaults /\ faults' = faults + 1

PickUp ==
  /\ At("queued")
  /\ run' = "first_check" /\ work' = "none" /\ Send("job_started")
  /\ UNCHANGED <<status, launch, retries, handlers, canceller, sweeper, asked, faults>>

FirstCheck ==
  /\ At("first_check")
  /\ \/ ReadsCancelled /\ run' = "over" /\ Send("job_cancelled")
     \/ ReadsNotCancelled /\ run' = "second_check" /\ KeepQuiet
  /\ UNCHANGED <<status, launch, retries, work, handlers, canceller, sweeper, asked>>

(* After the command is understood, the intent decides: discovery asks again *)
(* as it goes, the others do not.                                            *)
SecondCheck ==
  /\ At("second_check")
  /\ \/ ReadsCancelled /\ run' = "over" /\ Send("job_cancelled")
     \/ ReadsNotCancelled /\ run' \in {"discovery", "direct"} /\ KeepQuiet
  /\ UNCHANGED <<status, launch, retries, work, handlers, canceller, sweeper, asked>>

(* Export, analysis and drafting *)
DirectWork ==
  /\ At("direct")
  /\ run' = "over" /\ work' = "full" /\ Send("job_completed")
  /\ UNCHANGED <<status, launch, retries, handlers, canceller, sweeper, asked, faults>>

(* The pipeline's loop, which a cancellation breaks *)
Discovery ==
  /\ At("discovery")
  /\ \/ ReadsCancelled /\ work' = "cut"
     \/ ReadsNotCancelled /\ work' = "full"
  /\ run' = "last_check"
  /\ UNCHANGED <<status, launch, retries, sending, attempt, handlers, canceller, sweeper, asked>>

LastCheck_unread ==
  /\ At("last_check")
  /\ run' = "over" /\ Send("job_completed")
  /\ UNCHANGED <<status, launch, retries, work, handlers, canceller, sweeper, asked, faults>>

LastCheck ==
  /\ At("last_check")
  /\ \/ ReadsCancelled /\ Send("job_cancelled")
     \/ ReadsNotCancelled /\ Send("job_completed")
  /\ run' = "over"
  /\ UNCHANGED <<status, launch, retries, work, handlers, canceller, sweeper, asked>>

InTry == {"first_check", "second_check", "discovery", "direct", "last_check"}

(* An exception: the except block reports and raises, ... *)
Raise ==
  /\ run \in InTry /\ sending = "nothing"
  /\ run' = "raising" /\ Send("unscoped_failed")
  /\ UNCHANGED <<status, launch, retries, work, handlers, canceller, sweeper, asked, faults>>

Callback_unscoped ==
  /\ At("raising")
  /\ run' = "raised" /\ Send("unscoped_failed")
  /\ UNCHANGED <<status, launch, retries, work, handlers, canceller, sweeper, asked, faults>>

(* ... and RQ calls report_rq_failure, which adds the workspace, ... *)
Callback ==
  /\ At("raising")
  /\ run' = "raised" /\ Send("job_failed")
  /\ UNCHANGED <<status, launch, retries, work, handlers, canceller, sweeper, asked, faults>>

(* ... then queues the job again, if a scheduler runs and retries are left. *)
AfterFailure ==
  /\ At("raised")
  /\ \/ run' = "over" /\ retries' = retries
     \/ retries < MaxRetries /\ retries' = retries + 1 /\ run' = "queued"
  /\ UNCHANGED <<status, launch, work, sending, attempt, handlers, canceller, sweeper, asked, faults>>

(* The process is killed: RQ fails the job without the callback. *)
Killed ==
  /\ run \in InTry \cup {"raising"} \/ (run \in {"raised", "over"} /\ sending # "nothing")
  /\ faults < MaxFaults /\ faults' = faults + 1
  /\ run' = "raised" /\ Send("nothing")
  /\ handlers' = {IF h.id = now THEN [h EXCEPT !.id = faults + 1] ELSE h : h \in handlers}
  /\ UNCHANGED <<status, launch, retries, work, canceller, sweeper, asked>>

-----------------------------------------------------------------------------
Launch == CreateJob \/ StartWorkerJob \/ LaunchFailed
Workflow ==
  \/ PickUp \/ FirstCheck \/ SecondCheck \/ DirectWork \/ Discovery \/ LastCheck
  \/ Callback \/ AfterFailure

Next ==
  \/ Launch \/ Workflow \/ Raise \/ Killed \/ Post \/ GiveUp \/ TimeOut
  \/ \E h \in handlers : Handle(h)
  \/ \E c \in Canceller : CancelRead(c) \/ CancelWrite(c)
  \/ \E s \in Sweeper : SweepList(s) \/ SweepWrite(s)

(* RQ runs what is queued and bounds it with job_timeout; a post is answered *)
(* or times out, so that it does not go on for ever.                         *)
Fairness ==
  /\ WF_vars(Workflow) /\ WF_vars(Post) /\ WF_vars(GiveUp)
  /\ WF_vars(\E h \in Awaited : Handle(h))

Spec == Init /\ [][Next]_vars
FairSpec == Spec /\ Fairness

-----------------------------------------------------------------------------
TypeOK ==
  /\ status \in Status
  /\ launch \in {"new", "created", "refused", "done", "failed"}
  /\ run \in InTry \cup {"none", "queued", "raising", "raised", "over"}
  /\ retries \in 0 .. MaxRetries
  /\ work \in {"none", "cut", "full"}
  /\ sending \in Event \cup {"nothing"}
  /\ attempt \in 0 .. MaxAttempts
  /\ handlers \subseteq Handler
  /\ canceller \in [Canceller -> {"idle", "write", "done"}]
  /\ sweeper \in [Sweeper -> {"idle", "write", "wrote"}]
  /\ asked \in BOOLEAN
  /\ faults \in 0 .. MaxFaults

(* Without a fault, a job is shown as running only while the worker has it or *)
(* has its end to report: run_command_workflow reports the end on every path, *)
(* a failure through the callback of RQ, the except block's being refused.    *)
RunningIsAlive ==
  status = "running" /\ faults = 0 =>
    run \in InTry \cup {"raising"} \/ sending # "nothing"

(* A search cut short by a cancellation ends as completed only when something *)
(* has taken the cancellation back: the sweep, a launch that thought it had   *)
(* failed, or a fault.                                                        *)
Overwritten ==
  faults > 0 \/ launch = "failed" \/ \E s \in Sweeper : sweeper[s] = "wrote"
CutIsCancelled == status = "completed" /\ work = "cut" => Overwritten

(* A job is cancelled only at somebody's request: the worker reports a        *)
(* cancellation only after it has read one, in whatever order events arrive.  *)
CancelledWasAsked ==
  status \in CancelStatus \/ work = "cut" \/ sending = "job_cancelled" => asked

(* What JobService says of a cancelled job: it moves to no other status than  *)
(* cancelled or failed.  job_started takes a cancellation of a queued job back. *)
CancellationKept ==
  [][(status \in CancelStatus => status' \in CancelStatus \cup {"failed"})]_vars

(* Every run ends, whatever is lost: an event that cannot be delivered is     *)
(* given up, and the workflow is retried a bounded number of times.           *)
RunEnds == run = "queued" ~> run = "over"
=============================================================================
