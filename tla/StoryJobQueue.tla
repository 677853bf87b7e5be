--------------------------- MODULE StoryJobQueue ---------------------------
(***************************************************************************)
(* The durable story-job queue: one row of table story_jobs per job, and   *)
(* the operations of PostgresStoryJobQueue on it.  MemoryStoryJobQueue is  *)
(* the test double of the same contract.                                   *)
(*                                                                         *)
(* Each operation runs in one transaction that locks the row first, so an  *)
(* operation is one action.  An operation reads its clock BEFORE it waits  *)
(* for the row lock: `lag' is how much older than the present that reading *)
(* is, at most ClockLag.                                                   *)
(*                                                                         *)
(* Time is kept as the time each lease has left (lease_expires_at minus    *)
(* the present), which Elapse decreases; it may go negative, down to       *)
(* -ClockLag, the last value a lagging clock can tell from the others.     *)
(* The rows are independent, so each has its own Elapse.                   *)
(*                                                                         *)
(* A call the code rejects changes nothing: it is a stuttering step.       *)
(***************************************************************************)
EXTENDS Integers, Sequences

CONSTANTS
  Jobs,           \* job identities (job_id and idempotency_key name one job)
  Workers,        \* worker_id values
  Results,        \* completion payloads
  None,           \* SQL NULL
  MaxAttempts,    \* max_attempts
  LeaseDuration,  \* lease_duration, in ticks
  ClockLag        \* bound on the wait between reading the clock and the lock

ASSUME QueueAssumption ==
  /\ MaxAttempts \in Nat \ {0}
  /\ LeaseDuration \in Nat \ {0}
  /\ ClockLag \in Nat
  /\ None \notin Workers
  /\ None \notin Results

VARIABLES
  jobs,    \* the row of each job
  grants   \* the tokens issued so far: token t was issued for grants[t]

vars == <<jobs, grants>>

Lags == 0..ClockLag

Grants == [job : Jobs, worker : Workers, attempt : 1..MaxAttempts]

Row ==
  [status          : {"absent", "pending", "claimed", "completed", "dead-lettered"},
   claimed_by      : Workers \cup {None},
   ownership_token : Nat,                       \* 0 is NULL
   lease           : (-ClockLag)..LeaseDuration, \* 0 unless claimed
   attempt_count   : 0..MaxAttempts,
   result          : Results \cup {None},
   terminal_error  : {"NULL", "LEASE_EXPIRED", "error_code"}]

\* The rows and the issued tokens have their types; no row counts more attempts
\* than max_attempts allows.
TypeOK ==
  /\ jobs \in [Jobs -> Row]
  /\ grants \in Seq(Grants)

(***************************************************************************)
(* Rows                                                                    *)
(***************************************************************************)
\* _job_from_row: a row from its columns.
RowOf(status, w, token, lease, n, result, error) ==
  [status |-> status, claimed_by |-> w, ownership_token |-> token, lease |-> lease,
   attempt_count |-> n, result |-> result, terminal_error |-> error]

NoJob == RowOf("absent", None, 0, 0, 0, None, "NULL")

\* Mutant: a failed attempt gives the job its attempts back.
PendingRow_Resets(n) == RowOf("pending", None, 0, 0, 0, None, "NULL")

PendingRow(n) == RowOf("pending", None, 0, 0, n, None, "NULL")

ClaimedRow(w, token, lag, n) ==
  RowOf("claimed", w, token, LeaseDuration - lag, n, None, "NULL")

CompletedRow(row, result) ==
  RowOf("completed", row.claimed_by, row.ownership_token, 0,
        row.attempt_count, result, "NULL")

DeadLetteredRow(n, error) == RowOf("dead-lettered", None, 0, 0, n, None, error)

\* Mutant: a lease is held to be over one tick before it is.
LeaseActive_Early(row, lag) == row.lease + lag > 1

\* The lease as a caller sees it whose clock reading is `lag' old.
LeaseActive(row, lag) == row.lease + lag > 0

\* Mutant: the token factory returns the token issued last.
NextToken_Reused == IF grants = <<>> THEN 1 ELSE Len(grants)

\* ownership_token_factory: tokens are never issued twice.
NextToken == Len(grants) + 1

Exhausted(row) == row.attempt_count >= MaxAttempts

(***************************************************************************)
(* Operations                                                              *)
(***************************************************************************)
\* enqueue: INSERT ... ON CONFLICT DO NOTHING.
Enqueue(j) ==
  /\ jobs[j].status = "absent"
  /\ jobs' = [jobs EXCEPT ![j] = PendingRow(0)]
  /\ UNCHANGED grants

\* Mutant: claim does not look at the status of a row that is not claimed.
Claimable_AnyStatus(row, lag) ==
  IF row.status = "claimed" THEN ~LeaseActive(row, lag) /\ ~Exhausted(row)
                            ELSE row.status # "absent"

\* Mutant: an expired lease is reclaimed however many attempts were made.
Claimable_Unbounded(row, lag) ==
  \/ row.status = "pending"
  \/ row.status = "claimed" /\ ~LeaseActive(row, lag)

\* Mutant: the last attempt is withheld from a job whose lease ran out.
Claimable_OneShort(row, lag) ==
  \/ row.status = "pending"
  \/ row.status = "claimed" /\ ~LeaseActive(row, lag) /\ row.attempt_count + 1 < MaxAttempts

\* The condition under which claim issues a new token; also the rows that
\* next_available_job_id offers to the local runner.
Claimable(row, lag) ==
  \/ row.status = "pending"
  \/ row.status = "claimed" /\ ~LeaseActive(row, lag) /\ ~Exhausted(row)

\* claim: the branch that grants the job to worker w.
Grant(j, w, lag) ==
  /\ Claimable(jobs[j], lag)
  /\ LET n == jobs[j].attempt_count + 1
     IN /\ jobs' = [jobs EXCEPT ![j] = ClaimedRow(w, NextToken, lag, n)]
        /\ grants' = Append(grants, [job |-> j, worker |-> w, attempt |-> n])

\* claim: the branch for an expired lease with no attempts left.
DeadLetterExpired(j, lag) ==
  /\ jobs[j].status = "claimed"
  /\ ~LeaseActive(jobs[j], lag)
  /\ Exhausted(jobs[j])
  /\ jobs' = [jobs EXCEPT ![j] = DeadLetteredRow(@.attempt_count, "LEASE_EXPIRED")]
  /\ UNCHANGED grants

\* claim: while the lease runs, the owner is told its current claim and any
\* other worker is refused; neither changes the row.
Claim(j, w, lag) == Grant(j, w, lag) \/ DeadLetterExpired(j, lag)

\* Mutant: complete and fail accept a token the row no longer carries.
HoldsClaim_AnyToken(j, token, lag) ==
  jobs[j].status = "claimed" /\ LeaseActive(jobs[j], lag)

\* _require_active_token, for a claimed row.
HoldsClaim(j, token, lag) ==
  /\ jobs[j].status = "claimed"
  /\ jobs[j].ownership_token = token
  /\ LeaseActive(jobs[j], lag)

\* complete: a replay with the same token and result changes nothing.
Complete(j, token, result, lag) ==
  /\ HoldsClaim(j, token, lag)
  /\ jobs' = [jobs EXCEPT ![j] = CompletedRow(@, result)]
  /\ UNCHANGED grants

\* fail: back to pending while attempts are left, else a dead letter.
Fail(j, token, lag) ==
  /\ HoldsClaim(j, token, lag)
  /\ jobs' = [jobs EXCEPT ![j] =
                IF Exhausted(@) THEN DeadLetteredRow(@.attempt_count, "error_code")
                                ELSE PendingRow(@.attempt_count)]
  /\ UNCHANGED grants

\* One tick of the time a lease has left.
Elapse(j) ==
  /\ jobs[j].status = "claimed"
  /\ jobs[j].lease > -ClockLag
  /\ jobs' = [jobs EXCEPT ![j].lease = @ - 1]
  /\ UNCHANGED grants

Init ==
  /\ jobs = [j \in Jobs |-> NoJob]
  /\ grants = <<>>

\* Callers present any token that was ever issued, the stale ones included.
Next ==
  \E j \in Jobs :
    \/ Enqueue(j)
    \/ Elapse(j)
    \/ \E lag \in Lags :
         \/ \E w \in Workers : Claim(j, w, lag)
         \/ \E token \in 1..Len(grants) :
              \/ \E result \in Results : Complete(j, token, result, lag)
              \/ Fail(j, token, lag)

Spec == Init /\ [][Next]_vars

\* LocalStoryResolutionWorkerRunner.run_once, as far as the queue: one of the jobs
\* that next_available_job_id offers is claimed.
RunOnce == \E j \in Jobs, w \in Workers : Grant(j, w, 0)

\* Time passes, and the local runner is started again as long as the queue has a job
\* to offer; nobody asks for a job that is not offered, and no job is preferred.  SQS
\* promises less, a number of receives, which StoryPipeline counts.
Fairness == WF_vars(RunOnce) /\ \A j \in Jobs : WF_vars(Elapse(j))

FairSpec == Spec /\ Fairness

(***************************************************************************)
(* Properties                                                              *)
(***************************************************************************)

\* Every row the operations write passes the CHECK story_jobs_state_shape of
\* migration 002, so no operation fails on the constraint.
StateShape ==
  \A j \in Jobs : LET row == jobs[j] IN
    /\ row.claimed_by = None <=> row.status \notin {"claimed", "completed"}
    /\ row.ownership_token = 0 <=> row.status \notin {"claimed", "completed"}
    /\ row.lease # 0 => row.status = "claimed"
    /\ row.result = None <=> row.status # "completed"
    /\ row.terminal_error = "NULL" <=> row.status # "dead-lettered"

\* Fencing: the token on a claimed or completed row is the one issued last for
\* that job, and it was issued to the worker and attempt the row names.  A
\* worker whose claim was taken over can therefore not be the one that ended it.
HolderIsLatest ==
  \A j \in Jobs : jobs[j].status \in {"claimed", "completed"} =>
    /\ jobs[j].ownership_token \in 1..Len(grants)
    /\ grants[jobs[j].ownership_token] =
         [job |-> j, worker |-> jobs[j].claimed_by, attempt |-> jobs[j].attempt_count]
    /\ \A t \in 1..Len(grants) : grants[t].job = j => t <= jobs[j].ownership_token

\* Bounded retry: successive claims of a job are numbered upwards without
\* repetition, and the row counts all of them, so no job is tried more than
\* MaxAttempts times and no attempt is made under two tokens.
AttemptsAccounted ==
  \A t \in 1..Len(grants) :
    /\ grants[t].attempt <= jobs[grants[t].job].attempt_count
    /\ \A s \in 1..(t - 1) :
         grants[s].job = grants[t].job => grants[s].attempt < grants[t].attempt

\* A job is given up only when all its attempts are used.
DeadLetterIsExhausted ==
  \A j \in Jobs : jobs[j].status = "dead-lettered" => jobs[j].attempt_count = MaxAttempts

\* A finished job stays as it is: a late, duplicate or stale call never reopens
\* it nor overwrites the result it completed with.
TerminalIsFinal ==
  [][\A j \in Jobs : jobs[j].status \in {"completed", "dead-lettered"} => jobs'[j] = jobs[j]]_vars

\* A claim passes from one token to another only once its lease is over, even
\* though the claimer read its clock before it waited for the row.
LeaseRespected ==
  [][\A j \in Jobs :
       (/\ jobs[j].status = "claimed"
        /\ jobs'[j].status = "claimed"
        /\ jobs'[j].ownership_token # jobs[j].ownership_token) => jobs[j].lease <= 0]_vars

\* A job is neither retried forever nor left with attempts nobody may make: whenever it
\* is pending, it comes to a result, to a dead letter, or to the end of the lease of its
\* last attempt.  The last does not end it: next_available_job_id offers no such row
\* (postgres_story_job_queue.py:104), against tier2-story-jobs.md:42.
AttemptsAreMade ==
  \A j \in Jobs : jobs[j].status = "pending" ~>
    \/ jobs[j].status \in {"completed", "dead-lettered"}
    \/ jobs[j].status = "claimed" /\ ~LeaseActive(jobs[j], 0) /\ Exhausted(jobs[j])

=============================================================================
