--------------------------- MODULE StoryPipeline ---------------------------
(***************************************************************************)
(* The asynchronous resolution of a room's rounds, end to end: the host's  *)
(* request begins a job (PostgresStoryResolutionStore.begin_resolution),   *)
(* its signal reaches SQS (SignalDelivery), a worker process claims the    *)
(* job (StoryJobQueue), has the round narrated, commits the result into    *)
(* the room with its receipt, completes the job, marks the completion      *)
(* dispatched and deletes the message.                                     *)
(*                                                                         *)
(* Each database transaction or remote call is one action, so a worker can *)
(* be overtaken, lose its lease or die between any two of them.  A call    *)
(* that raises ends the worker process (main returns 2 and systemd starts  *)
(* another one), which leaves the message to SQS.                          *)
(*                                                                         *)
(* The web process runs one operation at a time, under the lock of         *)
(* MemoryIdempotencyStore.  Operations written as get ... save read the    *)
(* room without a database lock and later overwrite it: `web' holds the    *)
(* room as such an operation read it.                                      *)
(*                                                                         *)
(* One room is modelled: jobs of different rooms share no row.             *)
(***************************************************************************)
EXTENDS Integers, Sequences, FiniteSets

CONSTANTS
  Jobs, Workers, None, MaxAttempts, LeaseDuration, ClockLag,  \* see StoryJobQueue
  Tales,        \* narrations the storyteller may return
  Copies,       \* bound: messages SQS holds for one job (at-least-once)
  MaxReceives,  \* maxReceiveCount of the queue's redrive policy
  MaxRounds,    \* max_rounds of the room
  MaxVersion,   \* bound on the room version the web process acts on
  Openings      \* statuses of the first round in which the behaviours begin

ASSUME PipelineAssumption ==
  /\ MaxAttempts \in Nat \ {0}
  /\ LeaseDuration \in Nat \ {0}
  /\ ClockLag \in Nat
  /\ Copies \in Nat \ {0}
  /\ MaxReceives \in Nat \ {0}
  /\ MaxRounds \in Nat \ {0}
  /\ MaxVersion \in Nat \ {0}
  /\ Openings \subseteq {"COLLECTING_ACTIONS", "AWAITING_HOST", "AWAITING_SPARK"}

VARIABLES
  jobs, grants,   \* the job rows and issued tokens of StoryJobQueue
  work,           \* the coordinates each job was created with
  room,           \* the row of table rooms, None once deleted
  web,            \* the room as the running web operation read it, or None
  inbox,          \* story_result_inbox: the receipt of each job, or None
  outbox,         \* story_completion_outbox: the completion of each job
  sqs,            \* the messages of the queue
  worker          \* what each worker process is doing

vars == <<jobs, grants, work, room, web, inbox, outbox, sqs, worker>>

queueVars  == <<jobs, grants>>
roomVars   == <<room, web, work>>
boxVars    == <<inbox, outbox>>

(***************************************************************************)
(* Types                                                                   *)
(***************************************************************************)
Versions == 1..(MaxVersion + 1)
Rounds   == 1..MaxRounds

Statuses ==
  {"COLLECTING_ACTIONS", "AWAITING_HOST", "AWAITING_SPARK", "RESOLVING",
   "RESOLUTION_FAILED", "COMPLETION_AVAILABLE", "COMPLETED"}

\* What the storyteller makes of a snapshot; "failure" stands for a result that
\* carries a failure_code.
Narrations == Tales \cup {"failure"}

Receipts ==
  [outcome : {"APPLIED", "STALE", "FAILED"}, result : Narrations, after : Versions \cup {None}]

\* StoryResolutionReceipt.completion_result
Completions == [outcome : {"APPLIED", "STALE", "FAILED"}, result : Narrations]

Completion(receipt) == [outcome |-> receipt.outcome, result |-> receipt.result]

\* `entries' keeps the narrator entries: which round, told by which job.
Room ==
  [version : Versions, round : Rounds, status : Statuses,
   entries : Seq([round : Rounds, teller : Jobs \cup {"fallback"}])]

Messages == Jobs \X (1..Copies)

Queue  == INSTANCE StoryJobQueue WITH Results <- Completions

Idle == [pc |-> "idle", msg |-> None, handle |-> 0, token |-> 0,
         tale |-> None, completion |-> None]

Process ==
  [pc         : {"idle", "received", "claimed", "narrating", "narrated", "returning",
                 "committed", "completed", "marked"},
   msg        : Messages \cup {None},
   handle     : 0..MaxReceives,
   token      : Nat,
   tale       : Narrations \cup {None},
   completion : Completions \cup {None}]

\* None is no worker and no row, the fallback is no job.
ASSUME NoneAssumption ==
  /\ None \notin Workers
  /\ None \notin Completions
  /\ None \notin Receipts
  /\ None \notin Room
  /\ None \notin [round : Rounds, version : Versions]
  /\ None \notin [token : Nat, dispatched : BOOLEAN]
  /\ "fallback" \notin Jobs

\* The types of the pipeline's state, those of the queue included: redeliveries
\* never take a job beyond max_attempts.
TypeOK ==
  /\ Queue!TypeOK
  /\ work \in [Jobs -> [round : Rounds, version : Versions] \cup {None}]
  /\ room \in Room \cup {None}
  /\ web \in Room \cup {None}
  /\ inbox \in [Jobs -> Receipts \cup {None}]
  /\ outbox \in [Jobs -> [token : Nat, dispatched : BOOLEAN] \cup {None}]
  /\ sqs \in [Messages -> [state : {"unused", "visible", "inflight", "deleted", "dlq"},
                           receives : 0..MaxReceives]]
  /\ worker \in [Workers -> Process]

(***************************************************************************)
(* The web process                                                         *)
(***************************************************************************)
Bump(r, status) == [r EXCEPT !.status = status, !.version = @ + 1]

\* The rooms that telling the current round can make of r: apply_story_result
\* and fallback_round.  The progress made decides whether a goal is reached.
Tellings(r, teller) ==
  LET told == [r EXCEPT !.entries = Append(@, [round |-> r.round, teller |-> teller])]
  IN IF r.round >= MaxRounds
     THEN {Bump(told, "COMPLETED")}
     ELSE {Bump([told EXCEPT !.round = @ + 1], status) :
             status \in {"COLLECTING_ACTIONS", "COMPLETION_AVAILABLE"}}

\* The web process is free to start an operation.
WebFree == web = None /\ room # None /\ room.version < MaxVersion

\* The read of an operation that saves later.
WebRead ==
  /\ WebFree
  /\ room.status # "RESOLVING"
  /\ web' = room
  /\ UNCHANGED <<queueVars, work, room, boxVars, sqs, worker>>

\* The operation is refused on what it read, or the web process restarts.
WebDrop ==
  /\ web # None
  /\ web' = None
  /\ UNCHANGED <<queueVars, work, room, boxVars, sqs, worker>>

\* repository.save: an upsert of the whole room.
WebSave(rooms) ==
  /\ room' \in rooms
  /\ web' = None
  /\ UNCHANGED <<queueVars, work, boxVars, sqs, worker>>

SubmitAction ==
  /\ web # None
  /\ web.status \in {"COLLECTING_ACTIONS", "AWAITING_HOST"}
  /\ WebSave({Bump(web, status) : status \in {"COLLECTING_ACTIONS", "AWAITING_HOST"}})

RollRound ==
  /\ web # None
  /\ web.status = "AWAITING_HOST"
  /\ WebSave({Bump(web, status) : status \in {"AWAITING_SPARK", "RESOLVING"}})

DecideSpark ==
  /\ web # None
  /\ web.status = "AWAITING_SPARK"
  /\ WebSave({Bump(web, status) : status \in {"AWAITING_SPARK", "RESOLVING"}})

\* Mutant: the fallback does not wait for the storyteller to have failed.
FallbackRound_Impatient ==
  /\ web # None
  /\ web.status \in {"AWAITING_SPARK", "RESOLUTION_FAILED"}
  /\ WebSave(Tellings(web, "fallback"))

FallbackRound ==
  /\ web # None
  /\ web.status = "RESOLUTION_FAILED"
  /\ WebSave(Tellings(web, "fallback"))

FinishGame ==
  /\ web # None
  /\ web.status = "COMPLETION_AVAILABLE"
  /\ WebSave({Bump(web, status) : status \in {"COLLECTING_ACTIONS", "COMPLETED"}})

\* issue_transfer_code and redeem_transfer_code: in any status, one transaction.
TransferPlayer ==
  /\ WebFree
  /\ room' = Bump(room, room.status)
  /\ UNCHANGED <<queueVars, work, web, boxVars, sqs, worker>>

DeleteRoom ==
  /\ WebFree
  /\ room' = None
  /\ UNCHANGED <<queueVars, work, web, boxVars, sqs, worker>>

\* begin_resolution: room, job and signal in one transaction.  A replay of the
\* same request finds the job and changes nothing.
Begin(j) ==
  /\ WebFree
  /\ room.status \in {"AWAITING_SPARK", "RESOLVING", "RESOLUTION_FAILED"}
  /\ Queue!Enqueue(j)
  /\ room' = Bump(room, "RESOLVING")
  /\ work' = [work EXCEPT ![j] = [round |-> room.round, version |-> room.version + 1]]
  /\ UNCHANGED <<web, boxVars, sqs, worker>>

(***************************************************************************)
(* The signal and SQS                                                      *)
(***************************************************************************)
\* The publisher sends the signal that begin_resolution opened, perhaps more
\* than once (SignalDelivery!Send).
Publish(j) ==
  /\ jobs[j].status # "absent"
  /\ \E c \in 1..Copies :
       /\ sqs[<<j, c>>].state = "unused"
       /\ \A d \in 1..(c - 1) : sqs[<<j, d>>].state # "unused"
       /\ sqs' = [sqs EXCEPT ![<<j, c>>].state = "visible"]
  /\ UNCHANGED <<queueVars, roomVars, boxVars, worker>>

\* The visibility timeout ends: the worker died, or its heartbeat came too late.
VisibilityTimeout(m) ==
  /\ sqs[m].state = "inflight"
  /\ sqs' = [sqs EXCEPT ![m].state = "visible"]
  /\ UNCHANGED <<queueVars, roomVars, boxVars, worker>>

\* A message received MaxReceives times is moved to the dead-letter queue.
Redrive(m) ==
  /\ sqs[m].state = "visible"
  /\ sqs[m].receives = MaxReceives
  /\ sqs' = [sqs EXCEPT ![m].state = "dlq"]
  /\ UNCHANGED <<queueVars, roomVars, boxVars, worker>>

(***************************************************************************)
(* The worker processes                                                    *)
(***************************************************************************)
JobOf(w) == worker[w].msg[1]

Becomes(w, pc) == worker' = [worker EXCEPT ![w].pc = pc]

\* The call raised: the process ends and another one starts in its place.
Exit(w) == worker' = [worker EXCEPT ![w] = Idle]

\* receive_one
Receive(w) ==
  /\ worker[w].pc = "idle"
  /\ \E m \in Messages :
       /\ sqs[m].state = "visible"
       /\ sqs[m].receives < MaxReceives
       /\ sqs' = [sqs EXCEPT ![m] = [state |-> "inflight", receives |-> @.receives + 1]]
       /\ worker' = [worker EXCEPT ![w] =
            [Idle EXCEPT !.pc = "received", !.msg = m, !.handle = sqs[m].receives + 1]]
  /\ UNCHANGED <<queueVars, roomVars, boxVars>>

\* claim returns a claimed job.
ClaimJob(w) ==
  /\ worker[w].pc = "received"
  /\ Queue!Grant(JobOf(w), w, 0)
  /\ worker' = [worker EXCEPT ![w].pc = "claimed", ![w].token = Queue!NextToken]
  /\ UNCHANGED <<roomVars, boxVars, sqs>>

\* claim finds the last attempt expired; result_for_claim then raises.
ClaimExhausted(w) ==
  /\ worker[w].pc = "received"
  /\ Queue!DeadLetterExpired(JobOf(w), 0)
  /\ Exit(w)
  /\ UNCHANGED <<roomVars, boxVars, sqs>>

\* claim raises: somebody else holds the job, or the job is finished.
ClaimRefused(w) ==
  /\ worker[w].pc = "received"
  /\ ~Queue!Claimable(jobs[JobOf(w)], 0)
  /\ jobs[JobOf(w)].status = "claimed" => Queue!LeaseActive(jobs[JobOf(w)], 0)
  /\ Exit(w)
  /\ UNCHANGED <<queueVars, roomVars, boxVars, sqs>>

\* _required_active_claim, and _require_active_token in complete and fail.
Holds(w) == Queue!HoldsClaim(JobOf(w), worker[w].token, 0)

\* The completion row follows the claim until it is dispatched.
Retoken(j, token) ==
  IF outbox[j].dispatched THEN UNCHANGED outbox
                          ELSE outbox' = [outbox EXCEPT ![j].token = token]

\* result_for_claim: a receipt that exists already is only completed again.
LookUp(w) ==
  LET j == JobOf(w) IN
  /\ worker[w].pc = "claimed"
  /\ \/ /\ ~Holds(w)
        /\ Exit(w)
        /\ UNCHANGED outbox
     \/ /\ Holds(w)
        /\ inbox[j] = None
        /\ Becomes(w, "narrating")
        /\ UNCHANGED outbox
     \/ /\ Holds(w)
        /\ inbox[j] # None
        /\ worker' = [worker EXCEPT ![w].pc = "committed", ![w].completion = Completion(inbox[j])]
        /\ Retoken(j, worker[w].token)
  /\ UNCHANGED <<queueVars, roomVars, inbox, sqs>>

LastAttempt(w) == grants[worker[w].token].attempt >= MaxAttempts

\* narrator.resolve returns, or raises a failure that ends the job.
Narrate(w) ==
  /\ worker[w].pc = "narrating"
  /\ \E n \in Narrations :
       worker' = [worker EXCEPT ![w].pc = "narrated", ![w].tale = n]
  /\ UNCHANGED <<queueVars, roomVars, boxVars, sqs>>

\* narrator.resolve raises a retryable failure and attempts are left.
NarrateRetryable(w) ==
  /\ worker[w].pc = "narrating"
  /\ ~LastAttempt(w)
  /\ Becomes(w, "returning")
  /\ UNCHANGED <<queueVars, roomVars, boxVars, sqs>>

\* Mutant: the runner deletes the message of a job it gave back.
GiveBack_Deletes(w) ==
  /\ worker[w].pc = "returning"
  /\ IF Holds(w) THEN /\ Queue!Fail(JobOf(w), worker[w].token, 0)
                      /\ sqs' = [sqs EXCEPT ![worker[w].msg].state = "deleted"]
                 ELSE UNCHANGED <<queueVars, sqs>>
  /\ Exit(w)
  /\ UNCHANGED <<roomVars, boxVars>>

\* queue.fail; the runner then leaves the message in the queue.
GiveBack(w) ==
  /\ worker[w].pc = "returning"
  /\ IF Holds(w) THEN Queue!Fail(JobOf(w), worker[w].token, 0)
                 ELSE UNCHANGED queueVars
  /\ Exit(w)
  /\ UNCHANGED <<roomVars, boxVars, sqs>>

\* Mutants: a result is taken for the current one because it is for the current
\* round, or because it is for a round that is being resolved.
Fits_SameRound(j) == room.round = work[j].round /\ room.status # "COMPLETED"

Fits_AnyVersion(j) ==
  /\ room.round = work[j].round
  /\ room.status = "RESOLVING"

\* The room still is as begin_resolution left it.
Fits(j) ==
  /\ room.version = work[j].version
  /\ room.round = work[j].round
  /\ room.status = "RESOLVING"

\* Mutant: the room is saved in a transaction of its own, after which the worker
\* may stop before it stores the receipt.
CommitNew_RoomFirst(w) ==
  /\ Fits(JobOf(w))
  /\ room' \in Tellings(room, JobOf(w))
  /\ Exit(w)
  /\ UNCHANGED boxVars

\* commit_result on a job without a receipt: room, inbox and completion row in
\* one transaction.
CommitNew(w) ==
  LET j      == JobOf(w)
      n      == worker[w].tale
      Stored(outcome, after) ==
        LET receipt == [outcome |-> outcome, result |-> n, after |-> after]
        IN /\ inbox' = [inbox EXCEPT ![j] = receipt]
           /\ outbox' = [outbox EXCEPT ![j] = [token |-> worker[w].token, dispatched |-> FALSE]]
           /\ worker' = [worker EXCEPT ![w].pc = "committed", ![w].completion = Completion(receipt)]
  IN \/ /\ ~Fits(j)
        /\ Stored("STALE", None)
        /\ UNCHANGED room
     \/ /\ Fits(j)
        /\ n = "failure"
        /\ room' = Bump(room, "RESOLUTION_FAILED")
        /\ Stored("FAILED", room'.version)
     \/ /\ Fits(j)
        /\ n # "failure"
        /\ room' \in Tellings(room, j)
        /\ Stored("APPLIED", room'.version)

\* commit_result
Commit(w) ==
  LET j == JobOf(w) IN
  /\ worker[w].pc = "narrated"
  /\ \/ /\ \/ ~Holds(w)                                     \* fenced or expired
           \/ inbox[j] # None /\ inbox[j].result # worker[w].tale
           \/ inbox[j] = None /\ room = None                \* the room is gone
        /\ Exit(w)
        /\ UNCHANGED <<room, boxVars>>
     \/ /\ Holds(w)
        /\ inbox[j] # None
        /\ inbox[j].result = worker[w].tale
        /\ worker' = [worker EXCEPT ![w].pc = "committed", ![w].completion = Completion(inbox[j])]
        /\ Retoken(j, worker[w].token)
        /\ UNCHANGED <<room, inbox>>
     \/ /\ Holds(w)
        /\ inbox[j] = None
        /\ room # None
        /\ CommitNew(w)
  /\ UNCHANGED <<queueVars, work, web, sqs>>

\* queue.complete
CompleteJob(w) ==
  /\ worker[w].pc = "committed"
  /\ IF Holds(w)
     THEN /\ Queue!Complete(JobOf(w), worker[w].token, worker[w].completion, 0)
          /\ Becomes(w, "completed")
     ELSE Exit(w) /\ UNCHANGED queueVars
  /\ UNCHANGED <<roomVars, boxVars, sqs>>

\* Mutant: the completion is marked before the queue has it.
MarkCompletion_Early(w) ==
  /\ worker[w].pc \in {"committed", "completed"}
  /\ outbox' = [outbox EXCEPT ![JobOf(w)].dispatched = TRUE]
  /\ Becomes(w, "marked")
  /\ UNCHANGED <<queueVars, roomVars, inbox, sqs>>

\* mark_completion_dispatched
MarkCompletion(w) ==
  /\ worker[w].pc = "completed"
  /\ IF outbox[JobOf(w)].token = worker[w].token
     THEN /\ outbox' = [outbox EXCEPT ![JobOf(w)].dispatched = TRUE]
          /\ Becomes(w, "marked")
     ELSE Exit(w) /\ UNCHANGED outbox
  /\ UNCHANGED <<queueVars, roomVars, inbox, sqs>>

\* delete_message: the handle of an earlier receive may have no effect.
DeleteMessage(w) ==
  LET m == worker[w].msg IN
  /\ worker[w].pc = "marked"
  /\ \/ sqs' = [sqs EXCEPT ![m].state = IF @ = "dlq" THEN @ ELSE "deleted"]
     \/ sqs[m].receives # worker[w].handle /\ UNCHANGED sqs
  /\ Exit(w)
  /\ UNCHANGED <<queueVars, roomVars, boxVars>>

\* The process dies, or its visibility heartbeat failed and process's result
\* is thrown away on leaving the heartbeat.
Crash(w) ==
  /\ worker[w].pc # "idle"
  /\ Exit(w)
  /\ UNCHANGED <<queueVars, roomVars, boxVars, sqs>>

Elapse(j) ==
  /\ Queue!Elapse(j)
  /\ UNCHANGED <<roomVars, boxVars, sqs, worker>>

(***************************************************************************)
(* The specification                                                       *)
(***************************************************************************)
\* The first round, in one of the Openings; versions are counted from here.
Init ==
  /\ Queue!Init
  /\ work = [j \in Jobs |-> None]
  /\ room \in {[version |-> 1, round |-> 1, status |-> status, entries |-> <<>>] :
                  status \in Openings}
  /\ web = None
  /\ inbox = [j \in Jobs |-> None]
  /\ outbox = [j \in Jobs |-> None]
  /\ sqs = [m \in Messages |-> [state |-> "unused", receives |-> 0]]
  /\ worker = [w \in Workers |-> Idle]

WebNext ==
  \/ WebRead \/ WebDrop
  \/ SubmitAction \/ RollRound \/ DecideSpark \/ FallbackRound \/ FinishGame
  \/ TransferPlayer \/ DeleteRoom
  \/ \E j \in Jobs : Begin(j)

QueueNext ==
  \/ \E j \in Jobs : Publish(j) \/ Elapse(j)
  \/ \E m \in Messages : VisibilityTimeout(m) \/ Redrive(m)

\* What a worker process does of its own accord.
WorkerStep(w) ==
  \/ Receive(w)
  \/ ClaimJob(w) \/ ClaimExhausted(w) \/ ClaimRefused(w)
  \/ LookUp(w)
  \/ Narrate(w) \/ NarrateRetryable(w)
  \/ GiveBack(w)
  \/ Commit(w)
  \/ CompleteJob(w)
  \/ MarkCompletion(w)
  \/ DeleteMessage(w)

Next ==
  \/ WebNext
  \/ QueueNext
  \/ \E w \in Workers : WorkerStep(w) \/ Crash(w)

Spec == Init /\ [][Next]_vars

\* run_forever keeps every worker going, every signal is sent (EveryRowDispatched
\* of StoryJobDispatch), and SQS and the leases keep their timeouts.  Nothing is
\* assumed of the players, of the host or of when workers die.
Fairness ==
  /\ \A w \in Workers : WF_vars(WorkerStep(w))
  /\ \A j \in Jobs : WF_vars(Publish(j) /\ sqs[<<j, 1>>].state = "unused") /\ WF_vars(Elapse(j))
  /\ \A m \in Messages : WF_vars(VisibilityTimeout(m)) /\ WF_vars(Redrive(m))

FairSpec == Spec /\ Fairness

(***************************************************************************)
(* Properties                                                              *)
(***************************************************************************)

\* No acknowledgement runs ahead of the transaction it acknowledges, whatever
\* is redelivered or dies in between: a message is deleted only after the
\* completion was marked, which is marked only after the queue completed the job.
AcksFollowCommit ==
  \A j \in Jobs :
    /\ (\E c \in 1..Copies : sqs[<<j, c>>].state = "deleted")
         => outbox[j] # None /\ outbox[j].dispatched
    /\ (outbox[j] # None /\ outbox[j].dispatched) => jobs[j].status = "completed"

\* However often the job was claimed and by whomever, the queue row, the receipt
\* and the completion row tell the same story: a completed job carries the
\* completion of its receipt, under the token its completion row waits for.
CompletionAgrees ==
  \A j \in Jobs : jobs[j].status = "completed" =>
    /\ inbox[j] # None
    /\ jobs[j].result = Completion(inbox[j])
    /\ outbox[j].token = jobs[j].ownership_token

\* A receipt says what happened to the room: exactly the jobs with an `applied'
\* receipt told a round of it, and each told one.  Neither a redelivery after a
\* crash nor a web operation that saves the room it read earlier breaks this.
ReceiptMatchesRoom ==
  room # None => \A j \in Jobs :
    Cardinality({i \in DOMAIN room.entries : room.entries[i].teller = j})
      = IF inbox[j] # None /\ inbox[j].outcome = "APPLIED" THEN 1 ELSE 0

\* The i-th narration is that of round i.  A round told by the storyteller is
\* told from the job begun last for it, never from a snapshot the host has
\* replaced since; a round told by the fallback has a job whose failure receipt
\* asked for it.
TellerJustified ==
  room # None => \A i \in DOMAIN room.entries :
    LET entry   == room.entries[i]
        RoundOf(j) == work[j] # None /\ work[j].round = i
    IN /\ entry.round = i
       /\ IF entry.teller = "fallback"
          THEN \E j \in Jobs : RoundOf(j) /\ inbox[j] # None /\ inbox[j].outcome = "FAILED"
          ELSE \A j \in Jobs : RoundOf(j) => work[j].version <= work[entry.teller].version

\* The rooms implement Chronicle: each round is told once, in order, by the
\* storyteller or by the fallback after it failed, and nothing told is lost.
Game == INSTANCE Chronicle WITH
  phase <- IF room = None THEN "gone"
           ELSE CASE room.status = "RESOLVING"         -> "resolving"
                  [] room.status = "RESOLUTION_FAILED" -> "failed"
                  [] room.status = "COMPLETED"         -> "ended"
                  [] OTHER                             -> "acting",
  told  <- IF room = None THEN <<>>
           ELSE [i \in DOMAIN room.entries |->
                   IF room.entries[i].teller = "fallback" THEN "fallback" ELSE "storyteller"]

ToldAsChronicle == Game!Spec

\* No job is forgotten while SQS still delivers a message about it: it ends, or every
\* message has gone to the dead-letter queue.  A job whose messages are there stays as
\* it is, pending or claimed, whether or not it has attempts left.
JobSettles ==
  \A j \in Jobs : jobs[j].status \in {"pending", "claimed"} ~>
    \/ jobs[j].status \in {"completed", "dead-lettered"}
    \/ /\ sqs[<<j, 1>>].state = "dlq"
       /\ \A c \in 1..Copies : sqs[<<j, c>>].state \in {"unused", "dlq"}

\* docs/features/tier2-story-resolution.md, "Result transaction": when queue
\* completion failed after the data commit, a new claim completes the job.  So a
\* job with a receipt should never be put aside as dead.
ReceiptIsServed ==
  \A j \in Jobs : inbox[j] # None => jobs[j].status # "dead-lettered"

\* docs/features/tier2-async-flow.md: after the worker's success all players see
\* the new narration.  So a narration should be dropped as stale only when the
\* room is gone or something newer answers for the round.
StaleIsSuperseded ==
  room # None => \A j \in Jobs :
    (inbox[j] # None /\ inbox[j].outcome = "STALE") =>
      \/ room.status # "RESOLVING"
      \/ room.round # work[j].round
      \/ \E i \in Jobs : work[i] # None /\ work[i].version > work[j].version

=============================================================================
