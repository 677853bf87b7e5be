# Verification of Co-Story (共演計劃)

Co-Story is a multiplayer story game: three to five players act in rounds, a
language model tells what happens, and everybody polls the result. This
directory holds TLA+ models of the program under `src/backend/app`, the TLC
configurations that check them on small instances, and proofs checked by TLAPS.

## 1. The system

| Part | Where | State it keeps | Operations |
|---|---|---|---|
| Game room service | `application/room_service.py`, `domain/models.py` | one row of `rooms` (status, version, round, players, points, entries) | create, confirm/generate world, join, start, submit, roll, spark, resolve (sync), begin (async), fallback, finish, transfer, delete |
| Idempotent web requests | `adapters/memory_idempotency_store.py`, `api/routes.py` | replies by (scope, key) in process memory, one global lock | execute |
| Story-job queue | `adapters/postgres_story_job_queue.py`, migration 002 | `story_jobs` (status, owner, fencing token, lease, attempts, result) | enqueue, next available, claim, complete, fail |
| Dispatch outbox and publisher | `adapters/postgres_story_job_dispatch.py`, `workers/story_job_publisher.py`, migration 005 | `story_job_dispatch_outbox` | claim one, send, mark, release |
| SQS transport | `adapters/sqs_story_job_transport.py`, `infra/cloudformation/tier2-worker-foundation.yaml` | messages, visibility, receive counts, dead-letter queue | publish, receive, extend visibility, delete |
| Resolution store and worker | `adapters/postgres_story_resolution_store.py`, `application/story_resolution.py`, `workers/story_resolution_worker.py`, migration 003 | `story_result_inbox`, `story_completion_outbox` | begin, look up a result, commit, mark; process a job |
| Storyteller | `adapters/bedrock_storyteller.py`, `adapters/story_resolution_narrator.py` | none | call the model with one tool, validate its answer, cut and compose the text: narrative, terminal or retryable failure |
| Sessions and transfer codes | `room_service.py`, `application/session_lifecycle.py` | session hashes and expiries, one code per player | authorise, refresh, issue, redeem |
| Game rules | `application/rules.py` | none | classify, spark, percentages, endings |
| Support agent | `application/support_agent.py`, `api/support_routes.py`, `adapters/postgres_support_report_repository.py` | rate-limit windows in process memory, `support_report_drafts` | look up a rule, draft a report |
| Incident analysis | `application/incident_analysis.py`, `aiops.py` | none | summarise metrics |
| Migrations | `adapters/postgres_migrations.py` | `schema_migrations` | apply, validate |
| Web client | `web/src` | last polled room | poll every 3 s, act |
| Operations | `ops/release/*.sh`, `ops/systemd` | unit files, transition state | deploy, roll back, switch sync/async |

The deployed shape: one web process (`uvicorn --workers 1`, handlers in a thread
pool), one publisher process beside it, two private worker instances, PostgreSQL
and SQS. They interact only through the database and the queue:

1. The host asks for a round to be resolved. `begin_resolution` locks the room,
   compares the version, sets `RESOLVING`, and inserts the job and its dispatch
   row in the same transaction.
2. The publisher claims the dispatch row under a 30 s lease, sends a message and
   marks the row.
3. A worker receives the message (visibility 180 s, extended by a heartbeat),
   claims the job (lease 180 s, three attempts, a new fencing token), looks for an
   earlier receipt, else calls the storyteller, commits room + receipt +
   completion row in one transaction, completes the job, marks the completion
   row, deletes the message. Any exception ends the process; systemd restarts it
   and SQS delivers again, at most three times before the dead-letter queue.
4. Meanwhile the host and the players use the web process: transfers, deletion,
   a repeated begin, the fallback after a failure.

What is hard here: workers that are overtaken, lose their lease or die between
two transactions; duplicate and late messages; results for a snapshot the room
has left behind; web operations that read a room and later overwrite it; two
retry budgets (attempts and receives) that do not know of each other; clocks
read before a row lock is obtained. `PROJECT.json` lists every hazard at its line.

What makes each part correct: the queue - fencing, bounded retry, finality; the
dispatch outbox - a row is closed only after its message was sent, and every row
is sent; the pipeline - acknowledgements follow commits, a result is applied
once and only to the snapshot it was made for, rounds are told once and in
order; the rooms - a legal sequence of statuses, points and sparks applied once;
sessions - no session outlives its room, a code works once, authority is current
when it is used; web requests - a retry has the effect of one request, restarts
included; the storyteller - the story has exactly the rounds that were counted and
leaves out no player, whatever the model answers; support - a caller known to the
limiter is let through at most twice its limit in a window's length, whatever others do
(at capacity a new one is refused), no labelled secret is kept, a draft once shown stays.

## 2. Modules

| Module | Models | State and actions |
|---|---|---|
| `StoryJobQueue` | `PostgresStoryJobQueue` | `jobs` is the table, `grants` the tokens issued. One action per transaction: `Enqueue`, `Claim` (= `Grant` or `DeadLetterExpired`), `Complete`, `Fail`; `Elapse` is time, `RunOnce` what the local runner claims. |
| `StoryJobQueueProofs` | | theorems about `StoryJobQueue` for TLAPS |
| `SignalDelivery` | what the dispatch outbox promises | abstract: open, send (any number of times), close after a send |
| `StoryJobDispatchProofs` | | theorems about `StoryJobDispatch` for TLAPS, the refinement included |
| `StoryJobDispatch` | `PostgresStoryJobDispatchOutbox`, `StoryJobPublisher` | `outbox` rows and `publisher` processes: `Insert`, `ClaimOne`, `Send`, `SendFails`, `MarkDispatched`, `Release`, `Crash`, `Elapse` |
| `Chronicle` | what a game promises its players, whichever mode resolves its rounds | abstract: ask, tell, give up, fallback, finish, delete |
| `StoryPipeline` | the whole path of section 1, with one room | `jobs`, `grants` through an instance of `StoryJobQueue`; `room`, `web`, `work`, `inbox`, `outbox`, `sqs`, `worker`. One action per transaction or remote call of a worker; one per web operation; SQS timeouts and redrive |
| `StoryPipelineProofs` | | theorems about `StoryPipeline` for TLAPS, the refinements of `Chronicle` and of `StoryJobQueue` included; uses those of `StoryJobQueueProofs` through an instance |
| `GameRules` | `application/rules.py` | operators: grades, sparks, target, Python's rounded percentage, endings |
| `Score` | what the score of a game promises | abstract: start, tell a round, finish early |
| `RoomGame` | `RoomService` and `apply_story_result`, from creation to ending | one action per operation: `GenerateWorld`/`GenerationEnds` (two saves around the model's answer), `ConfirmWorld`, `JoinRoom`, `UpdateCharacter`, `StartGame`, `SubmitAction`, `RollRound`, `DecideSpark`, `ResolveRound`, `BeginRoundResolution`, `CommitResult`, `FallbackRound`, `FinishGame` |
| `RoomGameProofs` | | theorems about `RoomGame` for TLAPS |
| `SerialRoom` | what a room promises those who send it requests | abstract: a request is made, takes effect at one moment or never; a room that is over is removed |
| `RoomSessions` | sessions, transfer codes, dates and retention in `RoomService`; `MemoryIdempotencyStore`; get/save/mutate of `PostgresRoomRepository` | `room` (dates, version, session tokens, codes), `records`, `request`, `held` cookies. A request: `AskSomething`, `Arrive` (authorised on the room as it is then), `Replay`, `Refuse`, `Transact`, `Read`/`SaveRoom`, `Deliver` or `Lose`; `Restart`, `Retention`, `Elapse` |
| `RoomSessionsProofs` | | theorems about `RoomSessions` for TLAPS, the refinement of `SerialRoom` included |
| `Storyteller` | `BedrockStoryteller` and the operations of `RoomService` that call it, from the start of a game | `room`, the open `call` with the operation's copy of the room, `reply`: `Play`, `ResolveRound`, `FallbackRound`, `FinishGame`; the model's answer is `Narrated`, `AskAgain`, `RoundFails`, `EndingTold` or `EndingFails`; `Crash` |
| `StorytellerProofs` | | theorems about `Storyteller` for TLAPS, the refinement of `Chronicle` included |
| `RateLimiter` | `FixedWindowRateLimiter` | `entries` by caller; `Admit`, `Deny`, `LimiterElapse`; `admitted` is history |
| `Support` | the draft route, the draft path of `SupportAgent`, `PostgresSupportReportRepository`; extends `RateLimiter` | `reports` (the table), `refused`, `answered`: `TooMany`, `RefuseText`, `Draft`, `FailDraft`; redaction, fields and keys are operators, folds over the words and lines of a text |
| `SupportProofs` | | theorems about `RateLimiter` and `Support` for TLAPS |
| `Recursions` | | lemmas of induction, about sums over finite sets and folds over sequences |
| `MC*` | | instances for TLC: symmetry sets, answers of the model, texts, and cfg files |

Conventions of the models:

- *Time.* A lease is the time it has left. `Elapse` decreases it for one row at a
  time: rows are independent, so relative timing between them is left open. In
  the queue and the dispatch outbox a caller's clock reading may be up to
  `ClockLag` old when it gets the row, because the code reads the clock first.
- *Rejected calls* change nothing and are stuttering steps, except in a worker
  or publisher process, where an exception ends the process: that is the action
  `Exit` of the pipeline, or the losing branch of `MarkDispatched` and `Release`.
- *The web process* executes one operation at a time (the lock in
  `MemoryIdempotencyStore.execute`). Operations written as get ... save take two
  steps, `WebRead` and their own, with worker commits possible in between;
  `begin_resolution`, transfers and deletion are one locked transaction each.
- *Data.* Narrations are model values, a failure result is `"failure"`; entries
  keep which round was told by which job. In the pipeline, reaching the goal after
  a round is a free choice; points and sparks are in `RoomGame`.
- *Two views of a room.* `StoryPipeline` has the version of a room, the read and the
  save of an operation as separate steps, transfers and deletion. `RoomGame` has the
  players, dice, sparks and points, and one step per operation: an operation
  compares the version its caller has seen, so an accepted one acts on the room as
  it is. That this holds across lost answers, restarts and reads before the lock is shown
  in `RoomSessions`, which has what the operations do to sessions, dates and the version
  only. `generate_world` alone saves twice with a call of the model in between,
  and the web process may die there. Dice of earlier rounds are not kept.
- *Requests.* In `RoomSessions` a request carries what the browser knew when it was made:
  token, version, code. A token is the pair of the key it was derived from and of the
  process whose secret derived it; two processes never derive the same. Statuses are the
  three that the dates and the joins depend on.
- *Texts.* In `Storyteller` and `Support` a text is a sequence of words. A mark that ends a
  sentence, a line end, each kind of secret's label and the opening scene are words of
  their own; lengths count words. `Words` is the set texts are made of: what the instance
  needs in a run, any set in the proofs.
- *Percentages.* Python rounds a binary fraction; `points_percent` has its ties to
  even and the one tie that falls short in a game of the deployed sizes (23 of 40).
- *Mutants.* A definition named `X_Something` in front of `X` is a plausible wrong
  version of `X`; no behaviour uses it. Each shows that a property can fail.

## 3. Runs

| Run | Instance | Shows |
|---|---|---|
| `job_queue` | 2 jobs, 2 workers, 3 attempts, lease 2, lag 1, any stale token | fencing, accounting of attempts, finality, leases respected; every enqueued job ends, or comes to the end of the lease of its last attempt |
| `dispatch` | 2 rows, 2 publishers, lease 2, lag 1 | leases exclude each other; the outbox implements `SignalDelivery`; every row is dispatched |
| `pipeline_redelivery` | 1 job, 2 messages with 2 receives each, 2 workers, 2 attempts, 2 rounds | acknowledgements follow commits; queue, receipt, completion row and room agree; a begun job ends or its messages are in the dead-letter queue |
| `pipeline_superseded` | 2 jobs, 2 workers, 2 rounds | the right teller for each round; the room implements `Chronicle` |
| `room_game` | 3 people, 2 or 3 rounds, totals 5, 6, 9, 10 | every history of a room in both resolution modes: status and data agree, rounds are scored once, storyteller and fallback agree, nothing moves between roll and narration; the score implements `Score`. For 3 to 5 players and 4, 6 or 8 rounds, every score has the ending of its exact fraction, but for two that rounding lifts over a threshold; 100 percent is shown at the target only |
| `sessions` | host and one seat, 3 requests of any kind, lifetimes of 2 ticks, 1 restart | a code makes one session; a request acts on the session on record; no session outlives the room; a request takes effect once, across lost answers and a restart; a deleted room stays deleted; the room implements `SerialRoom`: requests take effect one after another, and a completed room keeps its date |
| `storyteller` | 2 players, 3 rounds, the answers of `MCAnswers`, 1 crash | the story has exactly the rounds counted, and an ending if and only if the game is completed; the room implements `Chronicle`; every player is told of in every accepted narrative; cut texts fit; every round before the last ends |
| `support` | 2 players, 8 texts, limit 2, window 2, one place in the limiter | a fixed window lets through twice the limit at most in any stretch of its length, whatever others do; drafts that were shown stay; no labelled secret is kept; conflicts and refusals come from the named layouts only |

Bounds of the rooms: totals lie on both sides of a threshold, so that a spark turns
5 into no better and 6 and 9 into the next grade; two rounds have a round that
continues and one that ends, and the third adds an epilogue after the goal. Larger
sizes change the percentages, which `EndingsByFraction` checks at the deployed sizes;
that no more than five play is part of `StageShape`, proved for any number of people.
A room at rest is `COMPLETED` (action `Rest`), so `room_game` also shows that an
unfinished room always has an operation open to it.

Bounds of the sessions: three requests are an issue and two redeems that race, or a host's
and two players' operations; one seat makes them meet; two ticks let a session, a code and
the room run out or be refreshed before; a code that lasts as long as the room is the
worst case for the sessions it makes. One restart changes the secret and forgets the replies.
Bounds of the storyteller: two players and a stranger make every wrong list of three;
the answers hold one for each way out of the adapter; a limit of three words has marks
before, at and behind it. Bounds of support: one place in the limiter makes two callers
compete, and window 2 in three ticks has a full window on either side of a boundary; the
texts have one for each way through redaction, fields and keys, a label within the value
of another included. For texts of any length the proofs stand in.

Bounds elsewhere: two workers and two messages are what an overtaking needs (one old, one
new holder); two attempts have a first and a last one, and `job_queue` uses the
deployed three; two jobs are a superseded and a current one; two rounds have a
round that continues and one that ends the game. `MaxVersion` bounds the versions
at which the web process acts; it leaves room for one host retry, one transfer and
the fallback in the runs that need them. A symmetric set is never used in a run
with liveness. Deadlock checking is off where a system may come to rest: all
jobs finished, or the bound on versions reached.

Fairness: worker and publisher processes loop forever and are restarted by
systemd, hence weak fairness of their steps; leases and visibility timeouts end.
Crashes are always possible and never fair. `StoryJobDispatch!FairSpec` assumes in
addition that a publisher that keeps trying sometimes sends and marks within its
lease (strong fairness; the SDK's timeouts are far below 30 s, and `LeaseDuration`
exceeds `ClockLag` as it does there). `Storyteller` assumes that a call of the model
ends (it has timeouts of its own), that players act and that a host resolves the round
and, if it fails time and again, uses the fallback one day (strong fairness, since each
new attempt leaves `RESOLUTION_FAILED`); it assumes nothing of what the model answers.
`StoryJobQueue!FairSpec` assumes of claims that one is made as long as a job is offered
(`RunOnce`): the local runner takes one job per start (`tier2-async-flow.md:38`), and is
started again while there is one. It assumes no claim of a job that is not offered. SQS
promises less, since refused receives count; there `StoryPipeline` counts receives, and
assumes none beyond them.
Elsewhere nothing is assumed of players and hosts.

### Runs that show a divergence

| Run | What the code does | What the documentation says |
|---|---|---|
| `receipt_dead_lettered` | worker dies after the commit of its last attempt: the next claim dead-letters the job | `tier2-story-resolution.md:27`: a new claim completes it from the receipt |
| `transfer_drops_narration` | a transfer during `RESOLVING` makes the narration in flight stale; the room waits for the host | `tier2-async-flow.md:15`: after success all players see the new narration |
| `expired_room_joined` | `join_room` and `join_room_by_code` do not look at the room's date: a lobby that is over, and not yet removed, is joined and lives on | `session-lifecycle-and-transfer.md:69`: after the date reads and mutations are refused |
| `fallback_needs_model` | the fallback of the last round asks the model for the ending; if that fails the operation fails and nothing is saved | `text-rpg-mvp-spec.md:459`: the fallback submits the round by a template |

None of them corrupts a room; they leave rows or a room waiting, or a room alive.

Met while modelling, each visible in a behaviour of the models, but without a run of its own:

- a worker that dies after `complete` never writes the completion marker: the job cannot be
  claimed again (`story_resolution.py:197`; nothing reads the marker);
- a job whose lease ends after its last attempt becomes a dead letter only if somebody claims
  it once more, and nobody may: `next_available_job_id` (`postgres_story_job_queue.py:104`)
  never offers it to the local runner, and SQS, which delivers three times for three attempts
  (`tier2-worker-foundation.yaml:203`), puts the message aside after the third. If a worker
  dies in each, the job stays claimed for ever, where `tier2-story-jobs.md:42` says it becomes
  terminal. `AttemptsAreMade` names this end beside the two others, and `JobSettles` the
  dead-letter queue beside the end of the job. Receives that are refused leave attempts unused
  in the same way. The room waits in `RESOLVING`, where the host may begin the round again;
- the rounded percentages decide an ending (`rules.py:31`, `story_resolution.py:80`,
  `room_service.py:1189`), while `text-rpg-mvp-spec.md:321` rounds for display and keeps the
  points: with 3 players and 8 rounds 25 of 42 points, 59.52 percent, are told as a partial
  success (60 percent), and with 4 players 39 of 56, 69.64 percent of danger, as the major cost
  (70). These two are the only scores of the deployed sizes at which an ending differs from the
  exact fraction's, as `EndingsByFraction` (`RoundedUp`) states and proves; `Score` has the rounding;
- actions made public by the roll are hidden again in `RESOLUTION_FAILED`
  (`serialization.py:70`, against `text-rpg-mvp-spec.md:253`);
- `roll_round` needs the action of every player, so an absent one stops the game
  (`task-list.md:62`, `text-rpg-mvp-spec.md:206` let the host continue);
- a problem told in the words of an earlier report but on other lines has its key and not
  its fields, hence a conflict (`support_agent.py:214`; `support-agent-persistence.md:20`
  promises the same draft): `RefusalsExplained` says there is no other way into one;
- a report without a summary whose text has a cookie on a line before the last is refused
  (`support_agent.py:344`): `RefusalsExplained` again;
- a text whose mark follows directly behind the limit is one character longer than the
  limit after the cut (`bedrock_storyteller.py:787`): `Storyteller!TypeOK` has the exact bound.

None of these corrupts a room; they leave rows or a room waiting, or tell two scores a better
result or a higher cost than the specification does.

## 4. Proofs

`StoryJobQueueProofs` proves, for any sets of jobs, workers and results, any number
of attempts, lease and clock lag (`QueueAssumption`), that every behaviour of
`StoryJobQueue!Spec` satisfies `TypeOK`, `StateShape`, `HolderIsLatest`,
`AttemptsAccounted`, `DeadLetterIsExhausted` and the action properties
`TerminalIsFinal` and `LeaseRespected`. `HolderIsLatest` is not inductive alone:
that a new claim's number exceeds all earlier ones needs the accounting of
attempts, and that a pending row may be granted without exceeding the limit needs
`AttemptsLeft` (a pending job has attempts left, an absent one has made none). The
invariant `IInv` is the conjunction; the proof has one step per operation. The
action properties follow from the definitions of the operations and `IInv`.

`RoomGameProofs` proves, for any set of people and lengths of game from 2 to 20 rounds and
any totals between 2 and 14 (`RoomAssumption`, `LengthAssumption`), that every behaviour of
`RoomGame!Spec` satisfies `TypeOK`, `StageShape`, `SparksCovered`, `FallbackAgrees`,
`SetupStands`, `GenerationBudget`, `SecretUntilRolled`, `EndingsByFraction` and the action
property `RoundLocked`, and implements `Score!Spec` (`ScoreKept`). Its invariant `RInv`
joins the types without the points, `StageShape`, `SparksCovered` and `SetupStands` with
`Counted` (a call of the model was counted first) and `NoLeftovers` (a game at its goal or
its end has no action waiting). The argument turns on `Settled`: dice that are complete,
decided, graded and paid for. `DeclinedSettles` shows that skipping the undecided settles
the dice, `ContinueStep` that any narration of settled dice gives a legal room; so
synchronous mode, worker and fallback need one proof. `SameTold` shows that the
fallback's second copy of the rules computes the same record, its cap by a minimum
included.

The score rests on a second invariant, `Points`: the points are naturals, the length was
chosen by the host, an end that is offered was earned. `Earned` sums the dice: whoever
plays, a settled round adds two points per player to progress and danger together.
`Rounded` and `DecidedByNearest` show that Python's percentages, the tie that falls short
included, cross the thresholds of an ending where rounding to the nearest percent does:
this is what `ScoreKept` needs, since `Score` has that rounding. For 100 percent to mean the
target a length must not exceed 20: with a longer game the largest group would be shown 100
percent one point before its goal. The code allows 4, 6 and 8 rounds; `DecidedByFraction`
compares the nearest percent with the exact fraction at their targets, and finds the two
scores of `RoundedUp`.

`RoomSessionsProofs` proves, for any seats, requests, lifetimes, clock and number of
restarts (`SessionsAssumption`), `TypeOK`, `CodeWorksOnce`, `SessionsEndWithRoom`,
`OnceAcrossRestarts`, `DeletedIsGone` and the action properties `AuthorityCurrent` and
`EndingKeepsItsDate`. None is inductive alone, because `SaveRoom` writes a copy that was
read earlier and may bring a row back that retention removed. `Sound` therefore says what
is true of a *room that may still be saved*: its sessions end with it, its codes were
issued by requests that took effect and belong to one seat, codes that were redeemed are
consumed, every request that took effect shows (in the version, or in the nickname that
is taken), and a waiting request was let in on the session on record unless the version
moved. The invariant `SInv` says that the row and the copy of the one operation under
way are both sound. `SoundWhenQuiet` covers the steps that change neither room nor
history, `SoundAfterEffect` those that do, by way of `AfterMoved`, which states once
what an operation does to dates, version and codes. The lock gives `OneHolder`, without
which a transaction could pass a copy by; the version check and the joined nickname give
`FirstTime`: an accepted request has never taken effect before.

From `SInv` it also proves that `RoomSessions!Spec` implements `SerialRoom!Spec`
(`ServedOneAtATimeHolds`): what is a wait for the lock, a read and a save is one moment, at
which the request is current and its caller has authority; it moves no date back, leaves no
session that outlives the room, gives no seat but its own to a new session, and is never
repeated.
The room of `SerialRoom` is the copy held by the operation under way, if there is one, and
the row otherwise. A save may so bring back a row that retention removed: there the room was
never removed. If a restart takes the copy instead, the room is removed then, and
`GoneIsOver` says that its date has passed. `EffectPerforms` is the step of an effect, for a
transaction and for a save alike.

`StorytellerProofs` proves, for any words, players of a round, answers of the model, limit
of a narrative, number of rounds and crashes (`StorytellerAssumption`: at most five players,
and what an answer says of a player, if it says anything, has him in it; `NoneAssumption`),
`TypeOK`, `StoryMatchesRounds` and `EveryPlayerTold`, and that every behaviour implements
`Chronicle!Spec` (`StorytellerImplementsChronicle`; `CallAssumption`: NULL is no call). The
refinement reads the phase off the status and the open call: a round whose dice are being
decided or that the model is asked for is being resolved, and one that failed and is asked
for again is no longer open to the fallback. What was told is the story without its
epilogue. `StepRefines` has a step per operation: a call that fails, is cut off or dies
with the process while an ending is told leaves the round untold. So both modes keep one
promise, each by its own means. The invariant `Kept` is needed because
an operation works on a copy of the room: a call that waits for a round has the room as it
is stored, one that waits for an ending has a room that lacks nothing but the ending
(`Ends`). The texts are the other half: `Composed` cuts the narrative at a mark and appends
what it says of each player, so that a cut can take words of the narrative but no player,
and exceeds the limit by one at most, where a mark follows the cut.

`SupportProofs` proves, for any callers, limit, window, capacity and clock
(`LimiterAssumption`), `LimiterTypeOK` and `AdmittedBound`. Entries are dropped and made
again, so the table alone does not say what was let through; the invariant `Windows` says
that each caller's calls fall into windows that do not meet, hold at most the limit each,
and of which the entry is the last. A stretch as long as a window meets two of them at most.
`SupportLimited` carries both over to the routes: each of their steps is one of the
limiter's or leaves it alone.

For the drafts it proves `AnsweredDraftsKept`, `NoSecretKept` and `RefusalsExplained`, for
any set of texts (`TextsAssumption`): sequences of words, not empty, in which each secret
stands behind a label. Which word is behind which label is said by positions in the text
(`BehindCookie`, `BehindWord`, `HasLabel`) and not by redaction; a label that is part
of another's value counts for none. `RedactingGoesOn` is the induction over the words of a
text: where a label that counts is near, its pattern is at work, and no secret has passed.
`WordsCovered`, `NormalizedPlain`, `LinesParts`, `FieldsParts` and `PartsPlain` show that
what redaction leaves, cut into lines, read into fields and joined on one line again, gives
a second redaction nothing to do, unless a cookie stands before a line end: the one way in
which validation refuses a text without an instruction. The inductive invariant
`Origins` says that every row is the draft of an accepted text under its key, so a conflict
means another text of the same words.

`Recursions` has what these proofs need of recursion: induction over the natural numbers,
finite sets and sequences (`InductionOnNat`, `InductionOnSet`, `InductionOnSeq`), stated for
a *set* of numbers, sets or sequences, since a set can be named in a proof where an
operator cannot; sums over finite sets; and that a fold over a sequence has a state for
each prefix (`SomeFold`). All of it rests on the library's well-founded induction and its
facts about finite sets and sequences.

`StoryJobDispatchProofs` proves, for any jobs, publishers and leases
(`DispatchAssumption`), `TypeOK`, `OneLeaseHolder`, `LeaseRespected`, and that
`StoryJobDispatch!Spec` implements `SignalDelivery!Spec`. `DInv` adds to the types
`AtWork` (a process at work has an inserted row and a token, and has sent what it will
mark) and `OwnTokens`; the refinement maps each row to its signal, and each step to
one of the signal or to a stutter. A fresh token is an assumption of the model
(tokens are random), not of the proofs.

`StoryPipelineProofs` proves, for any jobs, workers, attempts, leases, copies and
redeliveries of a message, length of game and bound on versions
(`PipelineAssumption`, and `NoneAssumption`: NULL is no value), that every behaviour of
`StoryPipeline!Spec` satisfies `TypeOK`, `AcksFollowCommit`, `CompletionAgrees`,
`ReceiptMatchesRoom` and `TellerJustified`, and implements `Chronicle!Spec`. The job rows
are those of `StoryJobQueue` with completions as results, so the lemmas of
`StoryJobQueueProofs` are cited through an instance, not proved again; `JobMoves` is
what the pipeline needs to know of them. The invariant `IInv` adds

- `Knows`: what a process remembers from an earlier transaction is still true of the
  tables. The point is its fifth part: a process about to complete a job either holds the
  claim, and then the completion row waits for its token, or has lost the claim for good,
  because tokens only grow. This is what makes the acknowledgements follow the commit
  through lost leases and second workers;
- `WebCurrent`: what a web operation read is still the room when it saves. The operations
  refuse a room that is being resolved, a commit changes no other room, and operations
  exclude each other; without any one of the three an upsert could undo a narration;
- `WorkFollows` (no job is ahead of the room, so the one whose version fits was begun
  last), `RoomShape` (as many narrations as rounds lie behind), `ToldOnce`,
  `FailureReceipted` (a failed round has the receipt that says so), `BoxesAgree` and
  `DeletedMarked`.

The refinement reads off each room what `Chronicle` sees; only the host's request, a
commit, the fallback, finishing and deleting are steps of it, all else is a stutter.

`PipelineImplementsQueue` states the other refinement: the job rows of every behaviour of the
pipeline are those of a behaviour of `StoryJobQueue!Spec`; what the pipeline's processes do
between their calls of the queue is a stutter there (`CallsQueue`). With `SameQueue`, what is
proved of the queue alone holds of it in the pipeline without another proof
(`PipelineJobsFenced`: fencing, the accounting of attempts, dead letters, finality, leases).

`StateShape`, `DeadLetterIsExhausted` (queue), `RoomSessions!TypeOK`, `EndingKeepsItsDate`,
`LimiterTypeOK`, the types of the pipeline and the types and leases of the dispatch outbox are
stated by theorems for every
instance, and are not repeated in the runs.

Model-checked only: liveness, since TLAPS does not treat fairness here: `AttemptsAreMade`,
`EveryRowDispatched`, `JobSettles` and `RoundEnds`. Every other property that a passing run
checks is stated by a theorem. The four divergences of section 3 are counterexamples of
TLC.

## 5. Not modelled, and the plan

Left out for good: prompts and wording, the tool that tells the last round and its ending in
one answer (its checks are those of the two tools it joins), drafts of worlds, the lookup
of rules and incident reports (stateless functions), presentation in the web client,
declarative infrastructure, the in-memory doubles of the stores. They have no state of
interest. The polling client may send what `RoomSessions` and `RoomGame` let anybody send.

Planned, in this order:

1. Mode transition and deployment scripts with failing steps (`ops/release`), and the switch
   from the asynchronous to the synchronous mode with a job in flight, which needs the
   pipeline and `Storyteller` in one model.
2. Migrations with concurrent runners.
