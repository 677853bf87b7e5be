------------------------ MODULE StoryPipelineProofs ------------------------
(***************************************************************************)
(* Safety of the asynchronous resolution for any number of jobs, workers,  *)
(* copies and redeliveries, and any length of game.  The facts about the   *)
(* job rows are those proved of StoryJobQueue.                             *)
(***************************************************************************)
EXTENDS StoryPipeline, SequenceTheorems, FiniteSetTheorems, TLAPS

QP == INSTANCE StoryJobQueueProofs WITH Results <- Completions

\* A room is told as many rounds as lie behind it: one less than its current
\* round, or all of them once the last one ended the game.
RoomShape(r) ==
  /\ r.status = "RESOLVING" => r.version <= MaxVersion
  /\ r.status = "COMPLETION_AVAILABLE" => r.round > 1
  /\ \/ Len(r.entries) = r.round - 1
     \/ r.status = "COMPLETED" /\ Len(r.entries) = r.round

RoomsShaped == room # None => RoomShape(room)

\* What a web operation read is still the room when it saves: a room in a status
\* such an operation accepts is changed by the web process alone.
WebCurrent == web # None => web = room /\ web.status # "RESOLVING" /\ web.version < MaxVersion

\* Work is created with its job, for a version the room has reached.
WorkFollows ==
  \A j \in Jobs :
    /\ jobs[j].status # "absent" => work[j] # None
    /\ (work[j] # None /\ room # None) => work[j].version <= room.version

\* The receipt and the completion row appear together, for a job that exists; a
\* dispatched completion and a completed job agree with them.
BoxesAgree ==
  \A j \in Jobs :
    /\ inbox[j] = None <=> outbox[j] = None
    /\ inbox[j] # None => jobs[j].status # "absent"
    /\ (outbox[j] # None /\ outbox[j].dispatched) => jobs[j].status = "completed"
    /\ jobs[j].status = "completed" =>
         /\ inbox[j] # None
         /\ jobs[j].result = Completion(inbox[j])
         /\ outbox[j].token = jobs[j].ownership_token

DeletedMarked ==
  \A m \in Messages :
    sqs[m].state = "deleted" => outbox[m[1]] # None /\ outbox[m[1]].dispatched

\* What a worker process remembers stays true of the tables, except who holds
\* the claim: its token was issued, the receipt it completes is the stored one,
\* and while it holds the claim the completion row waits for its token.
Knows(p, rows, issued, receipts, completions) ==
  LET j == p.msg[1] IN
  /\ p.pc # "idle" => p.msg \in Messages
  /\ p.pc \notin {"idle", "received"} => p.token \in 1..issued
  /\ p.pc = "narrated" => p.tale \in Narrations
  /\ p.pc \in {"committed", "completed", "marked"} =>
       /\ receipts[j] # None
       /\ p.completion = Completion(receipts[j])
  /\ (/\ p.pc = "committed"
      /\ rows[j].status = "claimed"
      /\ rows[j].ownership_token = p.token) => completions[j].token = p.token
  /\ p.pc \in {"completed", "marked"} => rows[j].status = "completed"
  /\ p.pc = "marked" => completions[j].dispatched

WorkersKnow == \A w \in Workers : Knows(worker[w], jobs, Len(grants), inbox, outbox)

Applied(j) == inbox[j] # None /\ inbox[j].outcome = "APPLIED"

\* ReceiptMatchesRoom without cardinalities.
ToldOnce ==
  room # None => \A j \in Jobs :
    /\ Applied(j) <=> \E i \in DOMAIN room.entries : room.entries[i].teller = j
    /\ \A i, k \in DOMAIN room.entries :
         (room.entries[i].teller = j /\ room.entries[k].teller = j) => i = k

\* The fallback is offered only for a round whose storyteller failed.
FailureReceipted ==
  (room # None /\ room.status = "RESOLUTION_FAILED") =>
     \E j \in Jobs : /\ work[j] # None
                     /\ work[j].round = room.round
                     /\ inbox[j] # None
                     /\ inbox[j].outcome = "FAILED"

\* The inductive invariant.
IInv ==
  /\ TypeOK
  /\ QP!IInv
  /\ RoomsShaped
  /\ WebCurrent
  /\ WorkFollows
  /\ BoxesAgree
  /\ DeletedMarked
  /\ WorkersKnow
  /\ ToldOnce
  /\ FailureReceipted
  /\ TellerJustified

-----------------------------------------------------------------------------
(* The job rows. *)

LEMMA QueueConstants == QP!QueueAssumption
  BY PipelineAssumption, NoneAssumption DEF QP!QueueAssumption

LEMMA QueueTypes ==
  /\ Queue!TypeOK <=> QP!TypeOK
  /\ QP!TypeOK => /\ jobs \in [Jobs -> QP!Row]
                  /\ grants \in Seq(QP!Grants)
                  /\ Len(grants) \in Nat
  BY DEF Queue!TypeOK, QP!TypeOK, Queue!Row, QP!Row, Queue!Grants, QP!Grants

\* A step that changes the row of one job that exists, without completing it: a
\* claim it grants carries a token newer than any issued before.
JobMoves(j) ==
  /\ \A i \in Jobs \ {j} : jobs'[i] = jobs[i]
  /\ jobs[j].status \notin {"absent", "completed"}
  /\ jobs'[j].status \notin {"absent", "completed"}
  /\ Len(grants') >= Len(grants)
  /\ jobs'[j].status = "claimed" =>
       \/ jobs[j].status = "claimed" /\ jobs'[j].ownership_token = jobs[j].ownership_token
       \/ jobs'[j].ownership_token > Len(grants)

LEMMA EnqueueJob ==
  ASSUME IInv, NEW j \in Jobs, Queue!Enqueue(j)
  PROVE  /\ QP!IInv'
         /\ \A i \in Jobs \ {j} : jobs'[i] = jobs[i]
         /\ jobs[j].status = "absent"
         /\ jobs'[j].status = "pending"
         /\ grants' = grants
  <1>1. QP!Enqueue(j)
    BY DEF Queue!Enqueue, QP!Enqueue, Queue!PendingRow, QP!PendingRow, Queue!RowOf, QP!RowOf
  <1>2. QP!IInv'
    BY <1>1, QueueConstants, QP!EnqueueStep DEF IInv
  <1>3. jobs \in [Jobs -> QP!Row]
    BY QueueTypes DEF IInv, TypeOK
  <1> QED
    BY <1>2, <1>3 DEF Queue!Enqueue, Queue!PendingRow, Queue!RowOf

LEMMA GrantJob ==
  ASSUME IInv, NEW j \in Jobs, NEW w \in Workers, Queue!Grant(j, w, 0)
  PROVE  /\ QP!IInv'
         /\ JobMoves(j)
         /\ Queue!NextToken = Len(grants) + 1
         /\ Len(grants') = Len(grants) + 1
         /\ Len(grants) \in Nat
  <1>1. QP!Grant(j, w, 0)
    BY DEF Queue!Grant, QP!Grant, Queue!Claimable, QP!Claimable, Queue!LeaseActive,
           QP!LeaseActive, Queue!Exhausted, QP!Exhausted, Queue!ClaimedRow, QP!ClaimedRow,
           Queue!RowOf, QP!RowOf, Queue!NextToken, QP!NextToken
  <1>2. 0 \in QP!Lags
    BY PipelineAssumption DEF QP!Lags
  <1>3. QP!IInv'
    BY <1>1, <1>2, QueueConstants, QP!GrantStep DEF IInv
  <1>4. jobs \in [Jobs -> QP!Row] /\ grants \in Seq(QP!Grants) /\ Len(grants) \in Nat
    BY QueueTypes DEF IInv, TypeOK
  <1>5. /\ jobs'[j].status = "claimed"
        /\ jobs'[j].ownership_token = Len(grants) + 1
        /\ jobs[j].status \in {"pending", "claimed"}
        /\ \A i \in Jobs \ {j} : jobs'[i] = jobs[i]
    BY <1>4 DEF Queue!Grant, Queue!Claimable, Queue!ClaimedRow, Queue!RowOf, Queue!NextToken
  <1>6. Len(grants') = Len(grants) + 1
    BY <1>4 DEF Queue!Grant
  <1>7. JobMoves(j)
    BY <1>4, <1>5, <1>6 DEF JobMoves
  <1> QED
    BY <1>3, <1>4, <1>6, <1>7 DEF Queue!NextToken

LEMMA DeadLetterJob ==
  ASSUME IInv, NEW j \in Jobs, Queue!DeadLetterExpired(j, 0)
  PROVE  QP!IInv' /\ JobMoves(j) /\ grants' = grants
  <1>1. QP!DeadLetterExpired(j, 0)
    BY DEF Queue!DeadLetterExpired, QP!DeadLetterExpired, Queue!LeaseActive, QP!LeaseActive,
           Queue!Exhausted, QP!Exhausted, Queue!DeadLetteredRow, QP!DeadLetteredRow,
           Queue!RowOf, QP!RowOf
  <1>2. 0 \in QP!Lags
    BY PipelineAssumption DEF QP!Lags
  <1>3. QP!IInv'
    BY <1>1, <1>2, QueueConstants, QP!DeadLetterExpiredStep DEF IInv
  <1>4. jobs \in [Jobs -> QP!Row] /\ Len(grants) \in Nat
    BY QueueTypes DEF IInv, TypeOK
  <1> QED
    BY <1>3, <1>4 DEF JobMoves, Queue!DeadLetterExpired, Queue!DeadLetteredRow, Queue!RowOf

LEMMA FailJob ==
  ASSUME IInv, NEW j \in Jobs, NEW token \in 1..Len(grants), Queue!Fail(j, token, 0)
  PROVE  QP!IInv' /\ JobMoves(j) /\ grants' = grants
  <1>1. QP!Fail(j, token, 0)
    BY DEF Queue!Fail, QP!Fail, Queue!HoldsClaim, QP!HoldsClaim, Queue!LeaseActive,
           QP!LeaseActive, Queue!Exhausted, QP!Exhausted, Queue!DeadLetteredRow,
           QP!DeadLetteredRow, Queue!PendingRow, QP!PendingRow, Queue!RowOf, QP!RowOf
  <1>2. 0 \in QP!Lags
    BY PipelineAssumption DEF QP!Lags
  <1>3. QP!IInv'
    BY <1>1, <1>2, QueueConstants, QP!FailStep DEF IInv
  <1>4. jobs \in [Jobs -> QP!Row] /\ Len(grants) \in Nat
    BY QueueTypes DEF IInv, TypeOK
  <1>5. jobs'[j].status \in {"dead-lettered", "pending"} /\ jobs[j].status = "claimed"
    BY <1>4 DEF Queue!Fail, Queue!HoldsClaim, Queue!DeadLetteredRow, Queue!PendingRow, Queue!RowOf
  <1> QED
    BY <1>3, <1>4, <1>5 DEF JobMoves, Queue!Fail

LEMMA ElapseJob ==
  ASSUME IInv, NEW j \in Jobs, Queue!Elapse(j)
  PROVE  QP!IInv' /\ JobMoves(j) /\ grants' = grants
  <1>1. QP!Elapse(j)
    BY DEF Queue!Elapse, QP!Elapse
  <1>2. QP!IInv'
    BY <1>1, QueueConstants, QP!ElapseStep DEF IInv
  <1>3. jobs \in [Jobs -> QP!Row] /\ Len(grants) \in Nat
    BY QueueTypes DEF IInv, TypeOK
  <1>4. jobs[j].status = "claimed" /\ jobs'[j] = [jobs[j] EXCEPT !.lease = @ - 1]
    BY <1>3 DEF Queue!Elapse
  <1>5. /\ jobs'[j].status = "claimed"
        /\ jobs'[j].ownership_token = jobs[j].ownership_token
    BY <1>3, <1>4 DEF QP!Row
  <1> QED
    BY <1>2, <1>3, <1>4, <1>5 DEF JobMoves, Queue!Elapse

LEMMA CompleteQueueJob ==
  ASSUME IInv, NEW j \in Jobs, NEW token \in 1..Len(grants), NEW c \in Completions,
         Queue!Complete(j, token, c, 0)
  PROVE  /\ QP!IInv'
         /\ \A i \in Jobs \ {j} : jobs'[i] = jobs[i]
         /\ jobs[j].status = "claimed"
         /\ jobs[j].ownership_token = token
         /\ jobs'[j].status = "completed"
         /\ jobs'[j].ownership_token = token
         /\ jobs'[j].result = c
         /\ grants' = grants
  <1>1. QP!Complete(j, token, c, 0)
    BY DEF Queue!Complete, QP!Complete, Queue!HoldsClaim, QP!HoldsClaim, Queue!LeaseActive,
           QP!LeaseActive, Queue!CompletedRow, QP!CompletedRow, Queue!RowOf, QP!RowOf
  <1>2. 0 \in QP!Lags
    BY PipelineAssumption DEF QP!Lags
  <1>3. QP!IInv'
    BY <1>1, <1>2, QueueConstants, QP!CompleteStep DEF IInv
  <1>4. jobs \in [Jobs -> QP!Row]
    BY QueueTypes DEF IInv, TypeOK
  <1> QED
    BY <1>3, <1>4 DEF Queue!Complete, Queue!HoldsClaim, Queue!CompletedRow, Queue!RowOf

-----------------------------------------------------------------------------
(* The tables and the processes. *)

Entries == [round : Rounds, teller : Jobs \cup {"fallback"}]

LEMMA TypeParts ==
  ASSUME TypeOK
  PROVE  /\ work \in [Jobs -> [round : Rounds, version : Versions] \cup {None}]
         /\ room \in Room \cup {None}
         /\ web \in Room \cup {None}
         /\ inbox \in [Jobs -> Receipts \cup {None}]
         /\ outbox \in [Jobs -> [token : Nat, dispatched : BOOLEAN] \cup {None}]
         /\ sqs \in [Messages -> [state : {"unused", "visible", "inflight", "deleted", "dlq"},
                                  receives : 0..MaxReceives]]
         /\ worker \in [Workers -> Process]
  BY DEF TypeOK

LEMMA MessageJob ==
  ASSUME NEW m \in Messages
  PROVE  m[1] \in Jobs
  BY DEF Messages

LEMMA IdleProcess ==
  /\ Idle \in Process
  /\ \A rows, issued, receipts, completions : Knows(Idle, rows, issued, receipts, completions)
  <1>1. 0 \in 0..MaxReceives
    BY PipelineAssumption
  <1> QED
    BY <1>1 DEF Idle, Process, Knows

\* A completion is what the receipt says.
LEMMA CompletionType ==
  ASSUME NEW r \in Receipts
  PROVE  Completion(r) \in Completions
  BY DEF Receipts, Completions, Completion

\* A step of process w alone: the others still know what they knew.
LEMMA OneProcess ==
  ASSUME IInv, NEW w \in Workers, NEW new \in Process,
         worker' = [worker EXCEPT ![w] = new],
         \A p \in Process : Knows(p, jobs, Len(grants), inbox, outbox)
                              => Knows(p, jobs', Len(grants'), inbox', outbox'),
         Knows(new, jobs', Len(grants'), inbox', outbox')
  PROVE  WorkersKnow' /\ worker' \in [Workers -> Process]
  <1>1. worker \in [Workers -> Process]
    BY DEF IInv, TypeOK
  <1> QED
    BY <1>1 DEF IInv, WorkersKnow

LEMMA NoProcess ==
  ASSUME IInv, worker' = worker,
         \A p \in Process : Knows(p, jobs, Len(grants), inbox, outbox)
                              => Knows(p, jobs', Len(grants'), inbox', outbox')
  PROVE  WorkersKnow' /\ worker' \in [Workers -> Process]
  <1>1. worker \in [Workers -> Process]
    BY DEF IInv, TypeOK
  <1> QED
    BY <1>1 DEF IInv, WorkersKnow

\* What a move of one job's row leaves true.
LEMMA MoveKeeps ==
  ASSUME IInv, NEW j \in Jobs, JobMoves(j), UNCHANGED <<work, room, inbox, outbox>>
  PROVE  /\ WorkFollows'
         /\ BoxesAgree'
         /\ \A p \in Process : Knows(p, jobs, Len(grants), inbox, outbox)
                                 => Knows(p, jobs', Len(grants'), inbox', outbox')
  <1>1. WorkFollows'
    BY DEF IInv, WorkFollows, JobMoves
  <1>2. BoxesAgree'
    BY DEF IInv, BoxesAgree, JobMoves
  <1>3. ASSUME NEW p \in Process, Knows(p, jobs, Len(grants), inbox, outbox)
        PROVE  Knows(p, jobs', Len(grants'), inbox', outbox')
    <2>1. Len(grants) \in Nat
      BY QueueTypes DEF IInv, TypeOK
    <2>2. Len(grants') \in Nat
      BY <2>1 DEF JobMoves
    <2>3. p.pc # "idle" => p.msg[1] \in Jobs
      BY <1>3, MessageJob DEF Knows
    <2>4. p.token \in 1..Len(grants) => p.token \in 1..Len(grants')
      BY <2>1, <2>2 DEF JobMoves
    <2>5. p.pc \notin {"idle", "received"} => p.token \in 1..Len(grants')
      BY <1>3, <2>4 DEF Knows
    <2>6. (/\ p.pc = "committed"
           /\ jobs'[p.msg[1]].status = "claimed"
           /\ jobs'[p.msg[1]].ownership_token = p.token) => outbox[p.msg[1]].token = p.token
      BY <1>3, <2>1, <2>3 DEF Knows, JobMoves
    <2>7. p.pc \in {"completed", "marked"} => jobs'[p.msg[1]].status = "completed"
      BY <1>3, <2>3 DEF Knows, JobMoves
    <2> QED
      BY <1>3, <2>5, <2>6, <2>7 DEF Knows
  <1> QED
    BY <1>1, <1>2, <1>3

\* A step that changes neither the room nor the receipts leaves what is said of
\* them true.
LEMMA RoomKeeps ==
  ASSUME IInv, UNCHANGED <<room, web, work, inbox>>
  PROVE  RoomsShaped' /\ WebCurrent' /\ ToldOnce' /\ FailureReceipted' /\ TellerJustified'
  BY DEF IInv, RoomsShaped, WebCurrent, ToldOnce, FailureReceipted, TellerJustified, Applied,
         RoomShape

\* Steps that leave the job rows alone.
LEMMA RowsKeep ==
  ASSUME IInv, UNCHANGED <<jobs, grants>>
  PROVE  QP!IInv' /\ Queue!TypeOK'
  <1>1. QP!IInv'
    BY DEF IInv, QP!IInv, QP!TypeOK, QP!AttemptsLeft, QP!StateShape, QP!HolderIsLatest,
           QP!AttemptsAccounted, QP!DeadLetterIsExhausted
  <1>2. Queue!TypeOK'
    BY DEF IInv, TypeOK, Queue!TypeOK
  <1> QED
    BY <1>1, <1>2

LEMMA RowsTyped ==
  ASSUME QP!IInv'
  PROVE  Queue!TypeOK'
  BY DEF QP!IInv, Queue!TypeOK, QP!TypeOK, Queue!Row, QP!Row, Queue!Grants, QP!Grants

LEMMA TypesFromParts ==
  ASSUME Queue!TypeOK',
         work' \in [Jobs -> [round : Rounds, version : Versions] \cup {None}],
         room' \in Room \cup {None},
         web' \in Room \cup {None},
         inbox' \in [Jobs -> Receipts \cup {None}],
         outbox' \in [Jobs -> [token : Nat, dispatched : BOOLEAN] \cup {None}],
         sqs' \in [Messages -> [state : {"unused", "visible", "inflight", "deleted", "dlq"},
                                receives : 0..MaxReceives]],
         worker' \in [Workers -> Process]
  PROVE  TypeOK'
  BY DEF TypeOK

-----------------------------------------------------------------------------
(* Rooms. *)

\* A room with a new status, one version on.
LEMMA BumpedRoom ==
  ASSUME NEW r \in Room, RoomShape(r), r.version <= MaxVersion, NEW status \in Statuses,
         r.status = "COMPLETED" => status = "COMPLETED",
         status = "RESOLVING" => r.version < MaxVersion,
         status = "COMPLETION_AVAILABLE" => r.status = "COMPLETION_AVAILABLE",
         NEW b, b = Bump(r, status)
  PROVE  /\ b \in Room
         /\ RoomShape(b)
         /\ b.version = r.version + 1
         /\ b.round = r.round
         /\ b.status = status
         /\ b.entries = r.entries
  <1>1. r.version + 1 \in Versions /\ r.version \in Nat
    BY PipelineAssumption DEF Room, Versions
  <1>2. /\ b.version = r.version + 1
        /\ b.round = r.round
        /\ b.status = status
        /\ b.entries = r.entries
    BY DEF Bump, Room
  <1>3. b \in Room
    <2>1. [r EXCEPT !.status = status] \in Room
      BY DEF Room
    <2>2. b = [[r EXCEPT !.status = status] EXCEPT !.version = r.version + 1]
      BY DEF Bump, Room
    <2> QED
      BY <1>1, <2>1, <2>2 DEF Room
  <1>4. RoomShape(b)
    BY <1>1, <1>2, PipelineAssumption DEF RoomShape
  <1> QED
    BY <1>2, <1>3, <1>4

\* A room whose current round was told.
LEMMA ToldRoom ==
  ASSUME NEW r \in Room, RoomShape(r), r.version <= MaxVersion, r.status # "COMPLETED",
         NEW teller \in Jobs \cup {"fallback"}, NEW new \in Tellings(r, teller)
  PROVE  /\ new \in Room
         /\ RoomShape(new)
         /\ new.version = r.version + 1
         /\ new.entries = Append(r.entries, [round |-> r.round, teller |-> teller])
         /\ Len(r.entries) = r.round - 1
         /\ r.round \in Rounds
         /\ \/ r.round = MaxRounds /\ new.status = "COMPLETED"
            \/ r.round # MaxRounds /\ new.status \in {"COLLECTING_ACTIONS", "COMPLETION_AVAILABLE"}
  <1> DEFINE entry == [round |-> r.round, teller |-> teller]
             entries == Append(r.entries, entry)
  <1>1. /\ r.entries \in Seq(Entries)
        /\ r.round \in Rounds
        /\ r.version \in Nat
        /\ r.version + 1 \in Versions
        /\ r = [version |-> r.version, round |-> r.round, status |-> r.status,
                entries |-> r.entries]
    BY PipelineAssumption DEF Room, Versions, Entries
  <1>2. entry \in Entries
    BY <1>1 DEF Entries
  <1>3. entries \in Seq(Entries) /\ Len(entries) = Len(r.entries) + 1 /\ Len(r.entries) \in Nat
    BY <1>1, <1>2, AppendProperties
  <1>4. Len(r.entries) = r.round - 1
    BY DEF RoomShape
  <1>5. r.round \in Nat /\ r.round >= 1 /\ r.round <= MaxRounds
    BY <1>1, PipelineAssumption DEF Rounds
  <1>6. CASE r.round >= MaxRounds
    <2>1. new = [version |-> r.version + 1, round |-> r.round, status |-> "COMPLETED",
                 entries |-> entries]
      BY <1>1, <1>6 DEF Tellings, Bump
    <2>2. new \in Room
      BY <1>1, <1>3, <2>1 DEF Room, Statuses, Entries
    <2>3. RoomShape(new)
      BY <1>3, <1>4, <1>5, <2>1 DEF RoomShape
    <2> QED
      BY <1>1, <1>4, <1>5, <1>6, <2>1, <2>2, <2>3, PipelineAssumption
  <1>7. CASE ~(r.round >= MaxRounds)
    <2>1. PICK status \in {"COLLECTING_ACTIONS", "COMPLETION_AVAILABLE"} :
            new = [version |-> r.version + 1, round |-> r.round + 1, status |-> status,
                   entries |-> entries]
      BY <1>1, <1>7 DEF Tellings, Bump
    <2>2. r.round + 1 \in Rounds
      BY <1>5, <1>7, PipelineAssumption DEF Rounds
    <2>3. new \in Room
      BY <1>1, <1>3, <2>1, <2>2 DEF Room, Statuses, Entries
    <2>4. RoomShape(new)
      BY <1>3, <1>4, <1>5, <2>1 DEF RoomShape
    <2> QED
      BY <1>1, <1>4, <1>5, <1>7, <2>1, <2>3, <2>4, PipelineAssumption
  <1> QED
    BY <1>6, <1>7

\* What is said of the entries is left true by a step that changes none.
LEMMA EntriesKeep ==
  ASSUME IInv, UNCHANGED <<work, inbox>>, room # None, room' # None,
         room'.entries = room.entries
  PROVE  ToldOnce' /\ TellerJustified'
  BY DEF IInv, ToldOnce, TellerJustified, Applied

\* A step that changes the room and what the web process read of it.
LEMMA RoomStep ==
  ASSUME IInv, UNCHANGED <<queueVars, work, boxVars, sqs, worker>>,
         room' \in Room \cup {None}, web' \in Room \cup {None},
         room' # None => room # None /\ room'.version >= room.version,
         RoomsShaped', WebCurrent', ToldOnce', FailureReceipted', TellerJustified'
  PROVE  IInv'
  <1>1. QP!IInv' /\ Queue!TypeOK'
    BY RowsKeep DEF queueVars
  <1>2. TypeOK'
    BY <1>1, TypeParts, TypesFromParts DEF IInv, boxVars
  <1>3. WorkFollows'
    <2> SUFFICES ASSUME NEW j \in Jobs
                 PROVE  /\ jobs'[j].status # "absent" => work'[j] # None
                        /\ (work'[j] # None /\ room' # None) => work'[j].version <= room'.version
      BY DEF WorkFollows
    <2>1. (work[j] # None /\ room' # None) =>
            /\ work[j].version \in Int /\ room.version \in Int /\ room'.version \in Int
            /\ work[j].version <= room.version
      BY TypeParts, PipelineAssumption DEF IInv, WorkFollows, Room, Versions
    <2> QED
      BY <2>1 DEF IInv, WorkFollows, queueVars
  <1>4. BoxesAgree' /\ DeletedMarked' /\ WorkersKnow'
    BY DEF IInv, BoxesAgree, DeletedMarked, WorkersKnow, queueVars, boxVars
  <1> QED
    BY <1>1, <1>2, <1>3, <1>4 DEF IInv

\* A web operation that changes the status of the room.
LEMMA StatusStep ==
  ASSUME IInv, UNCHANGED <<queueVars, work, boxVars, sqs, worker>>,
         room # None, room.version < MaxVersion,
         NEW status \in Statuses, room' = Bump(room, status), web' = None,
         room.status = "COMPLETED" => status = "COMPLETED",
         status = "COMPLETION_AVAILABLE" => room.status = "COMPLETION_AVAILABLE",
         status = "RESOLUTION_FAILED" => room.status = "RESOLUTION_FAILED"
  PROVE  IInv'
  <1>1. room \in Room /\ RoomShape(room) /\ room.version \in Int
    BY TypeParts, PipelineAssumption DEF IInv, RoomsShaped, Room, Versions
  <1>2. /\ room' \in Room
        /\ RoomShape(room')
        /\ room'.version = room.version + 1
        /\ room'.round = room.round
        /\ room'.status = status
        /\ room'.entries = room.entries
    BY <1>1, PipelineAssumption, BumpedRoom
  <1>3. room' # None
    BY <1>2, NoneAssumption
  <1>4. RoomsShaped' /\ WebCurrent'
    BY <1>2, <1>3 DEF RoomsShaped, WebCurrent, RoomShape
  <1>5. ToldOnce' /\ TellerJustified'
    BY <1>2, <1>3, EntriesKeep DEF boxVars
  <1>6. FailureReceipted'
    BY <1>2 DEF IInv, FailureReceipted, boxVars
  <1>7. room'.version >= room.version
    BY <1>1, <1>2
  <1> QED
    BY <1>2, <1>4, <1>5, <1>6, <1>7, RoomStep

-----------------------------------------------------------------------------
(* The web process. *)

LEMMA WebReadStep ==
  ASSUME IInv, WebRead
  PROVE  IInv'
  <1>1. room \in Room /\ room.version \in Int
    BY TypeParts, PipelineAssumption DEF IInv, WebRead, WebFree, Room, Versions
  <1>2. RoomsShaped' /\ WebCurrent'
    BY DEF IInv, RoomsShaped, WebCurrent, WebRead, WebFree, RoomShape
  <1>3. ToldOnce' /\ TellerJustified'
    BY EntriesKeep DEF WebRead, WebFree, boxVars
  <1>4. FailureReceipted'
    BY DEF IInv, FailureReceipted, WebRead, boxVars
  <1> QED
    BY <1>1, <1>2, <1>3, <1>4, RoomStep DEF WebRead

LEMMA WebDropStep ==
  ASSUME IInv, WebDrop
  PROVE  IInv'
  <1>1. room \in Room /\ room # None /\ room.version \in Int
    BY TypeParts, NoneAssumption, PipelineAssumption
       DEF IInv, WebDrop, WebCurrent, Room, Versions
  <1>2. RoomsShaped' /\ WebCurrent'
    BY DEF IInv, RoomsShaped, WebCurrent, WebDrop, RoomShape
  <1>3. ToldOnce' /\ TellerJustified'
    BY <1>1, EntriesKeep DEF WebDrop, boxVars
  <1>4. FailureReceipted'
    BY DEF IInv, FailureReceipted, WebDrop, boxVars
  <1> QED
    BY <1>1, <1>2, <1>3, <1>4, RoomStep DEF WebDrop

\* The operation that saves read the present room.
LEMMA WebReads ==
  ASSUME IInv, web # None
  PROVE  /\ web = room
         /\ room # None
         /\ room \in Room
         /\ RoomShape(room)
         /\ room.version \in Nat
         /\ room.version < MaxVersion
         /\ room.version <= MaxVersion
  <1>1. web = room /\ room.version < MaxVersion /\ room # None
    BY DEF IInv, WebCurrent
  <1>2. room \in Room /\ room.version \in Nat
    BY <1>1, TypeParts, PipelineAssumption DEF IInv, Room, Versions
  <1> QED
    BY <1>1, <1>2, PipelineAssumption DEF IInv, RoomsShaped

LEMMA SaveStatusStep ==
  ASSUME IInv, web # None, web.status # "COMPLETED", NEW saved \in SUBSET Statuses,
         "RESOLUTION_FAILED" \notin saved,
         "COMPLETION_AVAILABLE" \notin saved,
         WebSave({Bump(web, status) : status \in saved})
  PROVE  IInv'
  <1>1. PICK status \in saved : room' = Bump(room, status)
    BY WebReads DEF WebSave
  <1>2. web' = None /\ UNCHANGED <<queueVars, work, boxVars, sqs, worker>>
    BY DEF WebSave
  <1> QED
    BY <1>1, <1>2, WebReads, StatusStep

LEMMA TransferPlayerStep ==
  ASSUME IInv, TransferPlayer
  PROVE  IInv'
  <1>1. room # None /\ web = None /\ room.version < MaxVersion
    BY DEF TransferPlayer, WebFree
  <1>2. room.status \in Statuses
    BY <1>1, TypeParts DEF IInv, Room
  <1>3. web' = None /\ room' = Bump(room, room.status)
        /\ UNCHANGED <<queueVars, work, boxVars, sqs, worker>>
    BY <1>1 DEF TransferPlayer
  <1> QED
    BY <1>1, <1>2, <1>3, StatusStep

LEMMA DeleteRoomStep ==
  ASSUME IInv, DeleteRoom
  PROVE  IInv'
  <1>1. /\ room' = None
        /\ web' = None
        /\ UNCHANGED <<queueVars, work, boxVars, sqs, worker>>
    BY DEF DeleteRoom, WebFree
  <1>2. RoomsShaped' /\ WebCurrent' /\ ToldOnce' /\ FailureReceipted' /\ TellerJustified'
    BY <1>1 DEF RoomsShaped, WebCurrent, ToldOnce, FailureReceipted, TellerJustified
  <1> QED
    BY <1>1, <1>2, RoomStep

\* A new last entry.
LEMMA EntryAdded ==
  ASSUME IInv, room \in Room, NEW teller \in Jobs \cup {"fallback"},
         room'.entries = Append(room.entries, [round |-> room.round, teller |-> teller])
  PROVE  /\ DOMAIN room.entries = 1..Len(room.entries)
         /\ Len(room.entries) \in Nat
         /\ DOMAIN room'.entries = 1..(Len(room.entries) + 1)
         /\ room'.entries[Len(room.entries) + 1] = [round |-> room.round, teller |-> teller]
         /\ \A i \in 1..Len(room.entries) : room'.entries[i] = room.entries[i]
  <1>1. room.entries \in Seq(Entries) /\ room.round \in Rounds
    BY DEF Room, Entries
  <1>2. [round |-> room.round, teller |-> teller] \in Entries
    BY <1>1 DEF Entries
  <1>3. /\ room'.entries \in Seq(Entries)
        /\ Len(room'.entries) = Len(room.entries) + 1
        /\ room'.entries[Len(room.entries) + 1] = [round |-> room.round, teller |-> teller]
        /\ \A i \in 1..Len(room.entries) : room'.entries[i] = room.entries[i]
    BY <1>1, <1>2, AppendProperties
  <1> QED
    BY <1>1, <1>3, LenProperties

LEMMA FallbackRoundStep ==
  ASSUME IInv, FallbackRound
  PROVE  IInv'
  <1>1. /\ web # None
        /\ web = room
        /\ room.status = "RESOLUTION_FAILED"
        /\ room' \in Tellings(room, "fallback")
        /\ web' = None
        /\ UNCHANGED <<queueVars, work, boxVars, sqs, worker>>
    BY WebReads DEF FallbackRound, WebSave
  <1>2. /\ room # None
        /\ room \in Room
        /\ RoomShape(room)
        /\ room.version \in Nat
        /\ room.version <= MaxVersion
    BY <1>1, WebReads
  <1>3. /\ room' \in Room
        /\ RoomShape(room')
        /\ room'.version = room.version + 1
        /\ room'.entries = Append(room.entries, [round |-> room.round, teller |-> "fallback"])
        /\ Len(room.entries) = room.round - 1
        /\ room'.status \in {"COMPLETED", "COLLECTING_ACTIONS", "COMPLETION_AVAILABLE"}
        /\ room.round \in Rounds
    BY <1>1, <1>2, ToldRoom
  <1>4. /\ DOMAIN room.entries = 1..Len(room.entries)
        /\ Len(room.entries) \in Nat
        /\ DOMAIN room'.entries = 1..(Len(room.entries) + 1)
        /\ room'.entries[Len(room.entries) + 1] = [round |-> room.round, teller |-> "fallback"]
        /\ \A i \in 1..Len(room.entries) : room'.entries[i] = room.entries[i]
    BY <1>2, <1>3, EntryAdded
  <1>5. room' # None
    BY <1>3, NoneAssumption
  <1>6. RoomsShaped' /\ WebCurrent' /\ FailureReceipted'
    BY <1>1, <1>3, <1>5 DEF RoomsShaped, WebCurrent, FailureReceipted, RoomShape
  <1>7. ToldOnce'
    <2>1. \A i \in 1..(Len(room.entries) + 1) :
            i \in 1..Len(room.entries) \/ i = Len(room.entries) + 1
      BY <1>4
    <2>2. \A j \in Jobs : room'.entries[Len(room.entries) + 1].teller # j
      BY <1>4, NoneAssumption
    <2>3. 1..Len(room.entries) \subseteq 1..(Len(room.entries) + 1)
      BY <1>4
    <2>4. \A j \in Jobs :
            (\E i \in DOMAIN room'.entries : room'.entries[i].teller = j)
              <=> \E i \in DOMAIN room.entries : room.entries[i].teller = j
      BY <1>4, <2>1, <2>2, <2>3
    <2>5. \A j \in Jobs : Applied(j)' <=> Applied(j)
      BY <1>1 DEF Applied, boxVars
    <2>6. ASSUME NEW j \in Jobs, NEW i \in DOMAIN room'.entries, NEW k \in DOMAIN room'.entries,
                 room'.entries[i].teller = j, room'.entries[k].teller = j
          PROVE  i = k
      <3>1. i \in DOMAIN room.entries /\ k \in DOMAIN room.entries
        BY <1>4, <2>1, <2>2, <2>6
      <3>2. room.entries[i].teller = j /\ room.entries[k].teller = j
        BY <1>4, <2>6, <3>1
      <3> QED
        BY <1>2, <3>1, <3>2 DEF IInv, ToldOnce
    <2>7. \A j \in Jobs : Applied(j) <=>
            \E i \in DOMAIN room.entries : room.entries[i].teller = j
      BY <1>2 DEF IInv, ToldOnce
    <2> QED
      BY <2>4, <2>5, <2>6, <2>7 DEF ToldOnce
  <1>8. TellerJustified'
    <2> SUFFICES ASSUME NEW i \in DOMAIN room'.entries
                 PROVE  /\ room'.entries[i].round = i
                        /\ IF room'.entries[i].teller = "fallback"
                           THEN \E j \in Jobs : /\ work'[j] # None /\ work'[j].round = i
                                                /\ inbox'[j] # None
                                                /\ inbox'[j].outcome = "FAILED"
                           ELSE \A j \in Jobs : (work'[j] # None /\ work'[j].round = i) =>
                                  work'[j].version <= work'[room'.entries[i].teller].version
      BY DEF TellerJustified
    <2>1. CASE i \in 1..Len(room.entries)
      BY <1>1, <1>2, <1>4, <2>1 DEF IInv, TellerJustified, boxVars
    <2>2. CASE i = Len(room.entries) + 1
      <3>1. i = room.round
        BY <1>3, <2>2, PipelineAssumption DEF Rounds
      <3> QED
        BY <1>1, <1>2, <1>4, <2>2, <3>1 DEF IInv, FailureReceipted, boxVars
    <2> QED
      BY <1>4, <2>1, <2>2
  <1> QED
    BY <1>1, <1>2, <1>3, <1>5, <1>6, <1>7, <1>8, RoomStep

LEMMA BeginStep ==
  ASSUME IInv, NEW j \in Jobs, Begin(j)
  PROVE  IInv'
  <1>1. /\ room # None
        /\ web = None
        /\ room.version < MaxVersion
        /\ room.status \in {"AWAITING_SPARK", "RESOLVING", "RESOLUTION_FAILED"}
        /\ room' = Bump(room, "RESOLVING")
        /\ work' = [work EXCEPT ![j] = [round |-> room.round, version |-> room.version + 1]]
        /\ UNCHANGED <<web, boxVars, sqs, worker>>
    BY DEF Begin, WebFree
  <1>2. /\ room \in Room
        /\ RoomShape(room)
        /\ room.version \in Nat
        /\ room.round \in Nat
        /\ room.round \in Rounds
        /\ room.version + 1 \in Versions
        /\ room.version <= MaxVersion
    BY <1>1, TypeParts, PipelineAssumption DEF IInv, RoomsShaped, Room, Versions, Rounds
  <1>3. /\ room' \in Room
        /\ RoomShape(room')
        /\ room'.version = room.version + 1
        /\ room'.status = "RESOLVING"
        /\ room'.entries = room.entries
    <2>1. "RESOLVING" \in Statuses
      BY DEF Statuses
    <2> QED
      BY <1>1, <1>2, <2>1, BumpedRoom
  <1>4. room' # None
    BY <1>3, NoneAssumption
  <1>5. /\ QP!IInv'
        /\ \A i \in Jobs \ {j} : jobs'[i] = jobs[i]
        /\ jobs[j].status = "absent"
        /\ jobs'[j].status = "pending"
        /\ grants' = grants
    BY EnqueueJob DEF Begin
  <1>6. /\ work'[j] = [round |-> room.round, version |-> room.version + 1]
        /\ work'[j] # None
        /\ \A i \in Jobs \ {j} : work'[i] = work[i]
        /\ work' \in [Jobs -> [round : Rounds, version : Versions] \cup {None}]
    <2>1. [round |-> room.round, version |-> room.version + 1]
            \in [round : Rounds, version : Versions]
      BY <1>2
    <2> QED
      BY <1>1, <2>1, TypeParts, NoneAssumption DEF IInv
  <1>7. inbox[j] = None /\ outbox[j] = None
    BY <1>5 DEF IInv, BoxesAgree
  <1>8. TypeOK'
    BY <1>1, <1>3, <1>5, <1>6, RowsTyped, TypeParts, TypesFromParts DEF IInv, boxVars
  <1>9. RoomsShaped' /\ WebCurrent' /\ FailureReceipted'
    BY <1>1, <1>3 DEF RoomsShaped, WebCurrent, FailureReceipted
  <1>10. WorkFollows'
    <2>1. room'.version >= work'[j].version
      BY <1>2, <1>3, <1>6
    <2>2. ASSUME NEW i \in Jobs \ {j}, work'[i] # None
          PROVE  work'[i].version <= room'.version
      <3>1. work[i].version <= room.version /\ work[i].version \in Int
        BY <1>1, <1>6, <2>2, TypeParts DEF IInv, WorkFollows, Versions
      <3> QED
        BY <1>2, <1>3, <1>6, <3>1
    <2> QED
      BY <1>2, <1>3, <1>5, <1>6, <2>1, <2>2 DEF IInv, WorkFollows
  <1>11. BoxesAgree'
    BY <1>1, <1>5, <1>7 DEF IInv, BoxesAgree, boxVars
  <1>12. DeletedMarked'
    BY <1>1 DEF IInv, DeletedMarked, boxVars
  <1>13. WorkersKnow'
    <2>1. ASSUME NEW p \in Process, Knows(p, jobs, Len(grants), inbox, outbox)
          PROVE  Knows(p, jobs', Len(grants'), inbox', outbox')
      <3>1. p.pc # "idle" => p.msg[1] \in Jobs
        BY <2>1, MessageJob DEF Knows
      <3>2. p.pc \in {"committed", "completed", "marked"} => p.msg[1] # j
        BY <2>1, <1>7 DEF Knows
      <3>3. inbox' = inbox /\ outbox' = outbox /\ grants' = grants
        BY <1>1, <1>5 DEF boxVars
      <3> QED
        BY <2>1, <3>1, <3>2, <3>3, <1>5 DEF Knows
    <2> QED
      BY <1>1, <2>1, NoProcess
  <1>14. ToldOnce'
    BY <1>1, <1>3 DEF IInv, ToldOnce, Applied, boxVars
  <1>15. TellerJustified'
    <2> SUFFICES ASSUME NEW i \in DOMAIN room.entries
                 PROVE  /\ room.entries[i].round = i
                        /\ IF room.entries[i].teller = "fallback"
                           THEN \E k \in Jobs : /\ work'[k] # None /\ work'[k].round = i
                                                /\ inbox'[k] # None
                                                /\ inbox'[k].outcome = "FAILED"
                           ELSE \A k \in Jobs : (work'[k] # None /\ work'[k].round = i) =>
                                  work'[k].version <= work'[room.entries[i].teller].version
      BY <1>3 DEF TellerJustified
    <2>1. i # room.round
      <3>1. room.entries \in Seq(Entries) /\ Len(room.entries) = room.round - 1
        BY <1>1, <1>2 DEF Room, Entries, RoomShape
      <3>2. i \in 1..Len(room.entries)
        BY <3>1, LenProperties
      <3> QED
        BY <1>2, <3>1, <3>2
    <2>2. work'[j].round # i
      BY <2>1, <1>6
    <2>3. room.entries[i].round = i
      BY <1>1 DEF IInv, TellerJustified
    <2>4. CASE room.entries[i].teller = "fallback"
      <3>1. PICK k \in Jobs : /\ work[k] # None /\ work[k].round = i
                              /\ inbox[k] # None
                              /\ inbox[k].outcome = "FAILED"
        BY <1>1, <2>4 DEF IInv, TellerJustified
      <3>2. k # j /\ inbox' = inbox
        BY <3>1, <1>1, <1>7 DEF boxVars
      <3> QED
        BY <1>6, <2>3, <2>4, <3>1, <3>2
    <2>5. CASE room.entries[i].teller # "fallback"
      <3>1. room.entries[i].teller \in Jobs
        <4>1. room.entries \in Seq(Entries)
          BY <1>2 DEF Room, Entries
        <4>2. room.entries[i] \in Entries
          BY <4>1, ElementOfSeq, LenProperties
        <4> QED
          BY <4>2, <2>5 DEF Entries
      <3>2. room.entries[i].teller # j
        BY <1>1, <1>7, <3>1 DEF IInv, ToldOnce, Applied
      <3>3. \A k \in Jobs : (work[k] # None /\ work[k].round = i) =>
              work[k].version <= work[room.entries[i].teller].version
        BY <1>1, <2>5 DEF IInv, TellerJustified
      <3> QED
        BY <1>6, <2>2, <2>3, <2>5, <3>1, <3>2, <3>3
    <2> QED
      BY <2>4, <2>5
  <1> QED
    BY <1>5, <1>8, <1>9, <1>10, <1>11, <1>12, <1>13, <1>14, <1>15 DEF IInv

-----------------------------------------------------------------------------
(* The messages. *)

\* A step of SQS deletes no message.
LEMMA MessageStep ==
  ASSUME IInv, UNCHANGED <<queueVars, roomVars, boxVars, worker>>,
         NEW m \in Messages,
         NEW new \in [state : {"unused", "visible", "inflight", "deleted", "dlq"},
                      receives : 0..MaxReceives],
         sqs' = [sqs EXCEPT ![m] = new],
         new.state # "deleted"
  PROVE  IInv'
  <1>1. QP!IInv' /\ Queue!TypeOK'
    BY RowsKeep DEF queueVars
  <1>2. sqs' \in [Messages -> [state : {"unused", "visible", "inflight", "deleted", "dlq"},
                               receives : 0..MaxReceives]]
    BY TypeParts DEF IInv
  <1>3. TypeOK'
    BY <1>1, <1>2, TypeParts, TypesFromParts DEF IInv, roomVars, boxVars
  <1>4. RoomsShaped' /\ WebCurrent' /\ ToldOnce' /\ FailureReceipted' /\ TellerJustified'
    BY RoomKeeps DEF roomVars, boxVars
  <1>5. WorkFollows' /\ BoxesAgree' /\ WorkersKnow'
    BY DEF IInv, WorkFollows, BoxesAgree, WorkersKnow, queueVars, roomVars, boxVars
  <1>6. DeletedMarked'
    BY TypeParts DEF IInv, DeletedMarked, boxVars
  <1> QED
    BY <1>1, <1>3, <1>4, <1>5, <1>6 DEF IInv

LEMMA SqsTypes ==
  ASSUME IInv, NEW m \in Messages,
         NEW state \in {"unused", "visible", "inflight", "deleted", "dlq"}
  PROVE  /\ [sqs EXCEPT ![m].state = state] = [sqs EXCEPT ![m] = [state |-> state, receives |-> sqs[m].receives]]
         /\ [state |-> state, receives |-> sqs[m].receives]
              \in [state : {"unused", "visible", "inflight", "deleted", "dlq"},
                   receives : 0..MaxReceives]
  <1>1. sqs[m] \in [state : {"unused", "visible", "inflight", "deleted", "dlq"},
                    receives : 0..MaxReceives]
    BY TypeParts DEF IInv
  <1>2. [sqs[m] EXCEPT !.state = state] = [state |-> state, receives |-> sqs[m].receives]
    BY <1>1
  <1> QED
    BY <1>1, <1>2

LEMMA PublishStep ==
  ASSUME IInv, NEW j \in Jobs, Publish(j)
  PROVE  IInv'
  <1>1. PICK c \in 1..Copies : sqs' = [sqs EXCEPT ![<<j, c>>].state = "visible"]
    BY DEF Publish
  <1>2. <<j, c>> \in Messages
    BY DEF Messages
  <1> QED
    BY <1>1, <1>2, SqsTypes, MessageStep DEF Publish

LEMMA VisibilityTimeoutStep ==
  ASSUME IInv, NEW m \in Messages, VisibilityTimeout(m)
  PROVE  IInv'
  BY SqsTypes, MessageStep DEF VisibilityTimeout

LEMMA RedriveStep ==
  ASSUME IInv, NEW m \in Messages, Redrive(m)
  PROVE  IInv'
  BY SqsTypes, MessageStep DEF Redrive

-----------------------------------------------------------------------------
(* The worker processes. *)

LEMMA ProcessFacts ==
  ASSUME IInv, NEW w \in Workers
  PROVE  /\ worker[w] \in Process
         /\ Knows(worker[w], jobs, Len(grants), inbox, outbox)
         /\ worker[w].pc # "idle" => worker[w].msg \in Messages /\ JobOf(w) \in Jobs
  <1>1. worker[w] \in Process /\ Knows(worker[w], jobs, Len(grants), inbox, outbox)
    BY TypeParts DEF IInv, WorkersKnow
  <1> QED
    BY <1>1, MessageJob DEF Knows, JobOf

\* A step of one process that touches at most the messages.
LEMMA ProcessStep ==
  ASSUME IInv, UNCHANGED <<queueVars, roomVars, boxVars>>,
         NEW w \in Workers, NEW new \in Process,
         worker' = [worker EXCEPT ![w] = new],
         Knows(new, jobs, Len(grants), inbox, outbox),
         sqs' \in [Messages -> [state : {"unused", "visible", "inflight", "deleted", "dlq"},
                                receives : 0..MaxReceives]],
         DeletedMarked'
  PROVE  IInv'
  <1>1. QP!IInv' /\ Queue!TypeOK'
    BY RowsKeep DEF queueVars
  <1>2. WorkersKnow' /\ worker' \in [Workers -> Process]
    BY OneProcess DEF queueVars, boxVars
  <1>3. TypeOK'
    BY <1>1, <1>2, TypeParts, TypesFromParts DEF IInv, roomVars, boxVars
  <1>4. RoomsShaped' /\ WebCurrent' /\ ToldOnce' /\ FailureReceipted' /\ TellerJustified'
    BY RoomKeeps DEF roomVars, boxVars
  <1>5. WorkFollows' /\ BoxesAgree'
    BY DEF IInv, WorkFollows, BoxesAgree, queueVars, roomVars, boxVars
  <1> QED
    BY <1>1, <1>2, <1>3, <1>4, <1>5 DEF IInv

\* Such a step that leaves the messages alone, too.
LEMMA QuietStep ==
  ASSUME IInv, UNCHANGED <<queueVars, roomVars, boxVars, sqs>>,
         NEW w \in Workers, NEW new \in Process,
         worker' = [worker EXCEPT ![w] = new],
         Knows(new, jobs, Len(grants), inbox, outbox)
  PROVE  IInv'
  <1>1. DeletedMarked'
    BY DEF IInv, DeletedMarked, boxVars
  <1> QED
    BY <1>1, TypeParts, ProcessStep DEF IInv

LEMMA ExitStep ==
  ASSUME IInv, UNCHANGED <<queueVars, roomVars, boxVars, sqs>>, NEW w \in Workers, Exit(w)
  PROVE  IInv'
  BY IdleProcess, QuietStep DEF Exit

\* A step that moves the row of one job.
LEMMA MoveStep ==
  ASSUME IInv, UNCHANGED <<roomVars, boxVars, sqs>>, NEW j \in Jobs, JobMoves(j), QP!IInv',
         WorkersKnow', worker' \in [Workers -> Process]
  PROVE  IInv'
  <1>1. TypeOK'
    BY RowsTyped, TypeParts, TypesFromParts DEF IInv, roomVars, boxVars
  <1>2. WorkFollows' /\ BoxesAgree'
    BY MoveKeeps DEF roomVars, boxVars
  <1>3. RoomsShaped' /\ WebCurrent' /\ ToldOnce' /\ FailureReceipted' /\ TellerJustified'
    BY RoomKeeps DEF roomVars, boxVars
  <1>4. DeletedMarked'
    BY DEF IInv, DeletedMarked, boxVars
  <1> QED
    BY <1>1, <1>2, <1>3, <1>4 DEF IInv

\* What every process knows stays so when the row of one job moves.
LEMMA MoveKnown ==
  ASSUME IInv, UNCHANGED <<roomVars, boxVars>>, NEW j \in Jobs, JobMoves(j),
         NEW p \in Process, Knows(p, jobs, Len(grants), inbox, outbox)
  PROVE  Knows(p, jobs', Len(grants'), inbox', outbox')
  BY MoveKeeps DEF roomVars, boxVars

LEMMA ElapseStep ==
  ASSUME IInv, NEW j \in Jobs, Elapse(j)
  PROVE  IInv'
  <1>1. QP!IInv' /\ JobMoves(j)
    BY ElapseJob DEF Elapse
  <1>2. WorkersKnow' /\ worker' \in [Workers -> Process]
    BY <1>1, MoveKnown, NoProcess DEF Elapse
  <1> QED
    BY <1>1, <1>2, MoveStep DEF Elapse

\* A process with one field changed.
LEMMA NewPc ==
  ASSUME NEW p \in Process,
         NEW pc \in {"idle", "received", "claimed", "narrating", "narrated", "returning",
                     "committed", "completed", "marked"},
         NEW new, new = [p EXCEPT !.pc = pc]
  PROVE  /\ new \in Process
         /\ new.pc = pc
         /\ new.msg = p.msg
         /\ new.token = p.token
         /\ new.completion = p.completion
  BY DEF Process

LEMMA NewToken ==
  ASSUME NEW p \in Process, NEW token \in Nat, NEW new, new = [p EXCEPT !.token = token]
  PROVE  /\ new \in Process
         /\ new.pc = p.pc
         /\ new.msg = p.msg
         /\ new.token = token
  BY DEF Process

LEMMA NewMessage ==
  ASSUME NEW p \in Process, NEW m \in Messages, NEW new, new = [p EXCEPT !.msg = m]
  PROVE  new \in Process /\ new.pc = p.pc /\ new.msg = m
  BY DEF Process

LEMMA NewHandle ==
  ASSUME NEW p \in Process, NEW h \in 0..MaxReceives, NEW new, new = [p EXCEPT !.handle = h]
  PROVE  new \in Process /\ new.pc = p.pc /\ new.msg = p.msg
  BY DEF Process

LEMMA ReceiveStep ==
  ASSUME IInv, NEW w \in Workers, Receive(w)
  PROVE  IInv'
  <1>1. PICK m, new :
          /\ m \in Messages
          /\ sqs[m].receives < MaxReceives
          /\ sqs' = [sqs EXCEPT ![m] = [state |-> "inflight", receives |-> @.receives + 1]]
          /\ new = [Idle EXCEPT !.pc = "received", !.msg = m, !.handle = sqs[m].receives + 1]
          /\ worker' = [worker EXCEPT ![w] = new]
    BY DEF Receive
  <1>2. sqs[m].receives + 1 \in 0..MaxReceives
    BY <1>1, TypeParts, PipelineAssumption DEF IInv
  <1>3. new \in Process /\ new.pc = "received" /\ new.msg = m
    <2>1. PICK p : p = [Idle EXCEPT !.pc = "received"]
      OBVIOUS
    <2>2. PICK q : q = [p EXCEPT !.msg = m]
      OBVIOUS
    <2>3. new = [q EXCEPT !.handle = sqs[m].receives + 1]
      BY <1>1, <2>1, <2>2
    <2>4. p \in Process /\ p.pc = "received"
      BY <2>1, IdleProcess, NewPc
    <2>5. q \in Process /\ q.pc = "received" /\ q.msg = m
      BY <1>1, <2>2, <2>4, NewMessage
    <2> QED
      BY <1>2, <2>3, <2>5, NewHandle
  <1>4. Knows(new, jobs, Len(grants), inbox, outbox)
    BY <1>1, <1>3 DEF Knows
  <1>5. sqs' \in [Messages -> [state : {"unused", "visible", "inflight", "deleted", "dlq"},
                               receives : 0..MaxReceives]]
    BY <1>1, <1>2, TypeParts DEF IInv
  <1>6. DeletedMarked'
    BY <1>1, TypeParts DEF IInv, DeletedMarked, Receive, boxVars
  <1> QED
    BY <1>1, <1>3, <1>4, <1>5, <1>6, ProcessStep DEF Receive

LEMMA ClaimJobStep ==
  ASSUME IInv, NEW w \in Workers, ClaimJob(w)
  PROVE  IInv'
  <1>1. /\ worker[w] \in Process
        /\ Knows(worker[w], jobs, Len(grants), inbox, outbox)
        /\ worker[w].pc = "received"
        /\ JobOf(w) \in Jobs
        /\ worker[w].msg \in Messages
    BY ProcessFacts DEF ClaimJob
  <1>2. /\ QP!IInv'
        /\ JobMoves(JobOf(w))
        /\ Queue!NextToken = Len(grants) + 1
        /\ Len(grants') = Len(grants) + 1
        /\ Len(grants) \in Nat
    BY <1>1, GrantJob DEF ClaimJob
  <1>3. PICK new : /\ new = [worker[w] EXCEPT !.pc = "claimed", !.token = Queue!NextToken]
                   /\ worker' = [worker EXCEPT ![w] = new]
    BY TypeParts DEF IInv, ClaimJob
  <1>4. /\ new \in Process
        /\ new.pc = "claimed"
        /\ new.token = Len(grants')
        /\ new.msg = worker[w].msg
    <2>1. PICK p : p = [worker[w] EXCEPT !.pc = "claimed"]
      OBVIOUS
    <2>2. new = [p EXCEPT !.token = Queue!NextToken]
      BY <1>3, <2>1
    <2>3. p \in Process /\ p.pc = "claimed" /\ p.msg = worker[w].msg
      BY <1>1, <2>1, NewPc
    <2>4. Queue!NextToken \in Nat
      BY <1>2
    <2> QED
      BY <1>2, <2>2, <2>3, <2>4, NewToken
  <1>5. Knows(new, jobs', Len(grants'), inbox', outbox')
    BY <1>1, <1>2, <1>4 DEF Knows
  <1>6. \A p \in Process : Knows(p, jobs, Len(grants), inbox, outbox)
                             => Knows(p, jobs', Len(grants'), inbox', outbox')
    BY <1>1, <1>2, MoveKnown DEF ClaimJob
  <1>7. WorkersKnow' /\ worker' \in [Workers -> Process]
    BY <1>3, <1>4, <1>5, <1>6, OneProcess
  <1> QED
    BY <1>1, <1>2, <1>7, MoveStep DEF ClaimJob

LEMMA ClaimExhaustedStep ==
  ASSUME IInv, NEW w \in Workers, ClaimExhausted(w)
  PROVE  IInv'
  <1>1. JobOf(w) \in Jobs
    BY ProcessFacts DEF ClaimExhausted
  <1>2. QP!IInv' /\ JobMoves(JobOf(w))
    BY <1>1, DeadLetterJob DEF ClaimExhausted
  <1>3. \A p \in Process : Knows(p, jobs, Len(grants), inbox, outbox)
                             => Knows(p, jobs', Len(grants'), inbox', outbox')
    BY <1>1, <1>2, MoveKnown DEF ClaimExhausted
  <1>4. WorkersKnow' /\ worker' \in [Workers -> Process]
    BY <1>3, IdleProcess, OneProcess DEF ClaimExhausted, Exit
  <1> QED
    BY <1>1, <1>2, <1>4, MoveStep DEF ClaimExhausted

LEMMA ClaimRefusedStep ==
  ASSUME IInv, NEW w \in Workers, ClaimRefused(w)
  PROVE  IInv'
  BY ExitStep DEF ClaimRefused

LEMMA GiveBackStep ==
  ASSUME IInv, NEW w \in Workers, GiveBack(w)
  PROVE  IInv'
  <1>1. /\ JobOf(w) \in Jobs
        /\ worker[w].token \in 1..Len(grants)
    BY ProcessFacts DEF GiveBack, Knows
  <1>2. CASE ~Holds(w)
    BY <1>2, ExitStep DEF GiveBack, queueVars
  <1>3. CASE Holds(w)
    <2>1. QP!IInv' /\ JobMoves(JobOf(w))
      BY <1>1, <1>3, FailJob DEF GiveBack
    <2>2. \A p \in Process : Knows(p, jobs, Len(grants), inbox, outbox)
                               => Knows(p, jobs', Len(grants'), inbox', outbox')
      BY <1>1, <2>1, MoveKnown DEF GiveBack
    <2>3. WorkersKnow' /\ worker' \in [Workers -> Process]
      BY <2>2, IdleProcess, OneProcess DEF GiveBack, Exit
    <2> QED
      BY <1>1, <2>1, <2>3, MoveStep DEF GiveBack
  <1> QED
    BY <1>2, <1>3

LEMMA NarrateStep ==
  ASSUME IInv, NEW w \in Workers, Narrate(w)
  PROVE  IInv'
  <1>1. /\ worker[w] \in Process
        /\ Knows(worker[w], jobs, Len(grants), inbox, outbox)
        /\ worker[w].pc = "narrating"
    BY ProcessFacts DEF Narrate
  <1>2. PICK n, new :
          /\ n \in Narrations
          /\ new = [worker[w] EXCEPT !.pc = "narrated", !.tale = n]
          /\ worker' = [worker EXCEPT ![w] = new]
    BY TypeParts DEF IInv, Narrate
  <1>3. /\ new \in Process
        /\ new.pc = "narrated"
        /\ new.tale = n
        /\ new.msg = worker[w].msg
        /\ new.token = worker[w].token
    <2>1. [worker[w] EXCEPT !.pc = "narrated"] \in Process
      BY <1>1 DEF Process
    <2>2. new = [[worker[w] EXCEPT !.pc = "narrated"] EXCEPT !.tale = n]
      BY <1>1, <1>2 DEF Process
    <2> QED
      BY <1>1, <1>2, <2>1, <2>2 DEF Process
  <1>4. Knows(new, jobs, Len(grants), inbox, outbox)
    BY <1>1, <1>2, <1>3 DEF Knows
  <1> QED
    BY <1>2, <1>3, <1>4, QuietStep DEF Narrate

LEMMA NarrateRetryableStep ==
  ASSUME IInv, NEW w \in Workers, NarrateRetryable(w)
  PROVE  IInv'
  <1>1. /\ worker[w] \in Process
        /\ Knows(worker[w], jobs, Len(grants), inbox, outbox)
        /\ worker[w].pc = "narrating"
    BY ProcessFacts DEF NarrateRetryable
  <1>2. PICK new : /\ new = [worker[w] EXCEPT !.pc = "returning"]
                   /\ worker' = [worker EXCEPT ![w] = new]
    BY TypeParts DEF IInv, NarrateRetryable, Becomes
  <1>3. /\ new \in Process
        /\ new.pc = "returning"
        /\ new.msg = worker[w].msg
        /\ new.token = worker[w].token
    BY <1>1, <1>2, NewPc
  <1>4. Knows(new, jobs, Len(grants), inbox, outbox)
    BY <1>1, <1>3 DEF Knows
  <1> QED
    BY <1>2, <1>3, <1>4, QuietStep DEF NarrateRetryable

LEMMA DeleteMessageStep ==
  ASSUME IInv, NEW w \in Workers, DeleteMessage(w)
  PROVE  IInv'
  <1>1. /\ worker[w].msg \in Messages
        /\ outbox[worker[w].msg[1]].dispatched
        /\ outbox[worker[w].msg[1]] # None
    <2>1. /\ worker[w].msg \in Messages
          /\ worker[w].msg[1] \in Jobs
          /\ outbox[worker[w].msg[1]].dispatched
          /\ inbox[worker[w].msg[1]] # None
      BY ProcessFacts DEF DeleteMessage, Knows, JobOf
    <2> QED
      BY <2>1 DEF IInv, BoxesAgree
  <1>2. CASE UNCHANGED sqs
    BY <1>2, ExitStep DEF DeleteMessage
  <1>3. CASE sqs' = [sqs EXCEPT ![worker[w].msg].state = IF @ = "dlq" THEN @ ELSE "deleted"]
    <2>1. /\ sqs' \in [Messages ->
                         [state : {"unused", "visible", "inflight", "deleted", "dlq"},
                          receives : 0..MaxReceives]]
          /\ \A m \in Messages : m # worker[w].msg => sqs'[m] = sqs[m]
      BY <1>1, <1>3, TypeParts DEF IInv
    <2>2. DeletedMarked'
      BY <1>1, <2>1 DEF IInv, DeletedMarked, DeleteMessage, boxVars
    <2> QED
      BY <2>1, <2>2, IdleProcess, ProcessStep DEF DeleteMessage, Exit
  <1> QED
    BY <1>2, <1>3 DEF DeleteMessage

LEMMA CrashStep ==
  ASSUME IInv, NEW w \in Workers, Crash(w)
  PROVE  IInv'
  BY ExitStep DEF Crash

-----------------------------------------------------------------------------
(* Committing and acknowledging. *)

LEMMA HoldsFacts ==
  ASSUME IInv, NEW w \in Workers, worker[w].pc # "idle", Holds(w)
  PROVE  /\ JobOf(w) \in Jobs
         /\ jobs[JobOf(w)].status = "claimed"
         /\ jobs[JobOf(w)].ownership_token = worker[w].token
         /\ work[JobOf(w)] # None
         /\ work[JobOf(w)] \in [round : Rounds, version : Versions]
         /\ outbox[JobOf(w)] # None => ~outbox[JobOf(w)].dispatched
  <1>1. /\ JobOf(w) \in Jobs
        /\ jobs[JobOf(w)].status = "claimed"
        /\ jobs[JobOf(w)].ownership_token = worker[w].token
    BY ProcessFacts DEF Holds, Queue!HoldsClaim
  <1>2. work[JobOf(w)] # None
    BY <1>1 DEF IInv, WorkFollows
  <1>3. work[JobOf(w)] \in [round : Rounds, version : Versions]
    BY <1>1, <1>2, TypeParts DEF IInv
  <1>4. outbox[JobOf(w)] # None => ~outbox[JobOf(w)].dispatched
    BY <1>1 DEF IInv, BoxesAgree
  <1> QED
    BY <1>1, <1>2, <1>3, <1>4

\* A receipt that exists already is completed again under the new token.
LEMMA ReplayStep ==
  ASSUME IInv, NEW w \in Workers, worker[w].pc \in {"claimed", "narrated"}, Holds(w),
         inbox[JobOf(w)] # None,
         worker' = [worker EXCEPT ![w].pc = "committed",
                                  ![w].completion = Completion(inbox[JobOf(w)])],
         Retoken(JobOf(w), worker[w].token),
         UNCHANGED <<queueVars, roomVars, inbox, sqs>>
  PROVE  IInv'
  <1> DEFINE j == JobOf(w)
             token == worker[w].token
  <1>1. /\ worker[w] \in Process
        /\ Knows(worker[w], jobs, Len(grants), inbox, outbox)
        /\ j \in Jobs
        /\ worker[w].msg \in Messages
        /\ token \in 1..Len(grants)
        /\ token \in Nat
        /\ jobs[j].status = "claimed"
        /\ jobs[j].ownership_token = token
        /\ outbox[j] # None
        /\ ~outbox[j].dispatched
    <2>1. /\ worker[w] \in Process
          /\ Knows(worker[w], jobs, Len(grants), inbox, outbox)
          /\ j \in Jobs
          /\ worker[w].msg \in Messages
      BY ProcessFacts
    <2>2. token \in 1..Len(grants)
      BY <2>1 DEF Knows
    <2>3. outbox[j] # None
      BY <2>1 DEF IInv, BoxesAgree
    <2> QED
      BY <2>1, <2>2, <2>3, HoldsFacts
  <1>2. /\ inbox[j] \in Receipts
        /\ outbox[j] \in [token : Nat, dispatched : BOOLEAN]
    BY <1>1, TypeParts DEF IInv
  <1>3. outbox' = [outbox EXCEPT ![j] = [outbox[j] EXCEPT !.token = token]]
    BY <1>1 DEF Retoken
  <1>4. /\ [outbox[j] EXCEPT !.token = token] \in [token : Nat, dispatched : BOOLEAN]
        /\ [outbox[j] EXCEPT !.token = token].token = token
        /\ [outbox[j] EXCEPT !.token = token].dispatched = outbox[j].dispatched
    BY <1>1, <1>2
  <1>5. /\ outbox' \in [Jobs -> [token : Nat, dispatched : BOOLEAN] \cup {None}]
        /\ outbox'[j] # None
        /\ outbox'[j].token = token
        /\ outbox'[j].dispatched = outbox[j].dispatched
        /\ \A i \in Jobs \ {j} : outbox'[i] = outbox[i]
    BY <1>1, <1>3, <1>4, TypeParts, NoneAssumption DEF IInv
  <1>6. PICK c, q, new :
          /\ c \in Completions
          /\ c = Completion(inbox[j])
          /\ q = [worker[w] EXCEPT !.pc = "committed"]
          /\ new = [q EXCEPT !.completion = c]
          /\ worker' = [worker EXCEPT ![w] = new]
    BY <1>2, TypeParts, CompletionType DEF IInv
  <1>7. /\ new \in Process
        /\ new.pc = "committed"
        /\ new.msg = worker[w].msg
        /\ new.token = token
        /\ new.completion = Completion(inbox[j])
    <2>1. q \in Process /\ q.pc = "committed" /\ q.msg = worker[w].msg /\ q.token = worker[w].token
      BY <1>1, <1>6, NewPc
    <2>2. /\ new \in Process
          /\ new.pc = q.pc
          /\ new.msg = q.msg
          /\ new.token = q.token
          /\ new.completion = c
      BY <1>6, <2>1 DEF Process
    <2> QED
      BY <1>6, <2>1, <2>2
  <1>8. j = worker[w].msg[1]
    BY DEF JobOf
  <1> HIDE DEF j, token
  <1>9. jobs' = jobs /\ grants' = grants /\ inbox' = inbox
    BY DEF queueVars
  <1>10. Knows(new, jobs', Len(grants'), inbox', outbox')
    BY <1>1, <1>5, <1>7, <1>8, <1>9 DEF Knows, j
  <1>11. ASSUME NEW p \in Process, Knows(p, jobs, Len(grants), inbox, outbox)
         PROVE  Knows(p, jobs', Len(grants'), inbox', outbox')
    <2>1. p.pc # "idle" => p.msg[1] \in Jobs
      BY <1>11, MessageJob DEF Knows
    <2> QED
      BY <2>1, <1>1, <1>5, <1>9, <1>11 DEF Knows
  <1>12. WorkersKnow' /\ worker' \in [Workers -> Process]
    BY <1>6, <1>7, <1>10, <1>11, OneProcess
  <1>13. QP!IInv' /\ Queue!TypeOK'
    BY RowsKeep DEF queueVars
  <1>14. TypeOK'
    BY <1>5, <1>12, <1>13, TypeParts, TypesFromParts DEF IInv, roomVars
  <1>15. RoomsShaped' /\ WebCurrent' /\ ToldOnce' /\ FailureReceipted' /\ TellerJustified'
    BY RoomKeeps DEF roomVars
  <1>16. WorkFollows'
    BY DEF IInv, WorkFollows, queueVars, roomVars
  <1>17. BoxesAgree'
    BY <1>1, <1>5, <1>9 DEF IInv, BoxesAgree, j
  <1>18. DeletedMarked'
    <2>1. \A m \in Messages : m[1] \in Jobs
      BY MessageJob
    <2> QED
      BY <2>1, <1>5 DEF IInv, DeletedMarked
  <1> QED
    BY <1>12, <1>13, <1>14, <1>15, <1>16, <1>17, <1>18 DEF IInv

LEMMA LookUpStep ==
  ASSUME IInv, NEW w \in Workers, LookUp(w)
  PROVE  IInv'
  <1>1. CASE ~Holds(w)
    BY <1>1, ExitStep DEF LookUp, boxVars
  <1>2. CASE Holds(w) /\ inbox[JobOf(w)] = None
    <2>1. /\ worker[w] \in Process
          /\ Knows(worker[w], jobs, Len(grants), inbox, outbox)
          /\ worker[w].pc = "claimed"
      BY ProcessFacts DEF LookUp
    <2>2. PICK new : /\ new = [worker[w] EXCEPT !.pc = "narrating"]
                     /\ worker' = [worker EXCEPT ![w] = new]
      BY <1>2, TypeParts DEF IInv, LookUp, Becomes
    <2>3. /\ new \in Process
          /\ new.pc = "narrating"
          /\ new.msg = worker[w].msg
          /\ new.token = worker[w].token
      BY <2>1, <2>2, NewPc
    <2>4. Knows(new, jobs, Len(grants), inbox, outbox)
      BY <2>1, <2>3 DEF Knows
    <2> QED
      BY <1>2, <2>2, <2>3, <2>4, QuietStep DEF LookUp, boxVars
  <1>3. CASE Holds(w) /\ inbox[JobOf(w)] # None
    BY <1>3, ReplayStep DEF LookUp
  <1> QED
    BY <1>1, <1>2, <1>3

LEMMA CompleteJobStep ==
  ASSUME IInv, NEW w \in Workers, CompleteJob(w)
  PROVE  IInv'
  <1> DEFINE j == JobOf(w)
             token == worker[w].token
  <1>1. CASE ~Holds(w)
    BY <1>1, ExitStep DEF CompleteJob, queueVars
  <1>2. CASE Holds(w)
    <2>1. /\ worker[w] \in Process
          /\ Knows(worker[w], jobs, Len(grants), inbox, outbox)
          /\ worker[w].pc = "committed"
          /\ worker[w].msg \in Messages
          /\ j \in Jobs
          /\ j = worker[w].msg[1]
      BY ProcessFacts DEF CompleteJob, JobOf
    <2>2. /\ token \in 1..Len(grants)
          /\ inbox[j] # None
          /\ worker[w].completion = Completion(inbox[j])
      BY <2>1 DEF Knows
    <2>3. Completion(inbox[j]) \in Completions
      BY <2>1, <2>2, TypeParts, CompletionType DEF IInv
    <2>4. Queue!Complete(j, token, Completion(inbox[j]), 0)
      BY <1>2, <2>2 DEF CompleteJob
    <2>5. /\ QP!IInv'
          /\ \A i \in Jobs \ {j} : jobs'[i] = jobs[i]
          /\ jobs[j].status = "claimed"
          /\ jobs[j].ownership_token = token
          /\ jobs'[j].status = "completed"
          /\ jobs'[j].ownership_token = token
          /\ jobs'[j].result = Completion(inbox[j])
          /\ grants' = grants
      BY <2>1, <2>2, <2>3, <2>4, CompleteQueueJob
    <2>6. outbox[j].token = token
      BY <2>1, <2>5 DEF Knows
    <2> HIDE DEF j, token
    <2>7. /\ work' = work /\ room' = room /\ web' = web
          /\ inbox' = inbox /\ outbox' = outbox /\ sqs' = sqs
      BY DEF CompleteJob, roomVars, boxVars
    <2>8. PICK new : /\ new = [worker[w] EXCEPT !.pc = "completed"]
                     /\ worker' = [worker EXCEPT ![w] = new]
      BY <1>2, TypeParts DEF IInv, CompleteJob, Becomes
    <2>9. /\ new \in Process
          /\ new.pc = "completed"
          /\ new.msg = worker[w].msg
          /\ new.token = token
          /\ new.completion = worker[w].completion
      BY <2>1, <2>8, NewPc DEF token
    <2>10. Knows(new, jobs', Len(grants'), inbox', outbox')
      BY <2>1, <2>2, <2>5, <2>7, <2>9 DEF Knows
    <2>11. ASSUME NEW p \in Process, Knows(p, jobs, Len(grants), inbox, outbox)
           PROVE  Knows(p, jobs', Len(grants'), inbox', outbox')
      <3>1. p.pc # "idle" => p.msg[1] \in Jobs
        BY <2>11, MessageJob DEF Knows
      <3> QED
        BY <3>1, <2>1, <2>5, <2>7, <2>11 DEF Knows
    <2>12. WorkersKnow' /\ worker' \in [Workers -> Process]
      BY <2>8, <2>9, <2>10, <2>11, OneProcess
    <2>13. TypeOK'
      BY <2>5, <2>7, <2>12, RowsTyped, TypeParts, TypesFromParts DEF IInv
    <2>14. RoomsShaped' /\ WebCurrent' /\ ToldOnce' /\ FailureReceipted' /\ TellerJustified'
      BY <2>7, RoomKeeps
    <2>15. WorkFollows'
      BY <2>1, <2>5, <2>7 DEF IInv, WorkFollows
    <2>16. BoxesAgree'
      BY <2>1, <2>2, <2>5, <2>6, <2>7 DEF IInv, BoxesAgree
    <2>17. DeletedMarked'
      BY <2>7 DEF IInv, DeletedMarked
    <2> QED
      BY <2>5, <2>12, <2>13, <2>14, <2>15, <2>16, <2>17 DEF IInv
  <1> QED
    BY <1>1, <1>2

LEMMA MarkCompletionStep ==
  ASSUME IInv, NEW w \in Workers, MarkCompletion(w)
  PROVE  IInv'
  <1> DEFINE j == JobOf(w)
  <1>1. CASE outbox[j].token # worker[w].token
    BY <1>1, ExitStep DEF MarkCompletion, boxVars
  <1>2. CASE outbox[j].token = worker[w].token
    <2>1. /\ worker[w] \in Process
          /\ Knows(worker[w], jobs, Len(grants), inbox, outbox)
          /\ worker[w].pc = "completed"
          /\ worker[w].msg \in Messages
          /\ j \in Jobs
          /\ j = worker[w].msg[1]
      BY ProcessFacts DEF MarkCompletion, JobOf
    <2>2. jobs[j].status = "completed" /\ inbox[j] # None
      BY <2>1 DEF Knows
    <2>3. outbox[j] # None /\ outbox[j] \in [token : Nat, dispatched : BOOLEAN]
      BY <2>1, <2>2, TypeParts DEF IInv, BoxesAgree
    <2>4. outbox' = [outbox EXCEPT ![j] = [outbox[j] EXCEPT !.dispatched = TRUE]]
      BY <1>2 DEF MarkCompletion
    <2>5. /\ [outbox[j] EXCEPT !.dispatched = TRUE] \in [token : Nat, dispatched : BOOLEAN]
          /\ [outbox[j] EXCEPT !.dispatched = TRUE].token = outbox[j].token
          /\ [outbox[j] EXCEPT !.dispatched = TRUE].dispatched
      BY <2>3
    <2>6. /\ outbox' \in [Jobs -> [token : Nat, dispatched : BOOLEAN] \cup {None}]
          /\ outbox'[j] # None
          /\ outbox'[j].token = outbox[j].token
          /\ outbox'[j].dispatched
          /\ \A i \in Jobs \ {j} : outbox'[i] = outbox[i]
      BY <2>1, <2>4, <2>5, TypeParts, NoneAssumption DEF IInv
    <2>7. PICK new : /\ new = [worker[w] EXCEPT !.pc = "marked"]
                     /\ worker' = [worker EXCEPT ![w] = new]
      BY <1>2, TypeParts DEF IInv, MarkCompletion, Becomes
    <2> HIDE DEF j
    <2>8. /\ new \in Process
          /\ new.pc = "marked"
          /\ new.msg = worker[w].msg
          /\ new.token = worker[w].token
          /\ new.completion = worker[w].completion
      BY <2>1, <2>7, NewPc
    <2>9. jobs' = jobs /\ grants' = grants /\ inbox' = inbox
      BY DEF MarkCompletion, queueVars
    <2>10. Knows(new, jobs', Len(grants'), inbox', outbox')
      BY <2>1, <2>6, <2>8, <2>9 DEF Knows
    <2>11. ASSUME NEW p \in Process, Knows(p, jobs, Len(grants), inbox, outbox)
           PROVE  Knows(p, jobs', Len(grants'), inbox', outbox')
      <3>1. p.pc # "idle" => p.msg[1] \in Jobs
        BY <2>11, MessageJob DEF Knows
      <3> QED
        BY <3>1, <2>1, <2>6, <2>9, <2>11 DEF Knows
    <2>12. WorkersKnow' /\ worker' \in [Workers -> Process]
      BY <2>7, <2>8, <2>10, <2>11, OneProcess
    <2>13. QP!IInv' /\ Queue!TypeOK'
      BY RowsKeep DEF MarkCompletion, queueVars
    <2>14. TypeOK'
      BY <2>6, <2>12, <2>13, TypeParts, TypesFromParts DEF IInv, MarkCompletion, roomVars
    <2>15. RoomsShaped' /\ WebCurrent' /\ ToldOnce' /\ FailureReceipted' /\ TellerJustified'
      BY RoomKeeps DEF MarkCompletion, roomVars
    <2>16. WorkFollows'
      BY DEF IInv, WorkFollows, MarkCompletion, queueVars, roomVars
    <2>17. BoxesAgree'
      BY <2>1, <2>2, <2>6, <2>9 DEF IInv, BoxesAgree
    <2>18. DeletedMarked'
      <3>1. sqs' = sqs /\ \A m \in Messages : m[1] \in Jobs
        BY MessageJob DEF MarkCompletion
      <3> QED
        BY <3>1, <2>6 DEF IInv, DeletedMarked
    <2> QED
      BY <2>12, <2>13, <2>14, <2>15, <2>16, <2>17, <2>18 DEF IInv
  <1> QED
    BY <1>1, <1>2

\* commit_result on a job without a receipt, but for the room.
LEMMA StoredStep ==
  ASSUME IInv, NEW w \in Workers, worker[w].pc = "narrated", Holds(w),
         inbox[JobOf(w)] = None,
         NEW receipt \in Receipts,
         inbox' = [inbox EXCEPT ![JobOf(w)] = receipt],
         outbox' = [outbox EXCEPT ![JobOf(w)] = [token |-> worker[w].token, dispatched |-> FALSE]],
         worker' = [worker EXCEPT ![w].pc = "committed", ![w].completion = Completion(receipt)],
         UNCHANGED <<queueVars, work, web, sqs>>,
         room' \in Room \cup {None},
         room' # None => room # None /\ room'.version >= room.version
  PROVE  /\ TypeOK'
         /\ QP!IInv'
         /\ WorkFollows'
         /\ BoxesAgree'
         /\ DeletedMarked'
         /\ WorkersKnow'
         /\ inbox'[JobOf(w)] = receipt
         /\ receipt # None
         /\ \A i \in Jobs \ {JobOf(w)} : inbox'[i] = inbox[i]
  <1> DEFINE j == JobOf(w)
             token == worker[w].token
             row == [token |-> token, dispatched |-> FALSE]
  <1>1. /\ worker[w] \in Process
        /\ Knows(worker[w], jobs, Len(grants), inbox, outbox)
        /\ j \in Jobs
        /\ worker[w].msg \in Messages
        /\ jobs[j].status = "claimed"
        /\ jobs[j].ownership_token = token
        /\ j = worker[w].msg[1]
    BY ProcessFacts, HoldsFacts DEF JobOf
  <1>2. token \in 1..Len(grants) /\ token \in Nat
    BY <1>1 DEF Knows
  <1>3. inbox[j] = None /\ outbox[j] = None
    BY <1>1 DEF IInv, BoxesAgree
  <1>4. row \in [token : Nat, dispatched : BOOLEAN] /\ row # None
        /\ row.token = token /\ ~row.dispatched
    <2>1. row \in [token : Nat, dispatched : BOOLEAN]
      BY <1>2
    <2> QED
      BY <2>1, NoneAssumption
  <1>5. receipt # None /\ Completion(receipt) \in Completions
    BY NoneAssumption, CompletionType
  <1>6. PICK c, q, new :
          /\ c \in Completions
          /\ c = Completion(receipt)
          /\ q = [worker[w] EXCEPT !.pc = "committed"]
          /\ new = [q EXCEPT !.completion = c]
          /\ worker' = [worker EXCEPT ![w] = new]
    BY <1>5, TypeParts DEF IInv
  <1> HIDE DEF j, row
  <1>7. /\ new \in Process
        /\ new.pc = "committed"
        /\ new.msg = worker[w].msg
        /\ new.token = worker[w].token
        /\ new.completion = Completion(receipt)
    <2>1. q \in Process /\ q.pc = "committed" /\ q.msg = worker[w].msg /\ q.token = worker[w].token
      BY <1>1, <1>6, NewPc
    <2>2. /\ new \in Process
          /\ new.pc = q.pc
          /\ new.msg = q.msg
          /\ new.token = q.token
          /\ new.completion = c
      BY <1>6, <2>1 DEF Process
    <2> QED
      BY <1>6, <2>1, <2>2
  <1>8. /\ inbox' \in [Jobs -> Receipts \cup {None}]
        /\ inbox'[j] = receipt
        /\ \A i \in Jobs \ {j} : inbox'[i] = inbox[i]
    BY <1>1, TypeParts DEF IInv, j
  <1>9. /\ outbox' \in [Jobs -> [token : Nat, dispatched : BOOLEAN] \cup {None}]
        /\ outbox'[j] = row
        /\ \A i \in Jobs \ {j} : outbox'[i] = outbox[i]
    BY <1>1, <1>4, TypeParts DEF IInv, j, row
  <1>10. jobs' = jobs /\ grants' = grants
    BY DEF queueVars
  <1>11. Knows(new, jobs', Len(grants'), inbox', outbox')
    BY <1>1, <1>2, <1>4, <1>5, <1>7, <1>8, <1>9, <1>10 DEF Knows
  <1>12. ASSUME NEW p \in Process, Knows(p, jobs, Len(grants), inbox, outbox)
         PROVE  Knows(p, jobs', Len(grants'), inbox', outbox')
    <2>1. p.pc # "idle" => p.msg[1] \in Jobs
      BY <1>12, MessageJob DEF Knows
    <2>2. p.pc \in {"committed", "completed", "marked"} => p.msg[1] # j
      BY <1>3, <1>12 DEF Knows
    <2> QED
      BY <2>1, <2>2, <1>8, <1>9, <1>10, <1>12 DEF Knows
  <1>13. WorkersKnow' /\ worker' \in [Workers -> Process]
    BY <1>6, <1>7, <1>11, <1>12, OneProcess
  <1>14. QP!IInv' /\ Queue!TypeOK'
    BY RowsKeep DEF queueVars
  <1>15. TypeOK'
    BY <1>8, <1>9, <1>13, <1>14, TypeParts, TypesFromParts DEF IInv
  <1>16. WorkFollows'
    <2> SUFFICES ASSUME NEW i \in Jobs, work[i] # None, room' # None
                 PROVE  work[i].version <= room'.version
      BY <1>10 DEF IInv, WorkFollows
    <2>1. room \in Room /\ room' \in Room
      BY TypeParts, NoneAssumption DEF IInv
    <2>2. work[i].version \in Int /\ room.version \in Int /\ room'.version \in Int
      BY <2>1, TypeParts DEF IInv, Room, Versions
    <2>3. work[i].version <= room.version
      BY DEF IInv, WorkFollows
    <2> QED
      BY <2>2, <2>3
  <1>17. BoxesAgree'
    BY <1>1, <1>4, <1>5, <1>8, <1>9, <1>10 DEF IInv, BoxesAgree, row
  <1>18. DeletedMarked'
    <2>1. sqs' = sqs /\ \A m \in Messages : m[1] \in Jobs
      BY MessageJob
    <2> QED
      BY <2>1, <1>3, <1>9 DEF IInv, DeletedMarked
  <1> QED
    BY <1>5, <1>8, <1>13, <1>14, <1>15, <1>16, <1>17, <1>18 DEF j

\* A result that no longer fits: the room stays as it is.
LEMMA StaleStep ==
  ASSUME IInv, NEW j \in Jobs, inbox[j] = None, room # None,
         NEW receipt \in Receipts, receipt.outcome = "STALE",
         inbox'[j] = receipt, receipt # None,
         \A i \in Jobs \ {j} : inbox'[i] = inbox[i],
         UNCHANGED <<room, web, work>>
  PROVE  RoomsShaped' /\ WebCurrent' /\ ToldOnce' /\ FailureReceipted' /\ TellerJustified'
  <1>1. RoomsShaped' /\ WebCurrent'
    BY DEF IInv, RoomsShaped, WebCurrent, RoomShape
  <1>2. \A i \in Jobs : Applied(i)' <=> Applied(i)
    BY DEF Applied
  <1>3. ToldOnce'
    BY <1>2 DEF IInv, ToldOnce
  <1>4. FailureReceipted'
    BY DEF IInv, FailureReceipted
  <1>5. TellerJustified'
    BY DEF IInv, TellerJustified
  <1> QED
    BY <1>1, <1>3, <1>4, <1>5

\* The room a result fits is the one the job was begun with.
LEMMA FitsFacts ==
  ASSUME IInv, NEW j \in Jobs, room # None, Fits(j)
  PROVE  /\ room \in Room
         /\ RoomShape(room)
         /\ web = None
         /\ room.version \in Nat
         /\ room.version <= MaxVersion
         /\ room.status = "RESOLVING"
         /\ room.version = work[j].version
         /\ room.round = work[j].round
  BY TypeParts, PipelineAssumption
     DEF IInv, RoomsShaped, RoomShape, WebCurrent, Fits, Room, Versions

\* A failure: the fallback is offered, justified by this receipt.
LEMMA FailedStep ==
  ASSUME IInv, NEW j \in Jobs, inbox[j] = None, work[j] # None, room # None, Fits(j),
         NEW receipt \in Receipts, receipt.outcome = "FAILED",
         inbox'[j] = receipt, receipt # None,
         \A i \in Jobs \ {j} : inbox'[i] = inbox[i],
         room' = Bump(room, "RESOLUTION_FAILED"),
         UNCHANGED <<web, work>>
  PROVE  /\ room' \in Room
         /\ room'.version >= room.version
         /\ room'.version \in Versions
         /\ RoomsShaped' /\ WebCurrent' /\ ToldOnce' /\ FailureReceipted' /\ TellerJustified'
  <1>1. /\ room' \in Room
        /\ RoomShape(room')
        /\ room'.version = room.version + 1
        /\ room'.round = room.round
        /\ room'.status = "RESOLUTION_FAILED"
        /\ room'.entries = room.entries
    <2>1. "RESOLUTION_FAILED" \in Statuses
      BY DEF Statuses
    <2> QED
      BY <2>1, FitsFacts, BumpedRoom
  <1>2. room' # None
    BY <1>1, NoneAssumption
  <1>3. RoomsShaped' /\ WebCurrent'
    BY <1>1, FitsFacts DEF RoomsShaped, WebCurrent
  <1>4. \A i \in Jobs : Applied(i)' <=> Applied(i)
    BY DEF Applied
  <1>5. ToldOnce'
    BY <1>1, <1>4 DEF IInv, ToldOnce
  <1>6. FailureReceipted'
    BY <1>1, FitsFacts DEF FailureReceipted
  <1>7. TellerJustified'
    BY <1>1 DEF IInv, TellerJustified
  <1>8. room'.version >= room.version /\ room'.version \in Versions
    BY <1>1, FitsFacts DEF Room
  <1> QED
    BY <1>1, <1>3, <1>5, <1>6, <1>7, <1>8

\* A narration: the round is told, by the job begun last for it.
LEMMA AppliedStep ==
  ASSUME IInv, NEW j \in Jobs, inbox[j] = None, work[j] # None, room # None, Fits(j),
         NEW receipt \in Receipts, receipt.outcome = "APPLIED",
         inbox'[j] = receipt, receipt # None,
         \A i \in Jobs \ {j} : inbox'[i] = inbox[i],
         room' \in Tellings(room, j),
         UNCHANGED <<web, work>>
  PROVE  /\ room' \in Room
         /\ room'.version >= room.version
         /\ room'.version \in Versions
         /\ RoomsShaped' /\ WebCurrent' /\ ToldOnce' /\ FailureReceipted' /\ TellerJustified'
  <1> DEFINE last == Len(room.entries) + 1
  <1>1. /\ room' \in Room
        /\ RoomShape(room')
        /\ room'.version = room.version + 1
        /\ room'.entries = Append(room.entries, [round |-> room.round, teller |-> j])
        /\ Len(room.entries) = room.round - 1
        /\ room'.status \in {"COMPLETED", "COLLECTING_ACTIONS", "COMPLETION_AVAILABLE"}
        /\ room.round \in Rounds
    BY FitsFacts, ToldRoom
  <1>2. /\ DOMAIN room.entries = 1..Len(room.entries)
        /\ Len(room.entries) \in Nat
        /\ DOMAIN room'.entries = 1..last
        /\ room'.entries[last] = [round |-> room.round, teller |-> j]
        /\ \A i \in 1..Len(room.entries) : room'.entries[i] = room.entries[i]
    BY <1>1, FitsFacts, EntryAdded
  <1>3. /\ \A i \in 1..last : i \in 1..Len(room.entries) \/ i = last
        /\ 1..Len(room.entries) \subseteq 1..last
        /\ last \in 1..last
    BY <1>2
  <1> HIDE DEF last
  <1>4. room' # None
    BY <1>1, NoneAssumption
  <1>5. RoomsShaped' /\ WebCurrent' /\ FailureReceipted'
    BY <1>1, FitsFacts DEF RoomsShaped, WebCurrent, FailureReceipted
  <1>6. /\ \A i \in Jobs \ {j} : Applied(i)' <=> Applied(i)
        /\ Applied(j)'
        /\ ~Applied(j)
    BY DEF Applied
  <1>7. \A i \in 1..Len(room.entries) : room.entries[i].teller # j
    BY <1>2, <1>6 DEF IInv, ToldOnce
  <1>8. ToldOnce'
    <2>1. ASSUME NEW k \in Jobs
          PROVE  Applied(k)' <=> \E i \in DOMAIN room'.entries : room'.entries[i].teller = k
      <3>1. CASE k = j
        BY <1>2, <1>3, <1>6, <3>1
      <3>2. CASE k # j
        <4>1. Applied(k) <=> \E i \in DOMAIN room.entries : room.entries[i].teller = k
          BY DEF IInv, ToldOnce
        <4>2. room'.entries[last].teller # k
          BY <1>2, <3>2
        <4> QED
          BY <1>2, <1>3, <1>6, <3>2, <4>1, <4>2
      <3> QED
        BY <3>1, <3>2
    <2>2. ASSUME NEW k \in Jobs, NEW i \in 1..last, NEW h \in 1..last,
                 room'.entries[i].teller = k, room'.entries[h].teller = k
          PROVE  i = h
      <3>1. CASE k = j
        BY <1>2, <1>3, <1>7, <2>2, <3>1
      <3>2. CASE k # j
        <4>1. i \in 1..Len(room.entries) /\ h \in 1..Len(room.entries)
          BY <1>2, <1>3, <2>2, <3>2
        <4>2. room.entries[i].teller = k /\ room.entries[h].teller = k
          BY <1>2, <2>2, <4>1
        <4> QED
          BY <1>2, <4>1, <4>2 DEF IInv, ToldOnce
      <3> QED
        BY <3>1, <3>2
    <2> QED
      BY <1>2, <2>1, <2>2 DEF ToldOnce
  <1>9. TellerJustified'
    <2> SUFFICES ASSUME NEW i \in 1..last
                 PROVE  /\ room'.entries[i].round = i
                        /\ IF room'.entries[i].teller = "fallback"
                           THEN \E k \in Jobs : /\ work[k] # None /\ work[k].round = i
                                                /\ inbox'[k] # None
                                                /\ inbox'[k].outcome = "FAILED"
                           ELSE \A k \in Jobs : (work[k] # None /\ work[k].round = i) =>
                                  work[k].version <= work[room'.entries[i].teller].version
      BY <1>2 DEF TellerJustified
    <2>1. CASE i \in 1..Len(room.entries)
      BY <1>2, <2>1 DEF IInv, TellerJustified
    <2>2. CASE i = last
      <3>1. i = room.round
        BY <1>1, <2>2, PipelineAssumption DEF last, Rounds
      <3>2. \A k \in Jobs : work[k] # None => work[k].version <= work[j].version
        BY FitsFacts DEF IInv, WorkFollows
      <3>3. j # "fallback"
        BY NoneAssumption
      <3> QED
        BY <1>2, <2>2, <3>1, <3>2, <3>3
    <2> QED
      BY <1>3, <2>1, <2>2
  <1>10. room'.version >= room.version /\ room'.version \in Versions
    BY <1>1, FitsFacts DEF Room
  <1> QED
    BY <1>1, <1>5, <1>8, <1>9, <1>10

LEMMA CommitStep ==
  ASSUME IInv, NEW w \in Workers, Commit(w)
  PROVE  IInv'
  <1> DEFINE j == JobOf(w)
             n == worker[w].tale
             Stored(outcome, after) ==
               LET receipt == [outcome |-> outcome, result |-> n, after |-> after]
               IN /\ inbox' = [inbox EXCEPT ![j] = receipt]
                  /\ outbox' = [outbox EXCEPT ![j] = [token |-> worker[w].token,
                                                      dispatched |-> FALSE]]
                  /\ worker' = [worker EXCEPT ![w].pc = "committed",
                                              ![w].completion = Completion(receipt)]
  <1>1. /\ worker[w].pc = "narrated"
        /\ UNCHANGED <<queueVars, work, web, sqs>>
        /\ j \in Jobs
        /\ n \in Narrations
    BY ProcessFacts DEF Commit, Knows
  <1>2. CASE Exit(w) /\ UNCHANGED <<room, boxVars>>
    BY <1>1, <1>2, ExitStep DEF roomVars
  <1>3. CASE /\ Holds(w)
             /\ inbox[j] # None
             /\ worker' = [worker EXCEPT ![w].pc = "committed",
                                         ![w].completion = Completion(inbox[j])]
             /\ Retoken(j, worker[w].token)
             /\ UNCHANGED <<room, inbox>>
    BY <1>1, <1>3, ReplayStep DEF roomVars
  <1>4. CASE /\ Holds(w)
             /\ inbox[j] = None
             /\ room # None
             /\ CommitNew(w)
    <2>1. room \in Room /\ room.version \in Int
      BY <1>4, TypeParts DEF IInv, Room, Versions
    <2>2. work[j] # None
      BY <1>1, <1>4, HoldsFacts
    <2>3. CASE Stored("STALE", None) /\ UNCHANGED room
      <3> DEFINE receipt == [outcome |-> "STALE", result |-> n, after |-> None]
      <3>1. receipt \in Receipts
        BY <1>1 DEF Receipts
      <3>2. /\ inbox' = [inbox EXCEPT ![j] = receipt]
            /\ outbox' = [outbox EXCEPT ![j] = [token |-> worker[w].token, dispatched |-> FALSE]]
            /\ worker' = [worker EXCEPT ![w].pc = "committed", ![w].completion = Completion(receipt)]
        BY <2>3
      <3>3. receipt.outcome = "STALE"
        OBVIOUS
      <3> HIDE DEF receipt, Stored
      <3>4. /\ TypeOK' /\ QP!IInv' /\ WorkFollows' /\ BoxesAgree' /\ DeletedMarked' /\ WorkersKnow'
            /\ inbox'[j] = receipt
            /\ receipt # None
            /\ \A i \in Jobs \ {j} : inbox'[i] = inbox[i]
        <4>1. room' = room /\ room' \in Room \cup {None} /\ room'.version >= room.version
          BY <2>1, <2>3
        <4> QED
          BY <1>1, <1>4, <3>1, <3>2, <4>1, StoredStep
      <3>5. RoomsShaped' /\ WebCurrent' /\ ToldOnce' /\ FailureReceipted' /\ TellerJustified'
        BY <1>1, <1>4, <2>3, <3>1, <3>3, <3>4, StaleStep
      <3> QED
        BY <3>4, <3>5 DEF IInv
    <2>4. CASE /\ Fits(j)
               /\ room' = Bump(room, "RESOLUTION_FAILED")
               /\ Stored("FAILED", room'.version)
      <3> DEFINE receipt == [outcome |-> "FAILED", result |-> n, after |-> room'.version]
      <3>1. /\ inbox' = [inbox EXCEPT ![j] = receipt]
            /\ outbox' = [outbox EXCEPT ![j] = [token |-> worker[w].token, dispatched |-> FALSE]]
            /\ worker' = [worker EXCEPT ![w].pc = "committed", ![w].completion = Completion(receipt)]
        BY <2>4
      <3>2. receipt.outcome = "FAILED"
        OBVIOUS
      <3>3. room'.version \in Versions
        <4>1. "RESOLUTION_FAILED" \in Statuses
          BY DEF Statuses
        <4>2. room' \in Room
          BY <1>1, <1>4, <2>4, <4>1, FitsFacts, BumpedRoom
        <4> QED
          BY <4>2 DEF Room
      <3>4. receipt \in Receipts /\ receipt # None
        BY <1>1, <3>3, NoneAssumption DEF Receipts
      <3> HIDE DEF receipt, Stored
      <3>5. inbox'[j] = receipt /\ \A i \in Jobs \ {j} : inbox'[i] = inbox[i]
        BY <1>1, <3>1, TypeParts DEF IInv
      <3>6. /\ room' \in Room
            /\ room'.version >= room.version
            /\ RoomsShaped' /\ WebCurrent' /\ ToldOnce' /\ FailureReceipted' /\ TellerJustified'
        BY <1>1, <1>4, <2>2, <2>4, <3>2, <3>4, <3>5, FailedStep
      <3>7. TypeOK' /\ QP!IInv' /\ WorkFollows' /\ BoxesAgree' /\ DeletedMarked' /\ WorkersKnow'
        BY <1>1, <1>4, <3>1, <3>4, <3>6, StoredStep
      <3> QED
        BY <3>6, <3>7 DEF IInv
    <2>5. CASE /\ Fits(j)
               /\ room' \in Tellings(room, j)
               /\ Stored("APPLIED", room'.version)
      <3> DEFINE receipt == [outcome |-> "APPLIED", result |-> n, after |-> room'.version]
      <3>1. /\ inbox' = [inbox EXCEPT ![j] = receipt]
            /\ outbox' = [outbox EXCEPT ![j] = [token |-> worker[w].token, dispatched |-> FALSE]]
            /\ worker' = [worker EXCEPT ![w].pc = "committed", ![w].completion = Completion(receipt)]
        BY <2>5
      <3>2. receipt.outcome = "APPLIED"
        OBVIOUS
      <3>3. room'.version \in Versions
        <4>1. room' \in Room
          BY <1>1, <1>4, <2>5, FitsFacts, ToldRoom
        <4> QED
          BY <4>1 DEF Room
      <3>4. receipt \in Receipts /\ receipt # None
        BY <1>1, <3>3, NoneAssumption DEF Receipts
      <3> HIDE DEF receipt, Stored
      <3>5. inbox'[j] = receipt /\ \A i \in Jobs \ {j} : inbox'[i] = inbox[i]
        BY <1>1, <3>1, TypeParts DEF IInv
      <3>6. /\ room' \in Room
            /\ room'.version >= room.version
            /\ RoomsShaped' /\ WebCurrent' /\ ToldOnce' /\ FailureReceipted' /\ TellerJustified'
        BY <1>1, <1>4, <2>2, <2>5, <3>2, <3>4, <3>5, AppliedStep
      <3>7. TypeOK' /\ QP!IInv' /\ WorkFollows' /\ BoxesAgree' /\ DeletedMarked' /\ WorkersKnow'
        BY <1>1, <1>4, <3>1, <3>4, <3>6, StoredStep
      <3> QED
        BY <3>6, <3>7 DEF IInv
    <2> QED
      BY <1>4, <2>3, <2>4, <2>5 DEF CommitNew
  <1> QED
    BY <1>2, <1>3, <1>4 DEF Commit

-----------------------------------------------------------------------------
(* The invariant. *)

LEMMA FirstRoom ==
  ASSUME Init
  PROVE  /\ room \in Room
         /\ room # None
         /\ room.version = 1
         /\ room.round = 1
         /\ room.status \in {"COLLECTING_ACTIONS", "AWAITING_HOST", "AWAITING_SPARK"}
         /\ room.entries = <<>>
         /\ Len(room.entries) = 0
         /\ DOMAIN room.entries = {}
  <1>1. PICK status \in Openings :
          room = [version |-> 1, round |-> 1, status |-> status, entries |-> <<>>]
    BY DEF Init
  <1>2. /\ status \in {"COLLECTING_ACTIONS", "AWAITING_HOST", "AWAITING_SPARK"}
        /\ status \in Statuses
        /\ 1 \in Versions
        /\ 1 \in Rounds
    BY <1>1, PipelineAssumption DEF Statuses, Versions, Rounds
  <1>3. /\ <<>> \in Seq(Entries)
        /\ Len(<<>>) = 0
        /\ DOMAIN <<>> = {}
    BY EmptySeq
  <1>4. room \in Room
    BY <1>1, <1>2, <1>3 DEF Room, Entries
  <1> QED
    BY <1>1, <1>2, <1>3, <1>4, NoneAssumption

LEMMA InitInvariant == Init => IInv
  <1> SUFFICES ASSUME Init
               PROVE  IInv
    OBVIOUS
  <1>1. QP!IInv /\ Queue!TypeOK
    <2>1. QP!Init
      BY DEF Init, Queue!Init, QP!Init, Queue!NoJob, QP!NoJob, Queue!RowOf, QP!RowOf
    <2>2. QP!IInv
      BY <2>1, QueueConstants, QP!InitIInv
    <2> QED
      BY <2>2 DEF QP!IInv, Queue!TypeOK, QP!TypeOK, Queue!Row, QP!Row, Queue!Grants, QP!Grants
  <1>2. /\ room \in Room
        /\ room # None
        /\ room.version = 1
        /\ room.round = 1
        /\ room.status \in {"COLLECTING_ACTIONS", "AWAITING_HOST", "AWAITING_SPARK"}
        /\ room.entries = <<>>
        /\ Len(room.entries) = 0
        /\ DOMAIN room.entries = {}
    BY FirstRoom
  <1>3. 0 \in 0..MaxReceives
    BY PipelineAssumption
  <1>4. TypeOK
    BY <1>1, <1>2, <1>3, IdleProcess DEF Init, TypeOK
  <1>5. RoomsShaped /\ WebCurrent /\ FailureReceipted
    BY <1>2 DEF Init, RoomsShaped, RoomShape, WebCurrent, FailureReceipted
  <1>6. \A j \in Jobs : jobs[j].status = "absent"
    BY DEF Init, Queue!Init, Queue!NoJob, Queue!RowOf
  <1>7. WorkFollows /\ BoxesAgree /\ DeletedMarked
    BY <1>6 DEF Init, WorkFollows, BoxesAgree, DeletedMarked
  <1>8. WorkersKnow
    BY IdleProcess DEF Init, WorkersKnow
  <1>9. ToldOnce /\ TellerJustified
    BY <1>2 DEF Init, ToldOnce, TellerJustified, Applied
  <1> QED
    BY <1>1, <1>4, <1>5, <1>7, <1>8, <1>9 DEF IInv

LEMMA StutterInvariant ==
  ASSUME IInv, UNCHANGED vars
  PROVE  IInv'
  <1>1. UNCHANGED <<queueVars, work, boxVars, sqs, worker>> /\ room' = room /\ web' = web
    BY DEF vars, queueVars, boxVars
  <1>2. inbox' = inbox /\ work' = work
    BY DEF vars
  <1>3. RoomsShaped' /\ WebCurrent' /\ ToldOnce' /\ FailureReceipted' /\ TellerJustified'
    BY <1>1, <1>2, RoomKeeps
  <1>4. room' \in Room \cup {None} /\ web' \in Room \cup {None}
    BY <1>1, TypeParts DEF IInv
  <1>5. room' # None => room # None /\ room'.version >= room.version
    BY <1>1, <1>4 DEF Room, Versions
  <1> QED
    BY <1>1, <1>3, <1>4, <1>5, RoomStep

LEMMA WebInvariant ==
  ASSUME IInv, WebNext
  PROVE  IInv'
  <1>1. CASE SubmitAction
    BY <1>1, SaveStatusStep DEF SubmitAction, Statuses
  <1>2. CASE RollRound
    BY <1>2, SaveStatusStep DEF RollRound, Statuses
  <1>3. CASE DecideSpark
    BY <1>3, SaveStatusStep DEF DecideSpark, Statuses
  <1>4. CASE FinishGame
    BY <1>4, SaveStatusStep DEF FinishGame, Statuses
  <1> QED
    BY <1>1, <1>2, <1>3, <1>4, WebReadStep, WebDropStep, FallbackRoundStep,
       TransferPlayerStep, DeleteRoomStep, BeginStep DEF WebNext

LEMMA QueueInvariant ==
  ASSUME IInv, QueueNext
  PROVE  IInv'
  BY PublishStep, ElapseStep, VisibilityTimeoutStep, RedriveStep DEF QueueNext

LEMMA WorkerInvariant ==
  ASSUME IInv, NEW w \in Workers, WorkerStep(w) \/ Crash(w)
  PROVE  IInv'
  BY ReceiveStep, ClaimJobStep, ClaimExhaustedStep, ClaimRefusedStep, LookUpStep,
     NarrateStep, NarrateRetryableStep, GiveBackStep, CommitStep, CompleteJobStep,
     MarkCompletionStep, DeleteMessageStep, CrashStep DEF WorkerStep

LEMMA PipelineInvariant == Spec => []IInv
  <1>1. IInv /\ [Next]_vars => IInv'
    BY StutterInvariant, WebInvariant, QueueInvariant, WorkerInvariant DEF Next
  <1> QED
    BY <1>1, InitInvariant, PTL DEF Spec

-----------------------------------------------------------------------------
(* The theorems. *)

\* The types of the tables, the messages and the processes: however many jobs
\* are begun and however often their messages come back, no row counts more
\* attempts than max_attempts and no message more receives than the redrive
\* policy allows.
THEOREM PipelineTypeOK == Spec => []TypeOK
  <1>1. IInv => TypeOK
    BY DEF IInv
  <1> QED
    BY <1>1, PipelineInvariant, PTL

\* No acknowledgement runs ahead of the transaction it acknowledges.
THEOREM AcknowledgedLast == Spec => []AcksFollowCommit
  <1>1. IInv => AcksFollowCommit
    <2> SUFFICES ASSUME IInv, NEW j \in Jobs
                 PROVE  /\ (\E c \in 1..Copies : sqs[<<j, c>>].state = "deleted")
                             => outbox[j] # None /\ outbox[j].dispatched
                        /\ (outbox[j] # None /\ outbox[j].dispatched)
                             => jobs[j].status = "completed"
      BY DEF AcksFollowCommit
    <2>1. ASSUME NEW c \in 1..Copies, sqs[<<j, c>>].state = "deleted"
          PROVE  outbox[j] # None /\ outbox[j].dispatched
      <3>1. <<j, c>> \in Messages /\ <<j, c>>[1] = j
        BY DEF Messages
      <3> QED
        BY <2>1, <3>1 DEF IInv, DeletedMarked
    <2> QED
      BY <2>1 DEF IInv, BoxesAgree
  <1> QED
    BY <1>1, PipelineInvariant, PTL

\* The queue row, the receipt and the completion row of a completed job agree.
THEOREM CompletionsAgree == Spec => []CompletionAgrees
  <1>1. IInv => CompletionAgrees
    BY DEF IInv, BoxesAgree, CompletionAgrees
  <1> QED
    BY <1>1, PipelineInvariant, PTL

\* Every job with an applied receipt told the room exactly one round, every
\* other job none.
THEOREM ToldOncePerReceipt == Spec => []ReceiptMatchesRoom
  <1>1. IInv => ReceiptMatchesRoom
    <2> SUFFICES ASSUME IInv, room # None, NEW j \in Jobs
                 PROVE  Cardinality({i \in DOMAIN room.entries : room.entries[i].teller = j})
                          = IF inbox[j] # None /\ inbox[j].outcome = "APPLIED" THEN 1 ELSE 0
      BY DEF ReceiptMatchesRoom
    <2> DEFINE S == {i \in DOMAIN room.entries : room.entries[i].teller = j}
    <2>1. /\ Applied(j) <=> \E i \in DOMAIN room.entries : room.entries[i].teller = j
          /\ \A i, k \in DOMAIN room.entries :
               (room.entries[i].teller = j /\ room.entries[k].teller = j) => i = k
      BY DEF IInv, ToldOnce
    <2>2. CASE Applied(j)
      <3>1. PICK i \in DOMAIN room.entries : room.entries[i].teller = j
        BY <2>1, <2>2
      <3>2. S = {i}
        BY <2>1, <3>1
      <3>3. Cardinality(S) = 1
        BY <3>2, FS_Singleton
      <3> QED
        BY <2>2, <3>3 DEF Applied
    <2>3. CASE ~Applied(j)
      <3>1. S = {}
        BY <2>1, <2>3
      <3>2. Cardinality(S) = 0
        BY <3>1, FS_EmptySet
      <3> QED
        BY <2>3, <3>2 DEF Applied
    <2> QED
      BY <2>2, <2>3
  <1> QED
    BY <1>1, PipelineInvariant, PTL

\* Every round was told by the job begun last for it, or by the fallback after a
\* job of that round failed.
THEOREM TellersJustified == Spec => []TellerJustified
  <1>1. IInv => TellerJustified
    BY DEF IInv
  <1> QED
    BY <1>1, PipelineInvariant, PTL

-----------------------------------------------------------------------------
(* The rooms implement Chronicle. *)

PhaseOf(r) ==
  IF r = None THEN "gone"
  ELSE CASE r.status = "RESOLVING"         -> "resolving"
         [] r.status = "RESOLUTION_FAILED" -> "failed"
         [] r.status = "COMPLETED"         -> "ended"
         [] OTHER                          -> "acting"

ToldOf(r) ==
  IF r = None THEN <<>>
  ELSE [i \in DOMAIN r.entries |->
          IF r.entries[i].teller = "fallback" THEN "fallback" ELSE "storyteller"]

\* The steps of Chronicle, as steps of the room.
LEMMA ChronicleSteps ==
  /\ (PhaseOf(room') = PhaseOf(room) /\ ToldOf(room') = ToldOf(room)) => UNCHANGED Game!vars
  /\ (/\ PhaseOf(room) \in {"acting", "failed"}
      /\ PhaseOf(room') = "resolving"
      /\ ToldOf(room') = ToldOf(room)) => Game!Next
  /\ (/\ PhaseOf(room) = "resolving"
      /\ PhaseOf(room') = "failed"
      /\ ToldOf(room') = ToldOf(room)) => Game!Next
  /\ (/\ PhaseOf(room) = "acting"
      /\ ToldOf(room) # <<>>
      /\ PhaseOf(room') = "ended"
      /\ ToldOf(room') = ToldOf(room)) => Game!Next
  /\ (/\ PhaseOf(room) # "gone"
      /\ PhaseOf(room') = "gone"
      /\ ToldOf(room') = <<>>) => Game!Next
  /\ \A teller \in {"storyteller", "fallback"} :
       (/\ PhaseOf(room) = IF teller = "fallback" THEN "failed" ELSE "resolving"
        /\ ToldOf(room') = Append(ToldOf(room), teller)
        /\ PhaseOf(room') = IF Len(ToldOf(room')) = MaxRounds THEN "ended" ELSE "acting")
         => Game!Next
  BY DEF Game!vars, Game!Next, Game!Ask, Game!GiveUp, Game!Finish, Game!Delete, Game!Tell,
         PhaseOf, ToldOf

LEMMA ToldOfEntries ==
  ASSUME NEW r \in Room
  PROVE  /\ ToldOf(r) \in Seq({"storyteller", "fallback"})
         /\ Len(ToldOf(r)) = Len(r.entries)
         /\ \A i \in 1..Len(r.entries) :
              ToldOf(r)[i] = IF r.entries[i].teller = "fallback" THEN "fallback" ELSE "storyteller"
  <1>1. r # None
    BY NoneAssumption
  <1>2. r.entries \in Seq(Entries)
    BY DEF Room, Entries
  <1>3. DOMAIN r.entries = 1..Len(r.entries) /\ Len(r.entries) \in Nat
    BY <1>2, LenProperties
  <1>4. ToldOf(r) = [i \in 1..Len(r.entries) |->
                       IF r.entries[i].teller = "fallback" THEN "fallback" ELSE "storyteller"]
    BY <1>1, <1>3 DEF ToldOf
  <1> QED
    BY <1>3, <1>4

\* A new status.
LEMMA StatusSeen ==
  ASSUME NEW r \in Room, NEW new \in Room, new.entries = r.entries
  PROVE  ToldOf(new) = ToldOf(r)
  BY NoneAssumption DEF ToldOf

\* A round told.
LEMMA TellingSeen ==
  ASSUME NEW r \in Room, RoomShape(r), r.version <= MaxVersion, r.status # "COMPLETED",
         NEW teller \in Jobs \cup {"fallback"}, NEW new \in Tellings(r, teller),
         NEW voice, voice = IF teller = "fallback" THEN "fallback" ELSE "storyteller"
  PROVE  /\ ToldOf(new) = Append(ToldOf(r), voice)
         /\ PhaseOf(new) = IF Len(ToldOf(new)) = MaxRounds THEN "ended" ELSE "acting"
  <1>1. /\ new \in Room
        /\ new.entries = Append(r.entries, [round |-> r.round, teller |-> teller])
        /\ Len(r.entries) = r.round - 1
        /\ r.round \in Rounds
        /\ \/ r.round = MaxRounds /\ new.status = "COMPLETED"
           \/ r.round # MaxRounds /\ new.status \in {"COLLECTING_ACTIONS", "COMPLETION_AVAILABLE"}
    BY ToldRoom
  <1>2. r.entries \in Seq(Entries) /\ [round |-> r.round, teller |-> teller] \in Entries
    BY <1>1 DEF Room, Entries
  <1>3. /\ Len(r.entries) \in Nat
        /\ Len(new.entries) = Len(r.entries) + 1
        /\ new.entries[Len(r.entries) + 1].teller = teller
        /\ \A i \in 1..Len(r.entries) : new.entries[i] = r.entries[i]
    BY <1>1, <1>2, AppendProperties, LenProperties
  <1>4. /\ ToldOf(r) \in Seq({"storyteller", "fallback"})
        /\ Len(ToldOf(r)) = Len(r.entries)
        /\ ToldOf(new) \in Seq({"storyteller", "fallback"})
        /\ Len(ToldOf(new)) = Len(r.entries) + 1
    BY <1>1, <1>3, ToldOfEntries
  <1>5. voice \in {"storyteller", "fallback"}
    OBVIOUS
  <1>6. /\ Append(ToldOf(r), voice) \in Seq({"storyteller", "fallback"})
        /\ Len(Append(ToldOf(r), voice)) = Len(r.entries) + 1
        /\ Append(ToldOf(r), voice)[Len(r.entries) + 1] = voice
        /\ \A i \in 1..Len(r.entries) : Append(ToldOf(r), voice)[i] = ToldOf(r)[i]
    BY <1>4, <1>5, AppendProperties
  <1>7. ASSUME NEW i \in 1..(Len(r.entries) + 1)
        PROVE  ToldOf(new)[i] = Append(ToldOf(r), voice)[i]
    <2>1. ToldOf(new)[i] =
            IF new.entries[i].teller = "fallback" THEN "fallback" ELSE "storyteller"
      BY <1>1, <1>3, ToldOfEntries
    <2>2. CASE i \in 1..Len(r.entries)
      BY <1>3, <1>6, <2>1, <2>2, ToldOfEntries
    <2>3. CASE i = Len(r.entries) + 1
      BY <1>3, <1>6, <2>1, <2>3
    <2>4. i \in 1..Len(r.entries) \/ i = Len(r.entries) + 1
      BY <1>3
    <2> QED
      BY <2>2, <2>3, <2>4
  <1>8. ToldOf(new) = Append(ToldOf(r), voice)
    BY <1>4, <1>6, <1>7, SeqEqual
  <1>9. Len(ToldOf(new)) = r.round
    BY <1>1, <1>4, PipelineAssumption DEF Rounds
  <1>10. PhaseOf(new) = IF r.round = MaxRounds THEN "ended" ELSE "acting"
    BY <1>1, NoneAssumption DEF PhaseOf
  <1> QED
    BY <1>8, <1>9, <1>10

\* An action that gives the room a new status.
LEMMA StatusRefines ==
  ASSUME IInv, room # None, room.version <= MaxVersion, NEW status \in Statuses,
         room' = Bump(room, status),
         room.status = "COMPLETED" => status = "COMPLETED",
         status = "RESOLVING" => room.version < MaxVersion,
         status = "COMPLETION_AVAILABLE" => room.status = "COMPLETION_AVAILABLE"
  PROVE  /\ ToldOf(room') = ToldOf(room)
         /\ room # None /\ room' # None
         /\ room'.status = status
  <1>1. room \in Room /\ RoomShape(room)
    BY TypeParts DEF IInv, RoomsShaped
  <1>2. room' \in Room /\ room'.status = status /\ room'.entries = room.entries
    BY <1>1, BumpedRoom
  <1> QED
    BY <1>1, <1>2, StatusSeen, NoneAssumption

LEMMA SaveRefines ==
  ASSUME IInv, web # None,
         NEW saved \in SUBSET {"COLLECTING_ACTIONS", "AWAITING_HOST", "AWAITING_SPARK",
                               "RESOLVING"},
         web.status \in {"COLLECTING_ACTIONS", "AWAITING_HOST", "AWAITING_SPARK",
                         "COMPLETION_AVAILABLE"},
         WebSave({Bump(web, status) : status \in saved})
  PROVE  Game!Next \/ UNCHANGED Game!vars
  <1>1. PICK status \in saved : room' = Bump(room, status)
    BY WebReads DEF WebSave
  <1>2. /\ ToldOf(room') = ToldOf(room)
        /\ room # None
        /\ room' # None
        /\ room'.status = status
    BY <1>1, WebReads, StatusRefines DEF Statuses
  <1>3. PhaseOf(room) = "acting" /\ PhaseOf(room') \in {"acting", "resolving"}
    BY <1>1, <1>2, WebReads DEF PhaseOf
  <1> QED
    BY <1>2, <1>3, ChronicleSteps

LEMMA FinishRefines ==
  ASSUME IInv, FinishGame
  PROVE  Game!Next \/ UNCHANGED Game!vars
  <1>1. PICK status \in {"COLLECTING_ACTIONS", "COMPLETED"} : room' = Bump(room, status)
    BY WebReads DEF FinishGame, WebSave
  <1>2. /\ room \in Room
        /\ RoomShape(room)
        /\ room.version <= MaxVersion
        /\ room # None
        /\ room.status = "COMPLETION_AVAILABLE"
    BY WebReads DEF FinishGame
  <1>3. /\ ToldOf(room') = ToldOf(room)
        /\ room' # None
        /\ room'.status = status
    BY <1>1, <1>2, StatusRefines DEF Statuses
  <1>4. PhaseOf(room) = "acting" /\ PhaseOf(room') \in {"acting", "ended"}
    BY <1>1, <1>2, <1>3 DEF PhaseOf
  <1>5. ToldOf(room) # <<>>
    <2>1. Len(room.entries) = room.round - 1 /\ room.round > 1
      BY <1>2 DEF RoomShape
    <2>2. room.round \in Int
      BY <1>2 DEF Room, Rounds
    <2>3. Len(ToldOf(room)) = room.round - 1
      BY <1>2, <2>1, ToldOfEntries
    <2>4. Len(<<>>) = 0
      BY EmptySeq
    <2> QED
      BY <2>1, <2>2, <2>3, <2>4
  <1> QED
    BY <1>3, <1>4, <1>5, ChronicleSteps

LEMMA FallbackRefines ==
  ASSUME IInv, FallbackRound
  PROVE  Game!Next
  <1>1. /\ room # None
        /\ room \in Room
        /\ RoomShape(room)
        /\ room.version <= MaxVersion
        /\ room.status = "RESOLUTION_FAILED"
        /\ room' \in Tellings(room, "fallback")
    BY WebReads DEF FallbackRound, WebSave
  <1>2. /\ ToldOf(room') = Append(ToldOf(room), "fallback")
        /\ PhaseOf(room') = IF Len(ToldOf(room')) = MaxRounds THEN "ended" ELSE "acting"
    BY <1>1, TellingSeen
  <1>3. PhaseOf(room) = "failed"
    BY <1>1 DEF PhaseOf
  <1> QED
    BY <1>2, <1>3, ChronicleSteps

LEMMA TransferRefines ==
  ASSUME IInv, TransferPlayer
  PROVE  UNCHANGED Game!vars
  <1>1. /\ room # None
        /\ room.version < MaxVersion
        /\ room.version <= MaxVersion
        /\ room.status \in Statuses
        /\ room' = Bump(room, room.status)
    BY TypeParts, PipelineAssumption DEF IInv, TransferPlayer, WebFree, Room, Versions
  <1>2. ToldOf(room') = ToldOf(room) /\ room' # None /\ room'.status = room.status
    BY <1>1, StatusRefines
  <1>3. PhaseOf(room') = PhaseOf(room)
    BY <1>1, <1>2 DEF PhaseOf
  <1> QED
    BY <1>2, <1>3, ChronicleSteps

LEMMA BeginRefines ==
  ASSUME IInv, NEW j \in Jobs, Begin(j)
  PROVE  Game!Next \/ UNCHANGED Game!vars
  <1>1. /\ room # None
        /\ room.version < MaxVersion
        /\ room.version <= MaxVersion
        /\ room.status \in {"AWAITING_SPARK", "RESOLVING", "RESOLUTION_FAILED"}
        /\ room' = Bump(room, "RESOLVING")
    BY TypeParts, PipelineAssumption DEF IInv, Begin, WebFree, Room, Versions
  <1>2. ToldOf(room') = ToldOf(room) /\ room' # None /\ room'.status = "RESOLVING"
    BY <1>1, StatusRefines DEF Statuses
  <1>3. /\ PhaseOf(room) \in {"acting", "resolving", "failed"}
        /\ PhaseOf(room') = "resolving"
    BY <1>1, <1>2 DEF PhaseOf
  <1> QED
    BY <1>2, <1>3, ChronicleSteps

LEMMA SameRoomRefines ==
  ASSUME room' = room
  PROVE  UNCHANGED Game!vars
  BY DEF Game!vars

LEMMA DeleteRefines ==
  ASSUME DeleteRoom
  PROVE  Game!Next
  <1>1. room # None /\ room' = None
    BY DEF DeleteRoom, WebFree
  <1>2. PhaseOf(room) # "gone" /\ PhaseOf(room') = "gone" /\ ToldOf(room') = <<>>
    BY <1>1 DEF PhaseOf, ToldOf
  <1> QED
    BY <1>2, ChronicleSteps

LEMMA CommitRefines ==
  ASSUME IInv, NEW w \in Workers, Commit(w)
  PROVE  Game!Next \/ UNCHANGED Game!vars
  <1> DEFINE j == JobOf(w)
  <1>1. CASE room' = room
    BY <1>1, SameRoomRefines
  <1>2. j \in Jobs
    BY ProcessFacts DEF Commit
  <1>3. CASE room # None /\ Fits(j) /\ room' = Bump(room, "RESOLUTION_FAILED")
    <2>1. /\ room.version <= MaxVersion
          /\ room.status = "RESOLVING"
      BY <1>2, <1>3, FitsFacts
    <2>2. /\ ToldOf(room') = ToldOf(room)
          /\ room' # None
          /\ room'.status = "RESOLUTION_FAILED"
      BY <1>3, <2>1, StatusRefines DEF Statuses
    <2>3. PhaseOf(room) = "resolving" /\ PhaseOf(room') = "failed"
      BY <1>3, <2>1, <2>2 DEF PhaseOf
    <2> QED
      BY <2>2, <2>3, ChronicleSteps
  <1>4. CASE room # None /\ Fits(j) /\ room' \in Tellings(room, j)
    <2>1. /\ room \in Room
          /\ RoomShape(room)
          /\ room.version <= MaxVersion
          /\ room.status = "RESOLVING"
          /\ j # "fallback"
      BY <1>2, <1>4, FitsFacts, NoneAssumption
    <2>2. /\ ToldOf(room') = Append(ToldOf(room), "storyteller")
          /\ PhaseOf(room') = IF Len(ToldOf(room')) = MaxRounds THEN "ended" ELSE "acting"
      BY <1>2, <1>4, <2>1, TellingSeen
    <2>3. PhaseOf(room) = "resolving"
      BY <1>4, <2>1 DEF PhaseOf
    <2> QED
      BY <2>2, <2>3, ChronicleSteps
  <1> QED
    BY <1>1, <1>3, <1>4 DEF Commit, CommitNew

LEMMA NextRefines ==
  ASSUME IInv, [Next]_vars
  PROVE  Game!Next \/ UNCHANGED Game!vars
  <1>1. CASE WebNext
    <2>1. CASE SubmitAction
      BY <2>1, SaveRefines DEF SubmitAction
    <2>2. CASE RollRound
      BY <2>2, SaveRefines DEF RollRound
    <2>3. CASE DecideSpark
      BY <2>3, SaveRefines DEF DecideSpark
    <2>4. CASE WebRead \/ WebDrop
      BY <2>4, SameRoomRefines DEF WebRead, WebDrop
    <2> QED
      BY <1>1, <2>1, <2>2, <2>3, <2>4, FinishRefines, FallbackRefines, TransferRefines,
         DeleteRefines, BeginRefines DEF WebNext
  <1>2. CASE QueueNext
    <2>1. room' = room
      BY <1>2 DEF QueueNext, Publish, Elapse, VisibilityTimeout, Redrive, roomVars
    <2> QED
      BY <2>1, SameRoomRefines
  <1>3. ASSUME NEW w \in Workers, WorkerStep(w) \/ Crash(w)
        PROVE  Game!Next \/ UNCHANGED Game!vars
    <2>1. CASE Commit(w)
      BY <2>1, CommitRefines
    <2>2. CASE ~Commit(w)
      <3>1. room' = room
        BY <1>3, <2>2 DEF WorkerStep, Crash, Receive, ClaimJob, ClaimExhausted, ClaimRefused,
           LookUp, Narrate, NarrateRetryable, GiveBack, CompleteJob, MarkCompletion,
           DeleteMessage, roomVars
      <3> QED
        BY <3>1, SameRoomRefines
    <2> QED
      BY <2>1, <2>2
  <1>4. CASE UNCHANGED vars
    BY <1>4, SameRoomRefines DEF vars
  <1> QED
    BY <1>1, <1>2, <1>3, <1>4 DEF Next

LEMMA InitRefines == Init => Game!Init
  <1> SUFFICES ASSUME Init
               PROVE  PhaseOf(room) = "acting" /\ ToldOf(room) = <<>>
    BY DEF Game!Init, PhaseOf, ToldOf
  <1>1. /\ room \in Room
        /\ room # None
        /\ room.status \in {"COLLECTING_ACTIONS", "AWAITING_HOST", "AWAITING_SPARK"}
        /\ room.entries = <<>>
    BY FirstRoom
  <1>2. Len(ToldOf(room)) = 0 /\ ToldOf(room) \in Seq({"storyteller", "fallback"})
    BY <1>1, ToldOfEntries, EmptySeq
  <1> QED
    BY <1>1, <1>2, EmptySeq DEF PhaseOf

\* The rooms of the pipeline implement Chronicle: through all redeliveries,
\* crashes and superseded jobs each round is told once and in order, by the
\* storyteller or by the fallback after it failed, and nothing told is lost.
THEOREM RoomsToldAsChronicle == Spec => ToldAsChronicle
  <1>1. IInv /\ [Next]_vars => [Game!Next]_(Game!vars)
    BY NextRefines
  <1> QED
    BY <1>1, InitRefines, PipelineInvariant, PTL DEF Spec, ToldAsChronicle, Game!Spec

-----------------------------------------------------------------------------
(* The pipeline implements the queue: the worker processes, the web request  *)
(* that begins a job and the clock call only what StoryJobQueue offers, with *)
(* tokens that were issued and payloads that are completions.                *)

LEMMA CallsQueue ==
  ASSUME IInv, [Next]_vars
  PROVE  Queue!Next \/ UNCHANGED queueVars
  <1>1. ASSUME NEW j \in Jobs, Begin(j) PROVE Queue!Next
    BY <1>1 DEF Begin, Queue!Next
  <1>2. ASSUME NEW j \in Jobs, Elapse(j) PROVE Queue!Next
    BY <1>2 DEF Elapse, Queue!Next
  <1>3. 0 \in Queue!Lags
    BY PipelineAssumption DEF Queue!Lags
  <1>4. ASSUME NEW w \in Workers, ClaimJob(w) \/ ClaimExhausted(w)
        PROVE  Queue!Next
    <2>1. JobOf(w) \in Jobs
      BY <1>4, ProcessFacts DEF ClaimJob, ClaimExhausted
    <2>2. Queue!Claim(JobOf(w), w, 0)
      BY <1>4 DEF ClaimJob, ClaimExhausted, Queue!Claim
    <2> QED
      BY <1>3, <2>1, <2>2 DEF Queue!Next
  <1>5. ASSUME NEW w \in Workers, GiveBack(w)
        PROVE  Queue!Next \/ UNCHANGED queueVars
    <2>1. JobOf(w) \in Jobs /\ worker[w].token \in 1..Len(grants)
      BY <1>5, ProcessFacts DEF GiveBack, Knows
    <2>2. Queue!Fail(JobOf(w), worker[w].token, 0) \/ UNCHANGED queueVars
      BY <1>5 DEF GiveBack
    <2> QED
      BY <1>3, <2>1, <2>2 DEF Queue!Next
  <1>6. ASSUME NEW w \in Workers, CompleteJob(w)
        PROVE  Queue!Next \/ UNCHANGED queueVars
    <2>1. /\ worker[w] \in Process
          /\ Knows(worker[w], jobs, Len(grants), inbox, outbox)
          /\ worker[w].pc = "committed"
          /\ JobOf(w) \in Jobs
      BY <1>6, ProcessFacts DEF CompleteJob
    <2>2. /\ worker[w].token \in 1..Len(grants)
          /\ inbox[JobOf(w)] # None
          /\ worker[w].completion = Completion(inbox[JobOf(w)])
      BY <2>1 DEF Knows, JobOf
    <2>3. worker[w].completion \in Completions
      BY <2>1, <2>2, TypeParts, CompletionType DEF IInv
    <2>4. \/ Queue!Complete(JobOf(w), worker[w].token, worker[w].completion, 0)
          \/ UNCHANGED queueVars
      BY <1>6 DEF CompleteJob
    <2> QED
      BY <1>3, <2>1, <2>2, <2>3, <2>4 DEF Queue!Next
  <1>7. CASE WebNext
    BY <1>1, <1>7 DEF WebNext, WebRead, WebDrop, SubmitAction, RollRound, DecideSpark,
       FallbackRound, FinishGame, TransferPlayer, DeleteRoom, WebSave
  <1>8. CASE QueueNext
    BY <1>2, <1>8 DEF QueueNext, Publish, VisibilityTimeout, Redrive
  <1>9. ASSUME NEW w \in Workers, WorkerStep(w) \/ Crash(w)
        PROVE  Queue!Next \/ UNCHANGED queueVars
    BY <1>4, <1>5, <1>6, <1>9 DEF WorkerStep, Crash, Receive, ClaimRefused, LookUp, Narrate,
       NarrateRetryable, Commit, MarkCompletion, DeleteMessage
  <1> QED
    BY <1>7, <1>8, <1>9 DEF Next, vars, queueVars

\* Every behaviour of the pipeline is, on the job rows and the tokens issued, a
\* behaviour of StoryJobQueue: the worker processes and the web process never
\* change a row past its operations (story_resolution.py:158).
THEOREM PipelineImplementsQueue == Spec => Queue!Spec
  <1>1. Init => Queue!Init
    BY DEF Init
  <1>2. IInv /\ [Next]_vars => [Queue!Next]_(Queue!vars)
    BY CallsQueue DEF Queue!vars, queueVars
  <1> QED
    BY <1>1, <1>2, PipelineInvariant, PTL DEF Spec, Queue!Spec

\* The queue of StoryJobQueueProofs is the queue of the pipeline.
LEMMA SameQueue ==
  /\ Queue!Init => QP!Init
  /\ [Queue!Next]_(Queue!vars) => [QP!Next]_(QP!vars)
  <1>1. Queue!Init => QP!Init
    BY DEF Queue!Init, QP!Init, Queue!NoJob, QP!NoJob, Queue!RowOf, QP!RowOf
  <1>2. ASSUME NEW j PROVE /\ Queue!Enqueue(j) => QP!Enqueue(j)
                           /\ Queue!Elapse(j) => QP!Elapse(j)
    BY DEF Queue!Enqueue, QP!Enqueue, Queue!PendingRow, QP!PendingRow, Queue!RowOf, QP!RowOf,
           Queue!Elapse, QP!Elapse
  <1>3. ASSUME NEW j, NEW w, NEW lag PROVE Queue!Claim(j, w, lag) => QP!Claim(j, w, lag)
    <2>1. Queue!Grant(j, w, lag) => QP!Grant(j, w, lag)
      BY DEF Queue!Grant, QP!Grant, Queue!Claimable, QP!Claimable, Queue!LeaseActive,
             QP!LeaseActive, Queue!Exhausted, QP!Exhausted, Queue!ClaimedRow, QP!ClaimedRow,
             Queue!RowOf, QP!RowOf, Queue!NextToken, QP!NextToken
    <2>2. Queue!DeadLetterExpired(j, lag) => QP!DeadLetterExpired(j, lag)
      BY DEF Queue!DeadLetterExpired, QP!DeadLetterExpired, Queue!LeaseActive, QP!LeaseActive,
             Queue!Exhausted, QP!Exhausted, Queue!DeadLetteredRow, QP!DeadLetteredRow,
             Queue!RowOf, QP!RowOf
    <2> QED
      BY <2>1, <2>2 DEF Queue!Claim, QP!Claim
  <1>4. ASSUME NEW j, NEW token, NEW lag PROVE Queue!Fail(j, token, lag) => QP!Fail(j, token, lag)
    BY DEF Queue!Fail, QP!Fail, Queue!HoldsClaim, QP!HoldsClaim, Queue!LeaseActive,
           QP!LeaseActive, Queue!Exhausted, QP!Exhausted, Queue!DeadLetteredRow,
           QP!DeadLetteredRow, Queue!PendingRow, QP!PendingRow, Queue!RowOf, QP!RowOf
  <1>5. ASSUME NEW j, NEW token, NEW result, NEW lag
        PROVE  Queue!Complete(j, token, result, lag) => QP!Complete(j, token, result, lag)
    BY DEF Queue!Complete, QP!Complete, Queue!HoldsClaim, QP!HoldsClaim, Queue!LeaseActive,
           QP!LeaseActive, Queue!CompletedRow, QP!CompletedRow, Queue!RowOf, QP!RowOf
  <1>6. Queue!Lags = QP!Lags
    BY DEF Queue!Lags, QP!Lags
  <1>7. Queue!Next => QP!Next
    BY <1>2, <1>3, <1>4, <1>5, <1>6 DEF Queue!Next, QP!Next
  <1> QED
    BY <1>1, <1>7 DEF Queue!vars, QP!vars

\* What is proved of the queue holds in the pipeline, whatever redeliveries,
\* crashes and takeovers do: a row names the worker and the attempt of the token
\* issued last for its job, no attempt is made under two tokens, a job is given up
\* only when all its attempts are used, a finished job stays as it is, and a claim
\* passes on only once its lease is over.
THEOREM PipelineJobsFenced ==
  Spec => /\ [](Queue!HolderIsLatest /\ Queue!AttemptsAccounted /\ Queue!DeadLetterIsExhausted)
          /\ Queue!TerminalIsFinal
          /\ Queue!LeaseRespected
  <1>1. Spec => QP!Spec
    BY PipelineImplementsQueue, SameQueue, PTL DEF Queue!Spec, QP!Spec
  <1>2. /\ QP!Spec => []QP!HolderIsLatest
        /\ QP!Spec => []QP!AttemptsAccounted
        /\ QP!Spec => []QP!DeadLetterIsExhausted
        /\ QP!Spec => QP!TerminalIsFinal
        /\ QP!Spec => QP!LeaseRespected
    BY QueueConstants, QP!Fencing, QP!BoundedRetry, QP!GivesUpLast, QP!TerminalStays,
       QP!LeaseIsRespected
  <1>3. /\ QP!HolderIsLatest => Queue!HolderIsLatest
        /\ QP!AttemptsAccounted => Queue!AttemptsAccounted
        /\ QP!DeadLetterIsExhausted => Queue!DeadLetterIsExhausted
    BY DEF QP!HolderIsLatest, Queue!HolderIsLatest, QP!AttemptsAccounted,
       Queue!AttemptsAccounted, QP!DeadLetterIsExhausted, Queue!DeadLetterIsExhausted
  <1>4. QP!TerminalIsFinal => Queue!TerminalIsFinal
    BY PTL DEF QP!TerminalIsFinal, Queue!TerminalIsFinal, QP!vars, Queue!vars
  <1>5. QP!LeaseRespected => Queue!LeaseRespected
    BY PTL DEF QP!LeaseRespected, Queue!LeaseRespected, QP!vars, Queue!vars
  <1> QED
    BY <1>1, <1>2, <1>3, <1>4, <1>5, PTL

=============================================================================
