------------------------ MODULE StoryJobQueueProofs ------------------------
(***************************************************************************)
(* Safety of the job queue for any number of jobs and workers, any attempt *)
(* bound, any lease length and any lag of the callers' clocks.             *)
(***************************************************************************)
EXTENDS StoryJobQueue, SequenceTheorems, TLAPS

\* A row that was never inserted counts no attempt and a pending one still has an
\* attempt to spend.  Without this Grant could count past MaxAttempts, so the
\* properties are not inductive by themselves.
AttemptsLeft ==
  \A j \in Jobs :
    /\ jobs[j].status = "absent" => jobs[j].attempt_count = 0
    /\ jobs[j].status = "pending" => jobs[j].attempt_count < MaxAttempts

\* The inductive invariant.
IInv ==
  /\ TypeOK
  /\ AttemptsLeft
  /\ StateShape
  /\ HolderIsLatest
  /\ AttemptsAccounted
  /\ DeadLetterIsExhausted

-----------------------------------------------------------------------------
(* The rows the operations write are rows. *)

LEMMA NoJobType == NoJob \in Row
  BY QueueAssumption DEF NoJob, RowOf, Row

LEMMA PendingRowType ==
  ASSUME NEW n \in 0..MaxAttempts
  PROVE  /\ PendingRow(n) \in Row
         /\ PendingRow(n).status = "pending"
         /\ PendingRow(n).claimed_by = None
         /\ PendingRow(n).ownership_token = 0
         /\ PendingRow(n).lease = 0
         /\ PendingRow(n).attempt_count = n
         /\ PendingRow(n).result = None
         /\ PendingRow(n).terminal_error = "NULL"
  BY QueueAssumption DEF PendingRow, RowOf, Row

LEMMA ClaimedRowType ==
  ASSUME NEW w \in Workers, NEW token \in Nat, NEW lag \in Lags, NEW n \in 0..MaxAttempts
  PROVE  /\ ClaimedRow(w, token, lag, n) \in Row
         /\ ClaimedRow(w, token, lag, n).status = "claimed"
         /\ ClaimedRow(w, token, lag, n).claimed_by = w
         /\ ClaimedRow(w, token, lag, n).ownership_token = token
         /\ ClaimedRow(w, token, lag, n).attempt_count = n
         /\ ClaimedRow(w, token, lag, n).result = None
         /\ ClaimedRow(w, token, lag, n).terminal_error = "NULL"
  BY QueueAssumption DEF ClaimedRow, RowOf, Row, Lags

LEMMA DeadLetteredRowType ==
  ASSUME NEW n \in 0..MaxAttempts, NEW error \in {"LEASE_EXPIRED", "error_code"}
  PROVE  /\ DeadLetteredRow(n, error) \in Row
         /\ DeadLetteredRow(n, error).status = "dead-lettered"
         /\ DeadLetteredRow(n, error).claimed_by = None
         /\ DeadLetteredRow(n, error).ownership_token = 0
         /\ DeadLetteredRow(n, error).lease = 0
         /\ DeadLetteredRow(n, error).attempt_count = n
         /\ DeadLetteredRow(n, error).result = None
         /\ DeadLetteredRow(n, error).terminal_error # "NULL"
  BY QueueAssumption DEF DeadLetteredRow, RowOf, Row

LEMMA CompletedRowType ==
  ASSUME NEW row \in Row, NEW result \in Results
  PROVE  /\ CompletedRow(row, result) \in Row
         /\ CompletedRow(row, result).status = "completed"
         /\ CompletedRow(row, result).claimed_by = row.claimed_by
         /\ CompletedRow(row, result).ownership_token = row.ownership_token
         /\ CompletedRow(row, result).lease = 0
         /\ CompletedRow(row, result).attempt_count = row.attempt_count
         /\ CompletedRow(row, result).result = result
         /\ CompletedRow(row, result).terminal_error = "NULL"
  BY QueueAssumption DEF CompletedRow, RowOf, Row

\* What the n-th token was issued for.
LEMMA GrantType ==
  ASSUME TypeOK, NEW t \in 1..Len(grants)
  PROVE  /\ grants[t] \in Grants
         /\ grants[t].job \in Jobs
         /\ grants[t].attempt \in Nat
  <1>1. grants[t] \in Grants
    BY ElementOfSeq DEF TypeOK
  <1> QED
    BY <1>1, QueueAssumption DEF Grants

-----------------------------------------------------------------------------
(* A step other than Grant leaves the tokens alone and replaces one row by  *)
(* one that carries no token, or the token it carried before.              *)

Successor(old, new) ==
  /\ new \in Row
  /\ new.status # "absent"
  /\ new.attempt_count >= old.attempt_count
  /\ new.status = "pending" => new.attempt_count < MaxAttempts
  /\ new.status = "dead-lettered" => new.attempt_count = MaxAttempts
  /\ (new.claimed_by = None) <=> (new.status \notin {"claimed", "completed"})
  /\ (new.ownership_token = 0) <=> (new.status \notin {"claimed", "completed"})
  /\ (new.lease # 0) => (new.status = "claimed")
  /\ (new.result = None) <=> (new.status # "completed")
  /\ (new.terminal_error = "NULL") <=> (new.status # "dead-lettered")
  /\ (new.status \in {"claimed", "completed"}) =>
       /\ old.status = "claimed"
       /\ new.ownership_token = old.ownership_token
       /\ new.claimed_by = old.claimed_by
       /\ new.attempt_count = old.attempt_count

LEMMA OneRowStep ==
  ASSUME IInv, NEW j \in Jobs, NEW row,
         Successor(jobs[j], row),
         jobs' = [jobs EXCEPT ![j] = row], grants' = grants
  PROVE  IInv'
  <1> USE DEF IInv, Successor
  <1>0. /\ jobs \in [Jobs -> Row]
        /\ jobs'[j] = row
        /\ \A i \in Jobs : i # j => jobs'[i] = jobs[i]
    BY DEF TypeOK
  <1>1. TypeOK'
    BY DEF TypeOK
  <1>2. AttemptsLeft'
    BY <1>0 DEF AttemptsLeft
  <1>3. StateShape'
    BY <1>0 DEF StateShape
  <1>4. HolderIsLatest'
    BY <1>0 DEF HolderIsLatest
  <1>5. AttemptsAccounted'
    <2>1. \A i \in Jobs : jobs'[i].attempt_count >= jobs[i].attempt_count
      BY <1>0 DEF Row
    <2>2. \A t \in 1..Len(grants) : grants[t].job \in Jobs /\ grants[t].attempt \in Nat
      BY GrantType
    <2>3. \A i \in Jobs : jobs[i].attempt_count \in Nat /\ jobs'[i].attempt_count \in Nat
      BY <1>0, QueueAssumption DEF Row
    <2> SUFFICES ASSUME NEW t \in 1..Len(grants)
                 PROVE  /\ grants[t].attempt <= jobs'[grants[t].job].attempt_count
                        /\ \A s \in 1..(t - 1) :
                             grants[s].job = grants[t].job => grants[s].attempt < grants[t].attempt
      BY DEF AttemptsAccounted
    <2> DEFINE i == grants[t].job
    <2>4. grants[t].attempt <= jobs[i].attempt_count
      BY DEF AttemptsAccounted
    <2>5. /\ i \in Jobs /\ grants[t].attempt \in Nat
          /\ jobs[i].attempt_count \in Nat /\ jobs'[i].attempt_count \in Nat
          /\ jobs'[i].attempt_count >= jobs[i].attempt_count
      BY <2>1, <2>2, <2>3
    <2>6. grants[t].attempt <= jobs'[i].attempt_count
      <3> HIDE DEF i
      <3> QED BY <2>4, <2>5
    <2> QED
      BY <2>6 DEF AttemptsAccounted
  <1>6. DeadLetterIsExhausted'
    BY <1>0 DEF DeadLetterIsExhausted
  <1> QED
    BY <1>1, <1>2, <1>3, <1>4, <1>5, <1>6

-----------------------------------------------------------------------------
(* The operations. *)

LEMMA EnqueueStep ==
  ASSUME IInv, NEW j \in Jobs, Enqueue(j)
  PROVE  IInv'
  <1>1. jobs[j] \in Row
    BY DEF IInv, TypeOK
  <1>2. 0 \in 0..MaxAttempts /\ 0 < MaxAttempts
    BY QueueAssumption
  <1>3. jobs[j].attempt_count = 0
    BY DEF IInv, AttemptsLeft, Enqueue
  <1>4. Successor(jobs[j], PendingRow(0))
    BY <1>2, <1>3, PendingRowType DEF Successor
  <1> QED
    BY <1>4, OneRowStep DEF Enqueue

LEMMA GrantStep ==
  ASSUME IInv, NEW j \in Jobs, NEW w \in Workers, NEW lag \in Lags, Grant(j, w, lag)
  PROVE  IInv'
  <1> DEFINE n == jobs[j].attempt_count + 1
             row == ClaimedRow(w, NextToken, lag, n)
             g == [job |-> j, worker |-> w, attempt |-> n]
  <1> USE DEF IInv
  <1>0. /\ jobs \in [Jobs -> Row]
        /\ grants \in Seq(Grants)
        /\ jobs' = [jobs EXCEPT ![j] = row]
        /\ grants' = Append(grants, g)
    BY DEF TypeOK, Grant
  <1>1. n \in 1..MaxAttempts /\ n \in 0..MaxAttempts /\ jobs[j].attempt_count \in Nat
    BY <1>0, QueueAssumption DEF Grant, Claimable, Exhausted, AttemptsLeft, Row
  <1>2. NextToken \in Nat /\ NextToken = Len(grants) + 1 /\ NextToken # 0
    BY <1>0 DEF NextToken
  <1>3. /\ row \in Row
        /\ row.status = "claimed"
        /\ row.claimed_by = w
        /\ row.ownership_token = NextToken
        /\ row.attempt_count = n
        /\ row.result = None
        /\ row.terminal_error = "NULL"
    BY <1>1, <1>2, ClaimedRowType
  <1>4. g \in Grants
    BY <1>1 DEF Grants
  <1>5. /\ grants' \in Seq(Grants)
        /\ Len(grants') = Len(grants) + 1
        /\ grants'[Len(grants) + 1] = g
        /\ \A t \in 1..Len(grants) : grants'[t] = grants[t]
    BY <1>0, <1>4, AppendProperties
  <1>6. /\ jobs'[j] = row
        /\ \A i \in Jobs : i # j => jobs'[i] = jobs[i]
    BY <1>0
  <1> HIDE DEF n, row, g
  <1>7. Len(grants) \in Nat
    BY <1>0
  <1>8. \A t \in 1..Len(grants') : t \in 1..Len(grants) \/ t = Len(grants) + 1
    BY <1>5, <1>7
  <1>11. TypeOK'
    BY <1>0, <1>3, <1>5 DEF TypeOK
  <1>12. AttemptsLeft'
    BY <1>3, <1>6 DEF AttemptsLeft
  <1>13. StateShape'
    BY <1>2, <1>3, <1>6, QueueAssumption DEF StateShape
  <1>14. HolderIsLatest'
    <2> SUFFICES ASSUME NEW i \in Jobs, jobs'[i].status \in {"claimed", "completed"}
                 PROVE  /\ jobs'[i].ownership_token \in 1..Len(grants')
                        /\ grants'[jobs'[i].ownership_token] =
                             [job |-> i, worker |-> jobs'[i].claimed_by,
                              attempt |-> jobs'[i].attempt_count]
                        /\ \A t \in 1..Len(grants') :
                             grants'[t].job = i => t <= jobs'[i].ownership_token
      BY DEF HolderIsLatest
    <2>1. CASE i = j
      <3>1. grants'[jobs'[i].ownership_token] = [job |-> i, worker |-> w, attempt |-> n]
        BY <2>1, <1>2, <1>3, <1>5, <1>6 DEF g
      <3> QED
        BY <2>1, <3>1, <1>2, <1>3, <1>5, <1>6, <1>7, <1>8
    <2>2. CASE i # j
      <3>1. jobs'[i] = jobs[i] /\ jobs[i].ownership_token \in 1..Len(grants)
        BY <2>2, <1>6 DEF HolderIsLatest
      <3>2. grants'[Len(grants) + 1].job = j
        BY <1>5 DEF g
      <3> QED
        BY <2>2, <3>1, <3>2, <1>5, <1>7, <1>8 DEF HolderIsLatest
    <2> QED
      BY <2>1, <2>2
  <1>15. AttemptsAccounted'
    <2>1. \A i \in Jobs : jobs[i].attempt_count \in Nat
      BY <1>0, QueueAssumption DEF Row
    <2>2. \A t \in 1..Len(grants) :
            /\ grants[t].job \in Jobs
            /\ grants[t].attempt \in Nat
            /\ grants[t].attempt <= jobs[grants[t].job].attempt_count
      BY GrantType DEF AttemptsAccounted
    <2>3. /\ grants'[Len(grants) + 1].job = j
          /\ grants'[Len(grants) + 1].attempt = n
          /\ n = jobs[j].attempt_count + 1
      BY <1>5 DEF g, n
    <2> SUFFICES ASSUME NEW t \in 1..Len(grants')
                 PROVE  /\ grants'[t].attempt <= jobs'[grants'[t].job].attempt_count
                        /\ \A s \in 1..(t - 1) :
                             grants'[s].job = grants'[t].job =>
                               grants'[s].attempt < grants'[t].attempt
      BY DEF AttemptsAccounted
    <2>4. CASE t \in 1..Len(grants)
      <3>1. \A s \in 1..(t - 1) : s \in 1..Len(grants)
        BY <2>4, <1>7
      <3>2. grants'[t] = grants[t] /\ \A s \in 1..(t - 1) : grants'[s] = grants[s]
        BY <2>4, <3>1, <1>5
      <3>3. jobs[grants[t].job].attempt_count <= jobs'[grants[t].job].attempt_count
        <4>1. grants[t].job \in Jobs
          BY <2>2, <2>4
        <4>2. CASE grants[t].job = j
          BY <4>2, <2>1, <2>3, <1>3, <1>6
        <4>3. CASE grants[t].job # j
          BY <4>1, <4>3, <2>1, <1>6
        <4> QED BY <4>2, <4>3
      <3>4. jobs'[grants[t].job].attempt_count \in Nat
        BY <2>1, <2>2, <2>4, <1>1, <1>3, <1>6
      <3>5. /\ grants[t].attempt \in Nat /\ jobs[grants[t].job].attempt_count \in Nat
            /\ grants[t].attempt <= jobs[grants[t].job].attempt_count
        BY <2>1, <2>2, <2>4
      <3>6. grants[t].attempt <= jobs'[grants[t].job].attempt_count
        BY <3>3, <3>4, <3>5
      <3>7. \A s \in 1..(t - 1) :
              grants[s].job = grants[t].job => grants[s].attempt < grants[t].attempt
        BY <2>4 DEF AttemptsAccounted
      <3> QED
        BY <3>2, <3>6, <3>7
    <2>5. CASE t = Len(grants) + 1
      <3>1. \A s \in 1..(t - 1) : s \in 1..Len(grants)
        BY <2>5, <1>7
      <3>2. grants'[t].job = j /\ grants'[t].attempt = n /\ jobs'[j].attempt_count = n /\ n \in Nat
        BY <2>3, <2>5, <1>1, <1>3, <1>6
      <3>3. ASSUME NEW s \in 1..(t - 1), grants'[s].job = j
            PROVE  grants'[s].attempt < n
        <4>1. grants[s].attempt \in Nat /\ grants[s].attempt <= jobs[j].attempt_count
              /\ grants'[s] = grants[s] /\ jobs[j].attempt_count \in Nat
          BY <2>1, <2>2, <3>1, <3>3, <1>5
        <4> QED BY <4>1, <2>3
      <3> QED
        BY <3>2, <3>3
    <2> QED
      BY <2>4, <2>5, <1>8
  <1>16. DeadLetterIsExhausted'
    BY <1>3, <1>6 DEF DeadLetterIsExhausted
  <1> QED
    BY <1>11, <1>12, <1>13, <1>14, <1>15, <1>16

LEMMA DeadLetterExpiredStep ==
  ASSUME IInv, NEW j \in Jobs, NEW lag \in Lags, DeadLetterExpired(j, lag)
  PROVE  IInv'
  <1>1. jobs[j] \in Row
    BY DEF IInv, TypeOK
  <1>2. jobs[j].attempt_count \in 0..MaxAttempts /\ jobs[j].attempt_count = MaxAttempts
    BY <1>1, QueueAssumption DEF DeadLetterExpired, Exhausted, Row
  <1>3. Successor(jobs[j], DeadLetteredRow(jobs[j].attempt_count, "LEASE_EXPIRED"))
    BY <1>2, DeadLetteredRowType, QueueAssumption DEF Successor
  <1> QED
    BY <1>3, OneRowStep DEF DeadLetterExpired

LEMMA CompleteStep ==
  ASSUME IInv, NEW j \in Jobs, NEW token \in 1..Len(grants), NEW result \in Results,
         NEW lag \in Lags, Complete(j, token, result, lag)
  PROVE  IInv'
  <1>1. jobs[j] \in Row /\ jobs[j].status = "claimed"
    BY DEF IInv, TypeOK, Complete, HoldsClaim
  <1>2. jobs[j].attempt_count \in Nat
    BY <1>1, QueueAssumption DEF Row
  <1>3. /\ jobs[j].claimed_by # None
        /\ jobs[j].ownership_token # 0
        /\ jobs[j].terminal_error = "NULL"
    BY <1>1 DEF IInv, StateShape
  <1>4. jobs' = [jobs EXCEPT ![j] = CompletedRow(jobs[j], result)] /\ grants' = grants
    BY DEF Complete
  <1>5. result # None
    BY QueueAssumption
  <1>6. Successor(jobs[j], CompletedRow(jobs[j], result))
    BY <1>1, <1>2, <1>3, <1>5, CompletedRowType DEF Successor
  <1> QED
    BY <1>4, <1>6, OneRowStep

LEMMA FailStep ==
  ASSUME IInv, NEW j \in Jobs, NEW token \in 1..Len(grants), NEW lag \in Lags,
         Fail(j, token, lag)
  PROVE  IInv'
  <1>1. jobs[j] \in Row
    BY DEF IInv, TypeOK
  <1>2. jobs[j].attempt_count \in 0..MaxAttempts /\ jobs[j].attempt_count \in Nat
    BY <1>1, QueueAssumption DEF Row
  <1>3. CASE Exhausted(jobs[j])
    <2>1. jobs[j].attempt_count = MaxAttempts
      BY <1>2, <1>3, QueueAssumption DEF Exhausted
    <2>2. jobs' = [jobs EXCEPT ![j] = DeadLetteredRow(jobs[j].attempt_count, "error_code")]
      BY <1>3 DEF Fail
    <2>3. Successor(jobs[j], DeadLetteredRow(jobs[j].attempt_count, "error_code"))
      BY <1>2, <2>1, DeadLetteredRowType DEF Successor
    <2> QED
      BY <2>2, <2>3, OneRowStep DEF Fail
  <1>4. CASE ~Exhausted(jobs[j])
    <2>1. jobs[j].attempt_count < MaxAttempts
      BY <1>2, <1>4, QueueAssumption DEF Exhausted
    <2>2. jobs' = [jobs EXCEPT ![j] = PendingRow(jobs[j].attempt_count)]
      BY <1>4 DEF Fail
    <2>3. Successor(jobs[j], PendingRow(jobs[j].attempt_count))
      BY <1>2, <2>1, PendingRowType DEF Successor
    <2> QED
      BY <2>2, <2>3, OneRowStep DEF Fail
  <1> QED
    BY <1>3, <1>4

LEMMA ElapseStep ==
  ASSUME IInv, NEW j \in Jobs, Elapse(j)
  PROVE  IInv'
  <1> DEFINE row == [jobs[j] EXCEPT !.lease = @ - 1]
  <1>1. jobs[j] \in Row /\ jobs[j].status = "claimed" /\ jobs[j].lease > -ClockLag
    BY DEF IInv, TypeOK, Elapse
  <1>2. jobs[j].lease - 1 \in (-ClockLag)..LeaseDuration
    BY <1>1, QueueAssumption DEF Row
  <1>3. row \in Row
    BY <1>1, <1>2 DEF Row
  <1>4. /\ row.status = jobs[j].status
        /\ row.claimed_by = jobs[j].claimed_by
        /\ row.ownership_token = jobs[j].ownership_token
        /\ row.attempt_count = jobs[j].attempt_count
        /\ row.result = jobs[j].result
        /\ row.terminal_error = jobs[j].terminal_error
    BY <1>1 DEF Row
  <1>5. jobs' = [jobs EXCEPT ![j] = row] /\ grants' = grants
    BY DEF Elapse
  <1>6. jobs[j].attempt_count \in Nat
    BY <1>1, QueueAssumption DEF Row
  <1>7. Successor(jobs[j], row)
    BY <1>1, <1>3, <1>4, <1>6 DEF IInv, StateShape, Successor
  <1> HIDE DEF row
  <1> QED
    BY <1>5, <1>7, OneRowStep

-----------------------------------------------------------------------------
(* The specification. *)

LEMMA InitIInv == Init => IInv
  <1> SUFFICES ASSUME Init
               PROVE  IInv
    OBVIOUS
  <1>1. /\ \A j \in Jobs : jobs[j] = NoJob
        /\ jobs \in [Jobs -> Row]
        /\ grants = <<>>
    BY NoJobType DEF Init
  <1>2. grants \in Seq(Grants) /\ Len(grants) = 0
    BY <1>1
  <1>3. \A t \in 1..Len(grants) : FALSE
    BY <1>2
  <1> QED
    BY <1>1, <1>2, <1>3
    DEF IInv, TypeOK, AttemptsLeft, StateShape, HolderIsLatest, AttemptsAccounted,
        DeadLetterIsExhausted, NoJob, RowOf

LEMMA NextIInv == IInv /\ [Next]_vars => IInv'
  <1> SUFFICES ASSUME IInv, [Next]_vars
               PROVE  IInv'
    OBVIOUS
  <1>1. ASSUME NEW j \in Jobs, Enqueue(j)
        PROVE  IInv'
    BY <1>1, EnqueueStep
  <1>2. ASSUME NEW j \in Jobs, Elapse(j)
        PROVE  IInv'
    BY <1>2, ElapseStep
  <1>3. ASSUME NEW j \in Jobs, NEW lag \in Lags, NEW w \in Workers, Claim(j, w, lag)
        PROVE  IInv'
    BY <1>3, GrantStep, DeadLetterExpiredStep DEF Claim
  <1>4. ASSUME NEW j \in Jobs, NEW lag \in Lags, NEW token \in 1..Len(grants),
               NEW result \in Results, Complete(j, token, result, lag)
        PROVE  IInv'
    BY <1>4, CompleteStep
  <1>5. ASSUME NEW j \in Jobs, NEW lag \in Lags, NEW token \in 1..Len(grants),
               Fail(j, token, lag)
        PROVE  IInv'
    BY <1>5, FailStep
  <1>6. CASE UNCHANGED vars
    BY <1>6
    DEF vars, IInv, TypeOK, AttemptsLeft, StateShape, HolderIsLatest, AttemptsAccounted,
        DeadLetterIsExhausted
  <1> QED
    BY <1>1, <1>2, <1>3, <1>4, <1>5, <1>6 DEF Next

\* The inductive invariant holds of every reachable state of the queue.
THEOREM QueueInvariant == Spec => []IInv
  BY InitIInv, NextIInv, PTL DEF Spec

\* The rows and the issued tokens always have the types of the schema.
THEOREM QueueTypeOK == Spec => []TypeOK
  <1>1. IInv => TypeOK
    BY DEF IInv
  <1> QED
    BY <1>1, QueueInvariant, PTL

\* The operations never write a row that the CHECK constraint of story_jobs refuses.
THEOREM QueueStateShape == Spec => []StateShape
  <1>1. IInv => StateShape
    BY DEF IInv
  <1> QED
    BY <1>1, QueueInvariant, PTL

\* Fencing: only the token issued last for a job can be on its row.
THEOREM Fencing == Spec => []HolderIsLatest
  <1>1. IInv => HolderIsLatest
    BY DEF IInv
  <1> QED
    BY <1>1, QueueInvariant, PTL

\* Bounded retry: every token counts as one attempt, numbered upwards.
THEOREM BoundedRetry == Spec => []AttemptsAccounted
  <1>1. IInv => AttemptsAccounted
    BY DEF IInv
  <1> QED
    BY <1>1, QueueInvariant, PTL

\* No job is put aside while it has attempts left.
THEOREM GivesUpLast == Spec => []DeadLetterIsExhausted
  <1>1. IInv => DeadLetterIsExhausted
    BY DEF IInv
  <1> QED
    BY <1>1, QueueInvariant, PTL

\* A completed or dead-lettered row is never written again.
THEOREM TerminalStays == Spec => TerminalIsFinal
  <1>1. TypeOK /\ [Next]_vars =>
          [\A j \in Jobs : jobs[j].status \in {"completed", "dead-lettered"}
                             => jobs'[j] = jobs[j]]_vars
    <2> SUFFICES ASSUME TypeOK, Next, NEW i \in Jobs,
                        jobs[i].status \in {"completed", "dead-lettered"}
                 PROVE  jobs'[i] = jobs[i]
      BY DEF vars
    <2>1. \A j \in Jobs : Enqueue(j) => jobs'[i] = jobs[i]
      BY DEF Enqueue, TypeOK
    <2>2. \A j \in Jobs : Elapse(j) => jobs'[i] = jobs[i]
      BY DEF Elapse, TypeOK
    <2>3. \A j \in Jobs, w \in Workers, lag \in Lags : Claim(j, w, lag) => jobs'[i] = jobs[i]
      BY DEF Claim, Grant, Claimable, DeadLetterExpired, TypeOK
    <2>4. \A j \in Jobs, token \in 1..Len(grants), result \in Results, lag \in Lags :
            Complete(j, token, result, lag) => jobs'[i] = jobs[i]
      BY DEF Complete, HoldsClaim, TypeOK
    <2>5. \A j \in Jobs, token \in 1..Len(grants), lag \in Lags :
            Fail(j, token, lag) => jobs'[i] = jobs[i]
      BY DEF Fail, HoldsClaim, TypeOK
    <2> QED
      BY <2>1, <2>2, <2>3, <2>4, <2>5 DEF Next
  <1> QED
    BY <1>1, QueueTypeOK, PTL DEF Spec, TerminalIsFinal

\* No claim is taken over before its lease is over, whatever the clock lag.
THEOREM LeaseIsRespected == Spec => LeaseRespected
  <1>1. TypeOK /\ [Next]_vars =>
          [\A j \in Jobs :
             (/\ jobs[j].status = "claimed"
              /\ jobs'[j].status = "claimed"
              /\ jobs'[j].ownership_token # jobs[j].ownership_token)
             => jobs[j].lease <= 0]_vars
    <2> SUFFICES ASSUME TypeOK, Next, NEW i \in Jobs,
                        jobs[i].status = "claimed",
                        jobs'[i].status = "claimed",
                        jobs'[i].ownership_token # jobs[i].ownership_token
                 PROVE  jobs[i].lease <= 0
      BY DEF vars
    <2>0. jobs[i] \in Row /\ jobs[i].lease \in Int /\ Lags \subseteq Nat
      BY QueueAssumption DEF TypeOK, Row, Lags
    <2>1. ~ \E j \in Jobs : Enqueue(j)
      BY DEF Enqueue, TypeOK
    <2>2. ~ \E j \in Jobs : Elapse(j)
      <3> SUFFICES ASSUME NEW j \in Jobs, Elapse(j)
                   PROVE  FALSE
        OBVIOUS
      <3>1. jobs' = [jobs EXCEPT ![j] = [jobs[j] EXCEPT !.lease = jobs[j].lease - 1]]
        BY DEF Elapse
      <3>2. jobs'[i].ownership_token = jobs[i].ownership_token
        BY <2>0, <3>1 DEF TypeOK, Row
      <3> QED
        BY <3>2
    <2>3. ASSUME NEW j \in Jobs, NEW w \in Workers, NEW lag \in Lags, Claim(j, w, lag)
          PROVE  jobs[i].lease <= 0
      <3>1. i = j
        BY <2>3 DEF Claim, Grant, DeadLetterExpired, TypeOK
      <3>2. ~LeaseActive(jobs[i], lag)
        BY <2>3, <3>1 DEF Claim, Grant, Claimable, DeadLetterExpired
      <3> QED
        BY <2>0, <3>2 DEF LeaseActive
    <2>4. ~ \E j \in Jobs, token \in 1..Len(grants), result \in Results, lag \in Lags :
            Complete(j, token, result, lag)
      BY DEF Complete, CompletedRow, RowOf, TypeOK
    <2>5. ~ \E j \in Jobs, token \in 1..Len(grants), lag \in Lags : Fail(j, token, lag)
      <3> SUFFICES ASSUME NEW j \in Jobs, NEW token \in 1..Len(grants), NEW lag \in Lags,
                          Fail(j, token, lag)
                   PROVE  FALSE
        OBVIOUS
      <3>1. i = j
        BY DEF Fail, TypeOK
      <3>2. CASE Exhausted(jobs[j])
        BY <3>1, <3>2 DEF Fail, DeadLetteredRow, RowOf, TypeOK
      <3>3. CASE ~Exhausted(jobs[j])
        BY <3>1, <3>3 DEF Fail, PendingRow, RowOf, TypeOK
      <3> QED
        BY <3>2, <3>3
    <2> QED
      BY <2>1, <2>2, <2>3, <2>4, <2>5 DEF Next
  <1> QED
    BY <1>1, QueueTypeOK, PTL DEF Spec, LeaseRespected

=============================================================================
