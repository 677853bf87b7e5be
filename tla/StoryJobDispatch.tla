-------------------------- MODULE StoryJobDispatch --------------------------
(***************************************************************************)
(* The dispatch outbox (table story_job_dispatch_outbox) and the publisher *)
(* processes that move its rows to the queue.  A publisher claims the      *)
(* oldest waiting row under a lease, sends the signal, then marks the row; *)
(* each of the three is a call that can fail, and the process can die      *)
(* between any two of them.                                                *)
(*                                                                         *)
(* Lease times are kept as in StoryJobQueue: the time left, and a `lag'    *)
(* for a clock read before the row lock.  Lease tokens are secrets that    *)
(* are never repeated: a token nobody holds any more is as good as new.    *)
(***************************************************************************)
EXTENDS Integers, FiniteSets

CONSTANTS
  Jobs,           \* job identities, numbered in creation order
  Publishers,     \* publisher processes (the old one may outlive a restart)
  Tokens,         \* lease tokens
  NoToken,        \* SQL NULL
  LeaseDuration,  \* lease_duration, in ticks
  ClockLag        \* bound on the wait between reading the clock and the lock

ASSUME DispatchAssumption ==
  /\ Jobs \subseteq Nat
  /\ IsFiniteSet(Tokens)
  /\ Cardinality(Tokens) > Cardinality(Jobs) + Cardinality(Publishers)
  /\ NoToken \notin Tokens
  /\ LeaseDuration \in Nat \ {0}
  /\ ClockLag \in Nat

VARIABLES
  outbox,     \* the row of each job
  publisher,  \* what each publisher process is doing
  sent        \* the jobs whose signal reached the transport

vars == <<outbox, publisher, sent>>

Lags == 0..ClockLag

\* The CHECK story_job_dispatch_outbox_state_shape of migration 005.
Row ==
  [status : {"none", "pending", "dispatched"}, lease_token : {NoToken}, lease : {0}]
  \cup
  [status : {"publishing"}, lease_token : Tokens, lease : (-ClockLag)..LeaseDuration]

Process ==
  [pc    : {"idle", "claimed", "sent", "failed"},
   job   : Jobs \cup {0},
   token : Tokens \cup {NoToken}]

\* Every row the publishers write passes the table's CHECK; a process is in one of
\* the stages of run_once.
TypeOK ==
  /\ outbox \in [Jobs -> Row]
  /\ publisher \in [Publishers -> Process]
  /\ sent \subseteq Jobs

(***************************************************************************)
(* Rows and processes                                                      *)
(***************************************************************************)
RowOf(status, token, lease) ==
  [status |-> status, lease_token |-> token, lease |-> lease]

Idle == [pc |-> "idle", job |-> 0, token |-> NoToken]

\* Mutant: a row whose publisher died is never offered again.
Claimable_PendingOnly(j, lag) == outbox[j].status = "pending"

Claimable(j, lag) ==
  \/ outbox[j].status = "pending"
  \/ outbox[j].status = "publishing" /\ outbox[j].lease + lag <= 0

\* ORDER BY created_at, job_id LIMIT 1
Oldest(j, lag) ==
  /\ Claimable(j, lag)
  /\ \A i \in Jobs : Claimable(i, lag) => j <= i

\* A token that no row and no process holds.
FreshToken(token) ==
  /\ \A j \in Jobs : outbox[j].lease_token # token
  /\ \A p \in Publishers : publisher[p].token # token

\* Mutant: mark and release look at the status only.
HoldsLease_AnyToken(p, lag) == outbox[publisher[p].job].status = "publishing"

\* The WHERE clause of mark_dispatched and release.
HoldsLease(p, lag) ==
  LET row == outbox[publisher[p].job]
  IN /\ row.status = "publishing"
     /\ row.lease_token = publisher[p].token
     /\ row.lease + lag > 0

(***************************************************************************)
(* Actions                                                                 *)
(***************************************************************************)
\* begin_resolution inserts the row in the producer's transaction.
Insert(j) ==
  /\ outbox[j].status = "none"
  /\ \A i \in Jobs : i < j => outbox[i].status # "none"
  /\ outbox' = [outbox EXCEPT ![j] = RowOf("pending", NoToken, 0)]
  /\ UNCHANGED <<publisher, sent>>

\* claim_one
ClaimOne(p, lag) ==
  /\ publisher[p].pc = "idle"
  /\ \E j \in Jobs, token \in Tokens :
       /\ Oldest(j, lag)
       /\ FreshToken(token)
       /\ outbox' = [outbox EXCEPT ![j] = RowOf("publishing", token, LeaseDuration - lag)]
       /\ publisher' = [publisher EXCEPT ![p] = [pc |-> "claimed", job |-> j, token |-> token]]
  /\ UNCHANGED sent

\* transport.publish returns.
Send(p) ==
  /\ publisher[p].pc = "claimed"
  /\ sent' = sent \cup {publisher[p].job}
  /\ publisher' = [publisher EXCEPT ![p].pc = "sent"]
  /\ UNCHANGED outbox

\* transport.publish raises: the queue may have accepted the message or not.
SendFails(p) ==
  /\ publisher[p].pc = "claimed"
  /\ sent' \in {sent, sent \cup {publisher[p].job}}
  /\ publisher' = [publisher EXCEPT ![p].pc = "failed"]
  /\ UNCHANGED outbox

\* Mutant: the row is marked before the message is sent.
MarkDispatched_BeforeSend(p, lag) ==
  /\ publisher[p].pc \in {"claimed", "sent"}
  /\ IF HoldsLease(p, lag)
     THEN outbox' = [outbox EXCEPT ![publisher[p].job] = RowOf("dispatched", NoToken, 0)]
     ELSE UNCHANGED outbox
  /\ publisher' = [publisher EXCEPT ![p] = Idle]
  /\ UNCHANGED sent

\* mark_dispatched; on a lost lease it raises, the process exits and systemd
\* starts another one.
MarkDispatched(p, lag) ==
  /\ publisher[p].pc = "sent"
  /\ IF HoldsLease(p, lag)
     THEN outbox' = [outbox EXCEPT ![publisher[p].job] = RowOf("dispatched", NoToken, 0)]
     ELSE UNCHANGED outbox
  /\ publisher' = [publisher EXCEPT ![p] = Idle]
  /\ UNCHANGED sent

\* release, after a failed send; on a lost lease as above.
Release(p, lag) ==
  /\ publisher[p].pc = "failed"
  /\ IF HoldsLease(p, lag)
     THEN outbox' = [outbox EXCEPT ![publisher[p].job] = RowOf("pending", NoToken, 0)]
     ELSE UNCHANGED outbox
  /\ publisher' = [publisher EXCEPT ![p] = Idle]
  /\ UNCHANGED sent

\* The process dies anywhere; Restart=on-failure brings it back.
Crash(p) ==
  /\ publisher[p].pc # "idle"
  /\ publisher' = [publisher EXCEPT ![p] = Idle]
  /\ UNCHANGED <<outbox, sent>>

\* One tick of the time a lease has left.
Elapse(j) ==
  /\ outbox[j].status = "publishing"
  /\ outbox[j].lease > -ClockLag
  /\ outbox' = [outbox EXCEPT ![j].lease = @ - 1]
  /\ UNCHANGED <<publisher, sent>>

Init ==
  /\ outbox = [j \in Jobs |-> RowOf("none", NoToken, 0)]
  /\ publisher = [p \in Publishers |-> Idle]
  /\ sent = {}

Next ==
  \/ \E j \in Jobs : Insert(j) \/ Elapse(j)
  \/ \E p \in Publishers :
       \/ Send(p)
       \/ SendFails(p)
       \/ Crash(p)
       \/ \E lag \in Lags : ClaimOne(p, lag) \/ MarkDispatched(p, lag) \/ Release(p, lag)

Spec == Init /\ [][Next]_vars

\* run_publisher loops and time passes.  Strong fairness is about the
\* environment: a publisher that keeps trying is not unlucky forever, so now and
\* then a send succeeds, and is marked, before the lease is over.
Fairness ==
  /\ \A j \in Jobs : WF_vars(Elapse(j))
  /\ \A p \in Publishers :
       /\ WF_vars(ClaimOne(p, 0))
       /\ WF_vars(Send(p))
       /\ WF_vars(MarkDispatched(p, 0))
       /\ WF_vars(Release(p, 0))
       /\ SF_vars(Send(p) /\ HoldsLease(p, 0))
       /\ SF_vars(MarkDispatched(p, 0) /\ HoldsLease(p, 0))

FairSpec == Spec /\ Fairness

(***************************************************************************)
(* Properties                                                              *)
(***************************************************************************)

\* Nobody works on a row under somebody else's lease: the process whose token is
\* on a publishing row is the only one that can mark or release that row.
OneLeaseHolder ==
  \A p, q \in Publishers, lag \in Lags :
    /\ publisher[p].pc # "idle"
    /\ publisher[q].pc # "idle"
    /\ publisher[p].job = publisher[q].job
    /\ HoldsLease(p, lag)
    /\ HoldsLease(q, lag)
    => p = q

\* A running lease is never taken over.
LeaseRespected ==
  [][\A j \in Jobs :
       (/\ outbox[j].status = "publishing"
        /\ outbox'[j].status = "publishing"
        /\ outbox'[j].lease_token # outbox[j].lease_token) => outbox[j].lease <= 0]_vars

\* At-least-once: the outbox implements SignalDelivery, so no row is closed
\* whose message never reached the queue, whatever fails in between.
Signals == INSTANCE SignalDelivery WITH
  signal <- [j \in Jobs |-> CASE outbox[j].status = "none"       -> "none"
                              [] outbox[j].status = "dispatched" -> "closed"
                              [] OTHER                           -> "open"]

AtLeastOnce == Signals!Spec

\* Every waiting row is dispatched in the end, crashes and failed sends of the
\* publishers notwithstanding, and although failed rows go to the head again.
EveryRowDispatched ==
  \A j \in Jobs : outbox[j].status = "pending" ~> outbox[j].status = "dispatched"

=============================================================================
