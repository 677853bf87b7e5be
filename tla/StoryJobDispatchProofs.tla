----------------------- MODULE StoryJobDispatchProofs -----------------------
(***************************************************************************)
(* Theorems about StoryJobDispatch, for any jobs, publishers and lease:    *)
(* rows pass the table's CHECK, leases exclude each other, running leases  *)
(* are respected, and the outbox implements SignalDelivery.                *)
(***************************************************************************)
EXTENDS StoryJobDispatch, TLAPS

Busy(p) == publisher[p].pc # "idle"

\* A process at work has a row that was inserted, under a token; what it will mark it has
\* sent.
AtWork ==
  \A p \in Publishers : Busy(p) =>
    /\ publisher[p].job \in Jobs /\ publisher[p].token \in Tokens
    /\ outbox[publisher[p].job].status # "none"
    /\ publisher[p].pc = "sent" => publisher[p].job \in sent

\* No two processes have the same token.
OwnTokens ==
  \A p, q \in Publishers : Busy(p) /\ Busy(q) /\ publisher[p].token = publisher[q].token => p = q

DInv == TypeOK /\ AtWork /\ OwnTokens

(***************************************************************************)
(* The steps                                                               *)
(***************************************************************************)
\* The rows the operations write.
LEMMA RowTypes ==
  /\ RowOf("none", NoToken, 0) \in Row
  /\ RowOf("pending", NoToken, 0) \in Row
  /\ RowOf("dispatched", NoToken, 0) \in Row
  /\ \A token \in Tokens, lag \in Lags : RowOf("publishing", token, LeaseDuration - lag) \in Row
<1>1. \A status \in {"none", "pending", "dispatched"} : RowOf(status, NoToken, 0) \in Row
  BY DEF RowOf, Row
<1>2. ASSUME NEW token \in Tokens, NEW lag \in Lags
      PROVE  RowOf("publishing", token, LeaseDuration - lag) \in Row
  <2>1. LeaseDuration - lag \in (-ClockLag)..LeaseDuration
    BY DispatchAssumption DEF Lags
  <2> QED BY <2>1 DEF RowOf, Row
<1> QED BY <1>1, <1>2

\* One row is replaced by another of its kind: not by none.
LEMMA RowReplaced ==
  ASSUME DInv, NEW j \in Jobs, NEW row \in Row, row.status # "none",
         outbox' = [outbox EXCEPT ![j] = row], publisher' = publisher, sent' = sent
  PROVE  DInv'
<1>1. TypeOK'
  BY DEF DInv, TypeOK
<1>2. AtWork'
  BY DEF DInv, AtWork, TypeOK, Busy
<1>3. OwnTokens'
  BY DEF DInv, OwnTokens, Busy
<1> QED BY <1>1, <1>2, <1>3 DEF DInv

\* One process goes idle; no row goes away.
LEMMA Idles ==
  ASSUME DInv, NEW p \in Publishers,
         publisher' = [publisher EXCEPT ![p] = Idle], sent' = sent,
         outbox' \in [Jobs -> Row],
         \A j \in Jobs : outbox[j].status # "none" => outbox'[j].status # "none"
  PROVE  DInv'
<1>1. Idle \in Process
  BY DEF Idle, Process
<1>2. TypeOK'
  BY <1>1 DEF DInv, TypeOK
<1>3. \A q \in Publishers : Busy(q)' => Busy(q) /\ publisher'[q] = publisher[q]
  BY DEF DInv, TypeOK, Busy, Idle
<1>4. AtWork'
  BY <1>3 DEF DInv, AtWork, Busy
<1>5. OwnTokens'
  BY <1>3 DEF DInv, OwnTokens, Busy
<1> QED BY <1>2, <1>4, <1>5 DEF DInv

\* One process moves on with its job and token.
LEMMA MovesOn ==
  ASSUME DInv, NEW p \in Publishers, NEW pc \in {"sent", "failed"}, publisher[p].pc = "claimed",
         publisher' = [publisher EXCEPT ![p].pc = pc], outbox' = outbox,
         sent \subseteq sent', sent' \subseteq sent \cup {publisher[p].job},
         pc = "sent" => publisher[p].job \in sent'
  PROVE  DInv'
<1>1. Busy(p) /\ publisher[p].job \in Jobs
  BY DEF DInv, AtWork, Busy
<1>2. TypeOK'
  <2>1. publisher' \in [Publishers -> Process]
    BY DEF DInv, TypeOK, Process
  <2> QED BY <1>1, <2>1 DEF DInv, TypeOK
<1>3. ASSUME NEW q \in Publishers, Busy(q)'
      PROVE  /\ Busy(q) /\ publisher'[q].job = publisher[q].job
             /\ publisher'[q].token = publisher[q].token
             /\ q # p => publisher'[q] = publisher[q]
             /\ q = p => publisher'[q].pc = pc
  BY <1>1, <1>3 DEF DInv, TypeOK, Process, Busy
<1>4. AtWork'
  <2> SUFFICES ASSUME NEW q \in Publishers, Busy(q)'
               PROVE  /\ publisher'[q].job \in Jobs /\ publisher'[q].token \in Tokens
                      /\ outbox'[publisher'[q].job].status # "none"
                      /\ publisher'[q].pc = "sent" => publisher'[q].job \in sent'
    BY DEF AtWork, Busy
  <2>1. publisher[q].job \in Jobs /\ publisher[q].token \in Tokens
        /\ outbox[publisher[q].job].status # "none"
        /\ (publisher[q].pc = "sent" => publisher[q].job \in sent)
    BY <1>3 DEF DInv, AtWork
  <2>2. publisher'[q].pc = "sent" => publisher'[q].job \in sent'
    BY <1>3, <2>1
  <2> QED BY <1>3, <2>1, <2>2
<1>5. OwnTokens'
  BY <1>3 DEF DInv, OwnTokens
<1> QED BY <1>2, <1>4, <1>5 DEF DInv

LEMMA InsertKeeps == ASSUME DInv, NEW j \in Jobs, Insert(j) PROVE DInv'
  BY RowTypes, RowReplaced DEF Insert, RowOf

\* Time passes for a row that is being published.
LEMMA ElapseKeeps == ASSUME DInv, NEW j \in Jobs, Elapse(j) PROVE DInv'
<1>1. outbox[j] \in Row /\ outbox[j].status = "publishing" /\ outbox[j].lease > -ClockLag
  BY DEF DInv, TypeOK, Elapse
<1>2. outbox[j] \in [status : {"publishing"}, lease_token : Tokens, lease : (-ClockLag)..LeaseDuration]
  BY <1>1 DEF Row
<1>3. [outbox[j] EXCEPT !.lease = @ - 1] \in Row
  <2>1. outbox[j].lease - 1 \in (-ClockLag)..LeaseDuration
    BY <1>1, <1>2, DispatchAssumption
  <2> QED BY <1>2, <2>1 DEF Row
<1>4. [outbox[j] EXCEPT !.lease = @ - 1].status # "none"
  BY <1>2
<1>5. outbox' = [outbox EXCEPT ![j] = [outbox[j] EXCEPT !.lease = @ - 1]]
  BY DEF Elapse, DInv, TypeOK
<1> QED BY <1>3, <1>4, <1>5, RowReplaced DEF Elapse

\* The token of a claim is nobody else's.
LEMMA ClaimKeeps == ASSUME DInv, NEW p \in Publishers, NEW lag \in Lags, ClaimOne(p, lag) PROVE DInv'
<1>1. PICK j \in Jobs, token \in Tokens :
        /\ FreshToken(token) /\ Claimable(j, lag)
        /\ outbox' = [outbox EXCEPT ![j] = RowOf("publishing", token, LeaseDuration - lag)]
        /\ publisher' = [publisher EXCEPT ![p] = [pc |-> "claimed", job |-> j, token |-> token]]
  BY DEF ClaimOne, Oldest
<1>2. sent' = sent /\ publisher[p].pc = "idle"
  BY DEF ClaimOne
<1>3. RowOf("publishing", token, LeaseDuration - lag) \in Row
  BY RowTypes
<1>4. TypeOK'
  <2>1. [pc |-> "claimed", job |-> j, token |-> token] \in Process
    BY DEF Process
  <2> QED BY <1>1, <1>2, <1>3, <2>1 DEF DInv, TypeOK
<1>5. \A q \in Publishers \ {p} : publisher'[q] = publisher[q]
  BY <1>1 DEF DInv, TypeOK
<1>6. publisher'[p] = [pc |-> "claimed", job |-> j, token |-> token]
  BY <1>1 DEF DInv, TypeOK
<1>7. \A i \in Jobs : outbox[i].status # "none" => outbox'[i].status # "none"
  BY <1>1 DEF DInv, TypeOK, RowOf
<1>8. outbox'[j].status = "publishing"
  BY <1>1 DEF DInv, TypeOK, RowOf
<1>9. AtWork'
  <2>1. ASSUME NEW q \in Publishers, q # p, publisher'[q].pc # "idle"
        PROVE  /\ publisher'[q].job \in Jobs /\ publisher'[q].token \in Tokens
               /\ outbox'[publisher'[q].job].status # "none"
               /\ publisher'[q].pc = "sent" => publisher'[q].job \in sent'
    BY <1>2, <1>5, <1>7, <2>1 DEF DInv, AtWork, Busy
  <2>2. /\ publisher'[p].job \in Jobs /\ publisher'[p].token \in Tokens
        /\ outbox'[publisher'[p].job].status # "none"
        /\ publisher'[p].pc # "sent"
    BY <1>6, <1>8
  <2> QED BY <2>1, <2>2 DEF AtWork, Busy
<1>10. OwnTokens'
  BY <1>1, <1>5, <1>6 DEF DInv, OwnTokens, Busy, FreshToken
<1> QED BY <1>4, <1>9, <1>10 DEF DInv

LEMMA SendKeeps == ASSUME DInv, NEW p \in Publishers, Send(p) PROVE DInv'
  BY MovesOn DEF Send

LEMMA SendFailsKeeps == ASSUME DInv, NEW p \in Publishers, SendFails(p) PROVE DInv'
  BY MovesOn DEF SendFails

\* What mark and release leave of the rows.
LEMMA RowsKept ==
  ASSUME DInv, NEW p \in Publishers, NEW status \in {"pending", "dispatched"},
         outbox' = [outbox EXCEPT ![publisher[p].job] = RowOf(status, NoToken, 0)] \/ outbox' = outbox
  PROVE  /\ outbox' \in [Jobs -> Row]
         /\ \A j \in Jobs : outbox[j].status # "none" => outbox'[j].status # "none"
  BY RowTypes DEF DInv, TypeOK, RowOf

LEMMA MarkKeeps == ASSUME DInv, NEW p \in Publishers, NEW lag \in Lags, MarkDispatched(p, lag) PROVE DInv'
  BY RowsKept, Idles DEF MarkDispatched

LEMMA ReleaseKeeps == ASSUME DInv, NEW p \in Publishers, NEW lag \in Lags, Release(p, lag) PROVE DInv'
  BY RowsKept, Idles DEF Release

LEMMA CrashKeeps == ASSUME DInv, NEW p \in Publishers, Crash(p) PROVE DInv'
  BY Idles DEF Crash, DInv, TypeOK

LEMMA DInit == Init => DInv
<1> SUFFICES ASSUME Init PROVE DInv
  OBVIOUS
<1>1. Idle \in Process
  BY DEF Idle, Process
<1>2. TypeOK
  BY <1>1, RowTypes DEF Init, TypeOK
<1>3. \A p \in Publishers : ~Busy(p)
  BY DEF Init, Busy, Idle
<1> QED BY <1>2, <1>3 DEF DInv, AtWork, OwnTokens

LEMMA DStep == DInv /\ [Next]_vars => DInv'
<1> SUFFICES ASSUME DInv, [Next]_vars PROVE DInv'
  OBVIOUS
<1>1. ASSUME NEW j \in Jobs, Insert(j) \/ Elapse(j) PROVE DInv'
  BY <1>1, InsertKeeps, ElapseKeeps
<1>2. ASSUME NEW p \in Publishers, Send(p) \/ SendFails(p) \/ Crash(p) PROVE DInv'
  BY <1>2, SendKeeps, SendFailsKeeps, CrashKeeps
<1>3. ASSUME NEW p \in Publishers, NEW lag \in Lags,
             ClaimOne(p, lag) \/ MarkDispatched(p, lag) \/ Release(p, lag)
      PROVE  DInv'
  BY <1>3, ClaimKeeps, MarkKeeps, ReleaseKeeps
<1>4. CASE UNCHANGED vars
  BY <1>4 DEF vars, DInv, TypeOK, AtWork, OwnTokens, Busy
<1> QED BY <1>1, <1>2, <1>3, <1>4 DEF Next

LEMMA DAlways == Spec => []DInv
  BY DInit, DStep, PTL DEF Spec

(***************************************************************************)
(* The theorems                                                            *)
(***************************************************************************)
\* Every row written passes the CHECK of migration 005: no statement of the publisher
\* fails on it.
THEOREM DispatchTypeOK == Spec => []TypeOK
<1>1. DInv => TypeOK
  BY DEF DInv
<1> QED BY <1>1, DAlways, PTL

\* Leases exclude each other: of two processes with the same row only one can mark or
\* release it (postgres_story_job_dispatch.py:93).
THEOREM LeasesExclude == Spec => []OneLeaseHolder
<1>1. DInv => OneLeaseHolder
  BY DEF DInv, OwnTokens, OneLeaseHolder, HoldsLease, Busy
<1> QED BY <1>1, DAlways, PTL

\* A running lease is never taken over, however old the clock reading of the claim
\* (postgres_story_job_dispatch.py:53-56).
THEOREM DispatchLeaseRespected == Spec => LeaseRespected
<1>1. ASSUME DInv, [Next]_vars, NEW j \in Jobs,
             outbox[j].status = "publishing", outbox'[j].status = "publishing",
             outbox'[j].lease_token # outbox[j].lease_token
      PROVE  outbox[j].lease <= 0
  <2>1. ASSUME NEW i \in Jobs, Insert(i) PROVE FALSE
    BY <1>1, <2>1 DEF Insert, RowOf, DInv, TypeOK
  <2>2. ASSUME NEW i \in Jobs, Elapse(i) PROVE FALSE
    <3>1. outbox' = [outbox EXCEPT ![i] = [outbox[i] EXCEPT !.lease = @ - 1]]
      BY <1>1, <2>2 DEF Elapse, DInv, TypeOK
    <3>2. outbox[i] \in Row
      BY <1>1 DEF DInv, TypeOK
    <3>3. [outbox[i] EXCEPT !.lease = @ - 1].lease_token = outbox[i].lease_token
      BY <3>2 DEF Row
    <3> QED BY <1>1, <3>1, <3>3 DEF DInv, TypeOK
  <2>3. ASSUME NEW p \in Publishers, Send(p) \/ SendFails(p) \/ Crash(p) PROVE FALSE
    BY <1>1, <2>3 DEF Send, SendFails, Crash
  <2>4. ASSUME NEW p \in Publishers, NEW lag \in Lags, MarkDispatched(p, lag) \/ Release(p, lag)
        PROVE  FALSE
    BY <1>1, <2>4 DEF MarkDispatched, Release, RowOf, DInv, TypeOK
  <2>5. ASSUME NEW p \in Publishers, NEW lag \in Lags, ClaimOne(p, lag) PROVE outbox[j].lease <= 0
    <3>1. PICK i \in Jobs, token \in Tokens :
            /\ Claimable(i, lag)
            /\ outbox' = [outbox EXCEPT ![i] = RowOf("publishing", token, LeaseDuration - lag)]
      BY <2>5 DEF ClaimOne, Oldest
    <3>2. i = j
      BY <1>1, <3>1 DEF DInv, TypeOK
    <3>3. outbox[j].lease + lag <= 0
      BY <1>1, <3>1, <3>2 DEF Claimable
    <3>4. outbox[j].lease \in Int /\ lag \in Nat
      BY <1>1, DispatchAssumption DEF DInv, TypeOK, Row, Lags
    <3> QED BY <3>3, <3>4
  <2>6. CASE UNCHANGED vars
    BY <1>1, <2>6 DEF vars
  <2> QED BY <1>1, <2>1, <2>2, <2>3, <2>4, <2>5, <2>6 DEF Next
<1>2. DInv /\ [Next]_vars =>
        [\A j \in Jobs :
           (/\ outbox[j].status = "publishing"
            /\ outbox'[j].status = "publishing"
            /\ outbox'[j].lease_token # outbox[j].lease_token) => outbox[j].lease <= 0]_vars
  BY <1>1
<1> QED BY <1>2, DAlways, PTL DEF Spec, LeaseRespected

(***************************************************************************)
(* The refinement                                                          *)
(***************************************************************************)
\* The signal of a row.
Signal(row) == CASE row.status = "none"       -> "none"
                 [] row.status = "dispatched" -> "closed"
                 [] OTHER                     -> "open"

Signalled == [j \in Jobs |-> Signal(outbox[j])]

\* A row that is replaced is a signal that is replaced.
LEMMA SignalReplaced ==
  ASSUME DInv, NEW j \in Jobs, NEW row, outbox' = [outbox EXCEPT ![j] = row]
  PROVE  Signalled' = [Signalled EXCEPT ![j] = Signal(row)]
  BY DEF DInv, TypeOK, Signalled

LEMMA SameSignal ==
  ASSUME DInv, NEW j \in Jobs, NEW row, outbox' = [outbox EXCEPT ![j] = row],
         Signal(row) = Signal(outbox[j])
  PROVE  Signalled' = Signalled
  BY SignalReplaced DEF Signalled

LEMMA AsOpen ==
  ASSUME NEW j \in Jobs, Signalled[j] = "none", Signalled' = [Signalled EXCEPT ![j] = "open"],
         UNCHANGED sent
  PROVE  Signals!Next
<1>1. Signals!Open(j)
  BY DEF Signals!Open, Signalled, Signal
<1> QED BY <1>1 DEF Signals!Next

LEMMA AsSend ==
  ASSUME NEW j \in Jobs, Signalled[j] # "none", sent' = sent \cup {j}, Signalled' = Signalled
  PROVE  Signals!Next
<1>1. Signals!Send(j)
  BY DEF Signals!Send, Signalled, Signal
<1> QED BY <1>1 DEF Signals!Next

LEMMA AsClose ==
  ASSUME NEW j \in Jobs, Signalled[j] = "open", j \in sent,
         Signalled' = [Signalled EXCEPT ![j] = "closed"], UNCHANGED sent
  PROVE  Signals!Next
<1>1. Signals!Close(j)
  BY DEF Signals!Close, Signalled, Signal
<1> QED BY <1>1 DEF Signals!Next

LEMMA AsStutter ==
  ASSUME Signalled' = Signalled, sent' = sent
  PROVE  UNCHANGED Signals!vars
  BY DEF Signals!vars, Signalled, Signal

\* A send in either form: the signal is there, and is sent now or perhaps not.
LEMMA SendMaps ==
  ASSUME DInv, NEW p \in Publishers, Busy(p), outbox' = outbox,
         sent' \in {sent, sent \cup {publisher[p].job}}
  PROVE  [Signals!Next]_(Signals!vars)
<1>1. publisher[p].job \in Jobs /\ Signalled[publisher[p].job] # "none"
  BY DEF DInv, AtWork, Signalled, Signal
<1>2. Signalled' = Signalled
  BY DEF Signalled
<1> QED BY <1>1, <1>2, AsSend, AsStutter

\* Marking a row closes a signal that was sent; the other rows that change stay open.
LEMMA MarkMaps ==
  ASSUME DInv, NEW p \in Publishers, NEW lag \in Lags, MarkDispatched(p, lag)
  PROVE  [Signals!Next]_(Signals!vars)
<1>1. CASE HoldsLease(p, lag)
  <2> DEFINE j == publisher[p].job
  <2>1. j \in Jobs /\ j \in sent
    BY DEF DInv, AtWork, Busy, MarkDispatched
  <2>2. Signalled[j] = "open"
    BY <1>1, <2>1 DEF HoldsLease, Signalled, Signal
  <2>3. Signalled' = [Signalled EXCEPT ![j] = "closed"]
    <3>1. outbox' = [outbox EXCEPT ![j] = RowOf("dispatched", NoToken, 0)]
      BY <1>1 DEF MarkDispatched
    <3>2. Signal(RowOf("dispatched", NoToken, 0)) = "closed"
      BY DEF Signal, RowOf
    <3> QED BY <2>1, <3>1, <3>2, SignalReplaced
  <2>4. UNCHANGED sent
    BY DEF MarkDispatched
  <2> QED BY <2>1, <2>2, <2>3, <2>4, AsClose
<1>2. CASE ~HoldsLease(p, lag)
  BY <1>2, AsStutter DEF MarkDispatched, Signalled
<1> QED BY <1>1, <1>2

LEMMA ReleaseMaps ==
  ASSUME DInv, NEW p \in Publishers, NEW lag \in Lags, Release(p, lag)
  PROVE  [Signals!Next]_(Signals!vars)
<1>1. CASE HoldsLease(p, lag)
  <2>1. publisher[p].job \in Jobs
    BY DEF DInv, AtWork, Busy, Release
  <2>2. Signal(outbox[publisher[p].job]) = Signal(RowOf("pending", NoToken, 0))
    BY <1>1 DEF HoldsLease, Signal, RowOf
  <2>3. Signalled' = Signalled
    BY <1>1, <2>1, <2>2, SameSignal DEF Release
  <2> QED BY <2>3, AsStutter DEF Release
<1>2. CASE ~HoldsLease(p, lag)
  BY <1>2, AsStutter DEF Release, Signalled
<1> QED BY <1>1, <1>2

LEMMA ClaimMaps ==
  ASSUME DInv, NEW p \in Publishers, NEW lag \in Lags, ClaimOne(p, lag)
  PROVE  [Signals!Next]_(Signals!vars)
<1>1. PICK j \in Jobs, token \in Tokens :
        /\ Claimable(j, lag)
        /\ outbox' = [outbox EXCEPT ![j] = RowOf("publishing", token, LeaseDuration - lag)]
  BY DEF ClaimOne, Oldest
<1>2. Signal(outbox[j]) = Signal(RowOf("publishing", token, LeaseDuration - lag))
  BY <1>1 DEF Claimable, Signal, RowOf
<1>3. Signalled' = Signalled
  BY <1>1, <1>2, SameSignal
<1> QED BY <1>3, AsStutter DEF ClaimOne

LEMMA InsertMaps ==
  ASSUME DInv, NEW j \in Jobs, Insert(j)
  PROVE  [Signals!Next]_(Signals!vars)
<1>1. Signalled[j] = "none"
  BY DEF Insert, Signalled, Signal
<1>2. Signalled' = [Signalled EXCEPT ![j] = "open"]
  <2>1. Signal(RowOf("pending", NoToken, 0)) = "open"
    BY DEF Signal, RowOf
  <2> QED BY <2>1, SignalReplaced DEF Insert
<1> QED BY <1>1, <1>2, AsOpen DEF Insert

LEMMA ElapseMaps ==
  ASSUME DInv, NEW j \in Jobs, Elapse(j)
  PROVE  [Signals!Next]_(Signals!vars)
<1>1. outbox' = [outbox EXCEPT ![j] = [outbox[j] EXCEPT !.lease = @ - 1]]
  BY DEF Elapse, DInv, TypeOK
<1>2. outbox[j] \in Row /\ outbox[j].status = "publishing"
  BY DEF DInv, TypeOK, Elapse
<1>3. [outbox[j] EXCEPT !.lease = @ - 1].status = "publishing"
  BY <1>2 DEF Row
<1>4. Signal([outbox[j] EXCEPT !.lease = @ - 1]) = Signal(outbox[j])
  BY <1>2, <1>3 DEF Signal
<1>5. Signalled' = Signalled
  BY <1>1, <1>4, SameSignal
<1> QED BY <1>5, AsStutter DEF Elapse

\* The outbox implements SignalDelivery: no row is closed whose message never reached the
\* queue, whatever is sent twice, fails or dies in between (story_job_publisher.py:13-22).
THEOREM SignalsImplemented == Spec => AtLeastOnce
<1>1. Init => Signals!Init
  BY DEF Init, RowOf, Signals!Init
<1>2. DInv /\ [Next]_vars => [Signals!Next]_(Signals!vars)
  <2> SUFFICES ASSUME DInv, [Next]_vars PROVE [Signals!Next]_(Signals!vars)
    OBVIOUS
  <2>1. ASSUME NEW j \in Jobs, Insert(j) \/ Elapse(j) PROVE [Signals!Next]_(Signals!vars)
    BY <2>1, InsertMaps, ElapseMaps
  <2>2. ASSUME NEW p \in Publishers, Send(p) \/ SendFails(p) PROVE [Signals!Next]_(Signals!vars)
    BY <2>2, SendMaps DEF Send, SendFails, Busy
  <2>3. ASSUME NEW p \in Publishers, Crash(p) PROVE [Signals!Next]_(Signals!vars)
    BY <2>3, AsStutter DEF Crash, Signalled
  <2>4. ASSUME NEW p \in Publishers, NEW lag \in Lags,
               ClaimOne(p, lag) \/ MarkDispatched(p, lag) \/ Release(p, lag)
        PROVE  [Signals!Next]_(Signals!vars)
    BY <2>4, ClaimMaps, MarkMaps, ReleaseMaps
  <2>5. CASE UNCHANGED vars
    BY <2>5, AsStutter DEF vars, Signalled
  <2> QED BY <2>1, <2>2, <2>3, <2>4, <2>5 DEF Next
<1> QED BY <1>1, <1>2, DAlways, PTL DEF Spec, AtLeastOnce, Signals!Spec

=============================================================================
