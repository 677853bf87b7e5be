------------------------- MODULE RoomSessionsProofs -------------------------
(***************************************************************************)
(* Theorems about RoomSessions, for any number of seats and requests, any  *)
(* lifetimes, any clock and any number of restarts.                        *)
(*                                                                         *)
(* Everything follows from what is true of a room that may still be saved: *)
(* the row, and the copy the one operation under way has read.  Sound says *)
(* it of a room, and the inductive invariant says that both are sound.     *)
(***************************************************************************)
EXTENDS RoomSessions, TLAPS

Holding(r) == request[r] # None /\ request[r].phase = "holding"

(***************************************************************************)
(* What is true of a room that may still be saved                          *)
(***************************************************************************)
\* No session outlives the room, and nobody has more than a lifetime.
Fits(rm, n) ==
  /\ rm.expires <= n + Lifetime
  /\ \A a \in Actors : rm.session[a].expires <= rm.expires

\* A code was issued by a request that took effect, and belongs to one seat.
CodesIssued(rm, ef) ==
  /\ \A s \in Seats : rm.code[s] # None =>
       rm.code[s].id.key \in Requests /\ ef[rm.code[s].id.key] > 0
  /\ \A s, t \in Seats : rm.code[s] # None /\ rm.code[t] # None /\ s # t
       => rm.code[s].id # rm.code[t].id

\* Codes that were redeemed are consumed.
CodesSpent(rm, gr) ==
  \A g \in gr, s \in Seats :
    rm.code[s] # None /\ rm.code[s].id = g[1] => rm.code[s].consumed

\* No request comes from the future.
Seen(rm, rq) == \A r \in Requests : rq[r] # None => rq[r].version <= rm.version

\* The room shows of each request that took effect that it did: there is a newer
\* version, or the nickname is taken.
Shows(rm, q) ==
  IF q.op = "join_room_by_code" THEN Joined(rm, q.seat) ELSE rm.version > q.version

Settled(rm, rq, ef) ==
  \A r \in Requests : ef[r] > 0 => rq[r] # None /\ Shows(rm, rq[r])

\* A request was let in on the session on record, unless the version moved on.
LetIn(rm, q) ==
  /\ q.phase \in {"waiting", "holding"} /\ q.op \in HostOps \cup PlayerOps
  /\ rm.version = q.version
  => q.token = rm.session[q.actor].token

Authority(rm, rq) == \A r \in Requests : rq[r] # None => LetIn(rm, rq[r])

Sound(rm, n, rq, ef, gr) ==
  /\ Fits(rm, n)
  /\ CodesIssued(rm, ef) /\ CodesSpent(rm, gr)
  /\ Seen(rm, rq) /\ Settled(rm, rq, ef) /\ Authority(rm, rq)

(***************************************************************************)
(* The inductive invariant                                                 *)
(***************************************************************************)
Types ==
  /\ now \in 0..MaxTime /\ process \in 0..MaxRestarts
  /\ room \in Room \cup {None}
  /\ records \in [Requests -> Tokens \cup {None}]
  /\ request \in [Requests -> Request \cup {None}]
  /\ held \subseteq Actors \X Tokens
  /\ passed \subseteq Seats \X Tokens
  /\ granted \subseteq Tokens \X Tokens
  /\ effects \in [Requests -> Nat]
  /\ deleted \in BOOLEAN
  /\ \A r \in Requests : request[r] # None =>
       /\ request[r].phase = "holding" => request[r].read \in Room
       /\ request[r].phase = "answered" => request[r].result \in Tokens

\* Accepted for an operation that reads and saves: nothing in it is about time.
Decided(rm, q) ==
  /\ CheckVersion(rm, q)
  /\ \/ q.op \in JoinOps /\ rm.status = "LOBBY" /\ ~Joined(rm, q.seat)
     \/ q.op \in {"start_game", "update_character"} /\ rm.status = "LOBBY"
     \/ q.op \in {"submit_action", "finish_game"} /\ rm.status = "COLLECTING_ACTIONS"

\* One operation at most has read the room; nobody changes the row meanwhile, and
\* retention may remove it.
OneHolder ==
  \A r \in Requests : Holding(r) =>
    /\ room \in {None, request[r].read}
    /\ Decided(request[r].read, request[r])
    /\ \A t \in Requests : Holding(t) => t = r
    /\ ~deleted

LiveSound ==
  /\ room # None => Sound(room, now, request, effects, granted)
  /\ \A r \in Requests : Holding(r) =>
       Sound(request[r].read, now, request, effects, granted)

\* The codes that were redeemed had been issued.
GrantsIssued == \A g \in granted : g[1].key \in Requests /\ effects[g[1].key] > 0

SInv ==
  /\ Types /\ OneHolder /\ LiveSound /\ GrantsIssued
  /\ OnceAcrossRestarts /\ DeletedIsGone /\ CodeWorksOnce

(***************************************************************************)
(* What an accepted operation does to a room                               *)
(***************************************************************************)
\* The types of parts of a room that are written one at a time.
LEMMA RoomParts ==
  ASSUME NEW rm \in Room
  PROVE  /\ \A v \in Nat : [rm EXCEPT !.version = v] \in Room
         /\ \A st \in Statuses : [rm EXCEPT !.status = st] \in Room
         /\ \A e \in Nat : [rm EXCEPT !.expires = e] \in Room
         /\ \A a \in Actors, t \in Tokens \cup {None} : [rm EXCEPT !.session[a].token = t] \in Room
         /\ \A a \in Actors, e \in Nat : [rm EXCEPT !.session[a].expires = e] \in Room
         /\ \A s \in Seats, c \in TransferCode : [rm EXCEPT !.code[s] = c] \in Room
<1> USE DEF Room
<1>1. \A v \in Nat : [rm EXCEPT !.version = v] \in Room
  OBVIOUS
<1>2. \A st \in Statuses : [rm EXCEPT !.status = st] \in Room
  OBVIOUS
<1>3. \A e \in Nat : [rm EXCEPT !.expires = e] \in Room
  OBVIOUS
<1>4. \A a \in Actors, t \in Tokens \cup {None} : [rm EXCEPT !.session[a].token = t] \in Room
  OBVIOUS
<1>5. \A a \in Actors, e \in Nat : [rm EXCEPT !.session[a].expires = e] \in Room
  OBVIOUS
<1>6. \A s \in Seats, c \in TransferCode : [rm EXCEPT !.code[s] = c] \in Room
  OBVIOUS
<1> QED BY <1>1, <1>2, <1>3, <1>4, <1>5, <1>6

\* Refreshing moves the dates of the room and of one actor, and nothing else; the date
\* of the room never moves back, and nobody outlives it.
LEMMA Refreshed ==
  ASSUME now \in Nat, NEW rm \in Room, Fits(rm, now), NEW a \in Actors, NEW completed \in BOOLEAN
  PROVE  LET n == RefreshActivity(rm, a, completed)
         IN /\ n \in Room
            /\ n.version = rm.version /\ n.status = rm.status /\ n.code = rm.code
            /\ \A b \in Actors : n.session[b].token = rm.session[b].token
            /\ Fits(n, now) /\ rm.expires <= n.expires
            /\ rm.status = "COMPLETED" /\ ~completed => n.expires = rm.expires
<1> DEFINE activity == now + Lifetime
           e == IF completed \/ rm.status # "COMPLETED" THEN activity ELSE rm.expires
           n == RefreshActivity(rm, a, completed)
<1>1. /\ activity \in Nat /\ e \in Nat /\ rm.expires \in Nat
      /\ rm.expires <= e /\ e <= activity
  BY SessionsAssumption DEF Fits, Room
<1>2. Earlier(activity, e) \in Nat /\ Earlier(activity, e) <= e
  BY <1>1 DEF Earlier
<1>3. n = [[rm EXCEPT !.expires = e] EXCEPT !.session[a].expires = Earlier(activity, e)]
  BY DEF RefreshActivity
<1>4. n \in Room
  <2> HIDE DEF e, activity
  <2>1. [rm EXCEPT !.expires = e] \in Room
    BY <1>1, RoomParts
  <2>2. \A m \in Room, x \in Nat : [m EXCEPT !.session[a].expires = x] \in Room
    BY RoomParts
  <2> HIDE DEF n
  <2> QED BY <2>1, <2>2, <1>2, <1>3, Zenon
<1>5. /\ n.version = rm.version /\ n.status = rm.status /\ n.code = rm.code
      /\ n.expires = e
      /\ \A b \in Actors : n.session[b].token = rm.session[b].token
      /\ \A b \in Actors : n.session[b].expires =
            IF b = a THEN Earlier(activity, e) ELSE rm.session[b].expires
  BY <1>3 DEF Room
<1>6. \A b \in Actors : rm.session[b].expires \in Nat
  BY DEF Room
<1>7. Fits(n, now)
  BY <1>1, <1>2, <1>5, <1>6 DEF Fits
<1> QED BY <1>1, <1>4, <1>5, <1>7

\* The codes an operation leaves.
CodesAfter(rm, q, token) ==
  CASE q.op = "issue_transfer_code" ->
         [rm.code EXCEPT ![q.seat] =
            [id |-> token, expires |-> now + CodeLifetime, consumed |-> FALSE]]
    [] q.op = "redeem_transfer_code" ->
         [rm.code EXCEPT ![q.seat] = [@ EXCEPT !.consumed = TRUE]]
    [] OTHER -> rm.code

\* What is known of the room n that q leaves.
Moved(rm, q, token, n) ==
  /\ n \in Room
  /\ n.version = rm.version + 1
  /\ Fits(n, now)
  /\ \A s \in Seats : Joined(rm, s) => Joined(n, s)
  /\ q.op \in JoinOps \cup {"redeem_transfer_code"} => Joined(n, q.seat)
  /\ \A a \in Actors : a # q.seat \/ q.op \notin JoinOps \cup {"redeem_transfer_code"}
       => n.session[a].token = rm.session[a].token
  /\ rm.expires <= n.expires
  /\ rm.status = "COMPLETED" => n.status = "COMPLETED" /\ n.expires = rm.expires
  /\ n.code = CodesAfter(rm, q, token)

\* Every accepted operation but deletion leaves such a room.
LEMMA AfterMoved ==
  ASSUME now \in Nat, NEW rm \in Room, NEW q \in Request, NEW token \in Tokens,
         Fits(rm, now), Accepted(rm, q), q.op # "delete_room"
  PROVE  Moved(rm, q, token, After(rm, q, token))
<1> DEFINE next == [rm EXCEPT !.version = @ + 1]
           n == After(rm, q, token)
<1> SUFFICES Moved(rm, q, token, n)
  OBVIOUS
<1>1. /\ q.seat \in Seats /\ q.seat \in Actors /\ Host \in Actors /\ q.op \in Operations
      /\ Seats \subseteq Actors /\ token # None
      /\ token \in Tokens \cup {None}
  BY SessionsAssumption DEF Request, Actors
<1>2. /\ rm.version \in Nat /\ rm.expires \in Nat
      /\ rm.session \in [Actors -> [token : Tokens \cup {None}, expires : Nat]]
      /\ rm.code \in [Seats -> TransferCode \cup {None}]
  BY DEF Room
<1>3. /\ next \in Room /\ Fits(next, now)
      /\ next.version = rm.version + 1 /\ next.status = rm.status
      /\ next.expires = rm.expires /\ next.session = rm.session /\ next.code = rm.code
  <2>1. rm.version + 1 \in Nat
    BY <1>2
  <2>2. next \in Room
    BY <2>1, RoomParts
  <2>3. /\ next.version = rm.version + 1 /\ next.status = rm.status
        /\ next.expires = rm.expires /\ next.session = rm.session /\ next.code = rm.code
    BY DEF Room
  <2> QED BY <2>2, <2>3 DEF Fits
<1>10. q.op \notin {"issue_transfer_code", "redeem_transfer_code"}
       => CodesAfter(rm, q, token) = rm.code
  BY DEF CodesAfter
<1> HIDE DEF next
<1>4. CASE q.op \in JoinOps
  <2> DEFINE m == [next EXCEPT !.session[q.seat].token = token]
             k == RefreshActivity(m, q.seat, FALSE)
  <2>1. m \in Room
    BY <1>1, <1>3, RoomParts
  <2>2. /\ m.version = next.version /\ m.status = next.status
        /\ m.expires = next.expires /\ m.code = next.code
        /\ m.session = [next.session EXCEPT ![q.seat].token = token]
    BY <1>3 DEF Room
  <2>3. /\ \A b \in Actors : m.session[b].expires = next.session[b].expires
        /\ \A b \in Actors : m.session[b].token = IF b = q.seat THEN token ELSE next.session[b].token
    BY <1>1, <1>2, <1>3, <2>2
  <2>4. Fits(m, now)
    BY <1>3, <2>2, <2>3 DEF Fits
  <2> HIDE DEF m
  <2>5. /\ k \in Room
        /\ k.version = m.version /\ k.status = m.status /\ k.code = m.code
        /\ \A b \in Actors : k.session[b].token = m.session[b].token
        /\ Fits(k, now) /\ m.expires <= k.expires
    BY <1>1, <2>1, <2>4, Refreshed
  <2>6. n = k
    BY <1>4 DEF After, next, m, JoinOps
  <2>7. rm.status # "COMPLETED"
    BY <1>4 DEF Accepted, JoinOps
  <2> HIDE DEF k, n
  <2> QED
    BY <1>1, <1>3, <1>10, <1>4, <2>2, <2>3, <2>5, <2>6, <2>7 DEF Moved, Joined, JoinOps
<1>5. CASE q.op = "update_character"
  <2>1. n = next
    BY <1>5 DEF After, next, JoinOps
  <2> HIDE DEF n
  <2> QED BY <1>1, <1>2, <1>3, <1>10, <1>5, <2>1 DEF Moved, Joined, JoinOps
<1>6. CASE q.op = "submit_action"
  <2>1. n = RefreshActivity(next, q.seat, FALSE)
    BY <1>6 DEF After, next, JoinOps
  <2> HIDE DEF n
  <2>2. /\ n \in Room /\ Fits(n, now) /\ next.expires <= n.expires
        /\ n.version = next.version /\ n.status = next.status /\ n.code = next.code
        /\ \A b \in Actors : n.session[b].token = next.session[b].token
        /\ next.status = "COMPLETED" => n.expires = next.expires
    BY <1>1, <1>3, <2>1, Refreshed
  <2> QED BY <1>1, <1>3, <1>10, <1>6, <2>2 DEF Moved, Joined, JoinOps
<1>7. CASE q.op \in {"start_game", "finish_game"}
  <2> DEFINE st == IF q.op = "start_game" THEN "COLLECTING_ACTIONS" ELSE "COMPLETED"
             m == [next EXCEPT !.status = st]
             last == q.op = "finish_game"
             k == RefreshActivity(m, Host, last)
  <2>1. st \in Statuses
    BY DEF Statuses
  <2> HIDE DEF st
  <2>2. m \in Room
    BY <1>3, <2>1, RoomParts
  <2>3. /\ m.version = next.version /\ m.session = next.session
        /\ m.expires = next.expires /\ m.code = next.code
    BY <1>3 DEF Room
  <2>4. Fits(m, now)
    BY <1>3, <2>3 DEF Fits
  <2> HIDE DEF m
  <2>5. /\ k \in Room
        /\ k.version = m.version /\ k.code = m.code
        /\ \A b \in Actors : k.session[b].token = m.session[b].token
        /\ Fits(k, now) /\ m.expires <= k.expires
    <3>1. last \in BOOLEAN
      OBVIOUS
    <3> HIDE DEF k, last
    <3> QED BY <1>1, <2>2, <2>4, <3>1, Refreshed DEF k
  <2>6. n = k
    <3>1. CASE q.op = "start_game"
      BY <3>1 DEF After, next, m, st, k, last, JoinOps
    <3>2. CASE q.op = "finish_game"
      BY <3>2 DEF After, next, m, st, k, last, JoinOps
    <3> QED BY <1>7, <3>1, <3>2
  <2>7. rm.status # "COMPLETED"
    BY <1>7 DEF Accepted, JoinOps
  <2> HIDE DEF k, n
  <2> QED
    BY <1>1, <1>3, <1>10, <1>7, <2>3, <2>5, <2>6, <2>7 DEF Moved, Joined, JoinOps
<1>8. CASE q.op = "issue_transfer_code"
  <2> DEFINE c == [id |-> token, expires |-> now + CodeLifetime, consumed |-> FALSE]
             m == [next EXCEPT !.code[q.seat] = c]
             k == RefreshActivity(m, Host, FALSE)
  <2>1. c \in TransferCode
    BY SessionsAssumption DEF TransferCode
  <2> HIDE DEF c
  <2>2. m \in Room
    BY <1>1, <1>3, <2>1, RoomParts
  <2>3. /\ m.version = next.version /\ m.session = next.session /\ m.status = next.status
        /\ m.expires = next.expires /\ m.code = [next.code EXCEPT ![q.seat] = c]
    BY <1>3 DEF Room
  <2>4. Fits(m, now)
    BY <1>3, <2>3 DEF Fits
  <2> HIDE DEF m
  <2>5. /\ k \in Room
        /\ k.version = m.version /\ k.code = m.code /\ k.status = m.status
        /\ \A b \in Actors : k.session[b].token = m.session[b].token
        /\ Fits(k, now) /\ m.expires <= k.expires
        /\ m.status = "COMPLETED" => k.expires = m.expires
    BY <1>1, <2>2, <2>4, Refreshed
  <2>6. n = k
    BY <1>8 DEF After, next, m, c, JoinOps
  <2> HIDE DEF k, n
  <2>7. n.code = CodesAfter(rm, q, token)
    BY <1>3, <1>8, <2>3, <2>5, <2>6 DEF c, CodesAfter
  <2> QED
    BY <1>1, <1>3, <1>8, <2>3, <2>5, <2>6, <2>7 DEF Moved, Joined, JoinOps
<1>9. CASE q.op = "redeem_transfer_code"
  <2> DEFINE e == Earlier(now + Lifetime, rm.expires)
             c == [rm.code[q.seat] EXCEPT !.consumed = TRUE]
  <2>1. e \in Nat /\ e <= rm.expires
    BY <1>2, SessionsAssumption DEF Earlier
  <2>2. rm.code[q.seat] \in TransferCode
    BY <1>1, <1>2, <1>9 DEF Accepted, Redeemable, JoinOps
  <2>3. c \in TransferCode
    BY <2>2 DEF TransferCode
  <2>4. n = Redeemed(rm, q, token)
    BY <1>9 DEF After, JoinOps
  <2> HIDE DEF n
  <2>5. /\ n.version = rm.version + 1 /\ n.status = rm.status /\ n.expires = rm.expires
        /\ n.code = [rm.code EXCEPT ![q.seat] = c]
        /\ n.session = [rm.session EXCEPT ![q.seat] = [token |-> token, expires |-> e]]
        /\ n = [status |-> n.status, version |-> n.version, expires |-> n.expires,
                session |-> n.session, code |-> n.code]
    BY <2>4 DEF Redeemed, Room
  <2> HIDE DEF e, c
  <2>6. /\ n.session \in [Actors -> [token : Tokens \cup {None}, expires : Nat]]
        /\ n.code \in [Seats -> TransferCode \cup {None}]
    BY <1>1, <1>2, <2>1, <2>3, <2>5
  <2>7. n \in Room
    BY <1>2, <2>5, <2>6 DEF Room
  <2>8. \A b \in Actors : n.session[b] =
          IF b = q.seat THEN [token |-> token, expires |-> e] ELSE rm.session[b]
    BY <1>2, <2>5
  <2>9. Fits(n, now)
    BY <1>1, <2>1, <2>5, <2>8 DEF Fits
  <2>10. /\ \A s \in Seats : Joined(rm, s) => Joined(n, s)
         /\ Joined(n, q.seat)
         /\ \A a \in Actors : a # q.seat => n.session[a].token = rm.session[a].token
    BY <1>1, <2>8 DEF Joined
  <2>11. n.code = CodesAfter(rm, q, token)
    BY <1>2, <1>9, <2>5 DEF c, CodesAfter
  <2> QED
    BY <1>2, <1>9, <2>5, <2>7, <2>9, <2>10, <2>11 DEF Moved, JoinOps
<1> QED
  BY <1>1, <1>4, <1>5, <1>6, <1>7, <1>8, <1>9
  DEF Operations, HostOps, PlayerOps, JoinOps

(***************************************************************************)
(* Soundness of a room                                                     *)
(***************************************************************************)
\* A request as it goes on: what it asks for stays, and it is let in by its session.
GoesOn(rm, q, p) ==
  /\ p.op = q.op /\ p.actor = q.actor /\ p.seat = q.seat
  /\ p.token = q.token /\ p.version = q.version
  /\ LetIn(rm, q) => LetIn(rm, p)

\* A request is made of a room that may be saved, or goes on.
Quiet(rm, rq, rq2) ==
  \A r \in Requests :
    \/ rq2[r] = rq[r]
    \/ rq[r] # None /\ rq2[r] # None /\ GoesOn(rm, rq[r], rq2[r])
    \/ rq[r] = None /\ rq2[r].version = rm.version /\ rq2[r].phase = "unsent"

\* A room stays sound while time passes and requests go on.
LEMMA SoundWhenQuiet ==
  ASSUME NEW rm \in Room, NEW n \in Nat, NEW n2 \in Nat, NEW rq, NEW rq2, NEW gr,
         NEW ef \in [Requests -> Nat],
         Sound(rm, n, rq, ef, gr), n <= n2, Quiet(rm, rq, rq2)
  PROVE  Sound(rm, n2, rq2, ef, gr)
<1>1. Fits(rm, n2)
  BY SessionsAssumption DEF Sound, Fits, Room
<1>2. rm.version \in Nat
  BY DEF Room
<1>3. ASSUME NEW r \in Requests, rq2[r] # None
      PROVE  rq2[r].version <= rm.version
  BY <1>2, <1>3 DEF Sound, Seen, Quiet, GoesOn
<1>4. ASSUME NEW r \in Requests, ef[r] > 0
      PROVE  rq2[r] # None /\ Shows(rm, rq2[r])
  <2>1. rq[r] # None /\ Shows(rm, rq[r])
    BY <1>4 DEF Sound, Settled
  <2>2. CASE rq2[r] = rq[r]
    BY <2>1, <2>2
  <2>3. CASE rq2[r] # None /\ GoesOn(rm, rq[r], rq2[r])
    BY <2>1, <2>3 DEF GoesOn, Shows
  <2> QED BY <2>1, <2>2, <2>3 DEF Quiet
<1>5. ASSUME NEW r \in Requests, rq2[r] # None
      PROVE  LetIn(rm, rq2[r])
  <2>1. CASE rq[r] # None
    <3>1. LetIn(rm, rq[r])
      BY <2>1 DEF Sound, Authority
    <3> QED BY <2>1, <3>1 DEF Quiet, GoesOn
  <2>2. CASE rq[r] = None
    BY <1>5, <2>2 DEF Quiet, LetIn
  <2> QED BY <2>1, <2>2
<1> QED
  BY <1>1, <1>3, <1>4, <1>5 DEF Sound, Seen, Settled, Authority

\* A room that r leaves is sound: it is newer than every request, so whoever waits with
\* an older version has no authority to lose.
LEMMA SoundAfterEffect ==
  ASSUME now \in Nat, NEW rm \in Room, NEW n, NEW rq \in [Requests -> Request \cup {None}],
         NEW rq2 \in [Requests -> Request \cup {None}], NEW gr, NEW gr2,
         NEW ef \in [Requests -> Nat], NEW ef2 \in [Requests -> Nat],
         Sound(rm, now, rq, ef, gr),
         \A g \in gr : g[1].key \in Requests /\ ef[g[1].key] > 0,
         NEW r \in Requests, rq[r] # None, NEW token \in Tokens, token.key = r,
         ef[r] = 0, Moved(rm, rq[r], token, n),
         \A t \in Requests : ef2[t] = IF t = r THEN 1 ELSE ef[t],
         \A t \in Requests :
           \/ rq2[t] = rq[t]
           \/ t = r /\ rq2[t] # None /\ GoesOn(n, rq[t], rq2[t]),
         \A g \in gr2 :
           g \in gr \/ (rq[r].op = "redeem_transfer_code" /\ g = <<rq[r].token, token>>),
         rq[r].op = "redeem_transfer_code" =>
           rm.code[rq[r].seat] # None /\ rm.code[rq[r].seat].id = rq[r].token
  PROVE  Sound(n, now, rq2, ef2, gr2)
<1> DEFINE q == rq[r]
<1>1. /\ q \in Request /\ q.seat \in Seats
      /\ rm.code \in [Seats -> TransferCode \cup {None}]
      /\ rm.version \in Nat /\ n.version = rm.version + 1
      /\ n.code = CodesAfter(rm, q, token)
  BY DEF Moved, Request, Room
<1>2. \A t \in Requests : ef2[t] = IF t = r THEN 1 ELSE ef[t]
  OBVIOUS
<1>12. /\ \A s \in Seats : Joined(rm, s) => Joined(n, s)
       /\ q.op \in JoinOps => Joined(n, q.seat)
  BY DEF Moved
<1>3. \A t \in Requests : rq[t] # None => rq[t].version <= rm.version /\ rq[t].version \in Nat
  BY DEF Sound, Seen, Request
<1>4. \A t \in Requests : rq2[t] # None =>
        rq[t] # None /\ rq2[t].version = rq[t].version
        /\ rq2[t].op = rq[t].op /\ rq2[t].seat = rq[t].seat
  BY DEF GoesOn
<1>5. Fits(n, now)
  BY DEF Moved
<1>6. \A s \in Seats :
        \/ n.code[s] = rm.code[s] /\ ~(q.op = "redeem_transfer_code" /\ s = q.seat)
        \/ q.op = "issue_transfer_code" /\ s = q.seat /\ n.code[s].id = token
        \/ /\ q.op = "redeem_transfer_code" /\ s = q.seat /\ rm.code[s] # None
           /\ n.code[s].id = rm.code[s].id /\ n.code[s].consumed
  <2> HIDE DEF q
  <2>1. CASE q.op = "issue_transfer_code"
    BY <1>1, <2>1 DEF CodesAfter
  <2>2. CASE q.op = "redeem_transfer_code"
    <3>1. rm.code[q.seat] # None /\ rm.code[q.seat] \in TransferCode
      BY <1>1, <2>2 DEF q
    <3>2. n.code = [rm.code EXCEPT ![q.seat] = [rm.code[q.seat] EXCEPT !.consumed = TRUE]]
      BY <1>1, <2>2 DEF CodesAfter
    <3>3. /\ [rm.code[q.seat] EXCEPT !.consumed = TRUE].id = rm.code[q.seat].id
          /\ [rm.code[q.seat] EXCEPT !.consumed = TRUE].consumed
      BY <3>1 DEF TransferCode
    <3> DEFINE c == [rm.code[q.seat] EXCEPT !.consumed = TRUE]
    <3>4. \A s \in Seats : n.code[s] = IF s = q.seat THEN c ELSE rm.code[s]
      BY <1>1, <3>2
    <3> HIDE DEF c
    <3> QED BY <2>2, <3>1, <3>3, <3>4 DEF c
  <2>3. CASE q.op \notin {"issue_transfer_code", "redeem_transfer_code"}
    BY <1>1, <2>3 DEF CodesAfter
  <2> QED BY <2>1, <2>2, <2>3
<1>7. CodesIssued(n, ef2)
  <2>1. CodesIssued(rm, ef)
    BY DEF Sound
  <2>2. ASSUME NEW s \in Seats, n.code[s] # None
        PROVE  n.code[s].id.key \in Requests /\ ef2[n.code[s].id.key] > 0
    BY <1>2, <1>6, <2>1, <2>2 DEF CodesIssued
  <2>3. \A s \in Seats : rm.code[s] # None => rm.code[s].id # token
    BY <2>1 DEF CodesIssued
  <2>4. ASSUME NEW s \in Seats, NEW t \in Seats, n.code[s] # None, n.code[t] # None, s # t
        PROVE  n.code[s].id # n.code[t].id
    BY <1>6, <2>1, <2>3, <2>4 DEF CodesIssued
  <2> QED BY <2>2, <2>4 DEF CodesIssued
<1>8. CodesSpent(n, gr2)
  <2> SUFFICES ASSUME NEW g \in gr2, NEW s \in Seats, n.code[s] # None, n.code[s].id = g[1]
               PROVE  n.code[s].consumed
    BY DEF CodesSpent
  <2>1. CodesSpent(rm, gr) /\ CodesIssued(rm, ef)
    BY DEF Sound
  <2>2. CASE g \in gr
    <3>1. g[1] # token
      BY <2>2
    <3> QED BY <1>6, <2>1, <2>2, <3>1 DEF CodesSpent
  <2>3. CASE g \notin gr
    <3>1. q.op = "redeem_transfer_code" /\ g = <<q.token, token>>
      BY <2>3
    <3>2. /\ rm.code[q.seat] # None /\ rm.code[q.seat].id = q.token
      BY <3>1
    <3>3. g[1] = q.token
      BY <3>1
    <3>4. s = q.seat
      <4>1. SUFFICES ASSUME s # q.seat PROVE FALSE
        OBVIOUS
      <4>2. n.code[s] = rm.code[s]
        BY <1>6, <3>1, <4>1
      <4> QED BY <1>1, <2>1, <3>2, <3>3, <4>1, <4>2 DEF CodesIssued
    <3> QED BY <1>6, <3>1, <3>4
  <2> QED BY <2>2, <2>3
<1>9. Seen(n, rq2)
  BY <1>1, <1>3, <1>4 DEF Seen
<1>10. Settled(n, rq2, ef2)
  <2> SUFFICES ASSUME NEW t \in Requests, ef2[t] > 0
               PROVE  rq2[t] # None /\ Shows(n, rq2[t])
    BY DEF Settled
  <2>1. rq[t] # None /\ (t = r \/ Shows(rm, rq[t]))
    BY <1>2 DEF Sound, Settled
  <2>2. rq2[t] # None
    BY <2>1
  <2>3. rq2[t].version <= rm.version /\ rq2[t].version \in Nat
    BY <1>3, <1>4, <2>1, <2>2
  <2>4. CASE rq2[t].op = "join_room_by_code"
    <3>1. rq[t].op = "join_room_by_code" /\ rq2[t].seat = rq[t].seat /\ rq[t].seat \in Seats
      BY <1>4, <2>1, <2>2, <2>4 DEF Request
    <3>2. Joined(n, rq[t].seat)
      BY <1>12, <2>1, <3>1 DEF Shows, JoinOps
    <3> QED BY <2>2, <2>4, <3>1, <3>2 DEF Shows
  <2>5. CASE rq2[t].op # "join_room_by_code"
    BY <1>1, <2>2, <2>3, <2>5 DEF Shows
  <2> QED BY <2>4, <2>5
<1>11. Authority(n, rq2)
  <2> SUFFICES ASSUME NEW t \in Requests, rq2[t] # None
               PROVE  n.version # rq2[t].version
    BY DEF Authority, LetIn
  <2> QED BY <1>1, <1>3, <1>4
<1> QED BY <1>5, <1>7, <1>8, <1>9, <1>10, <1>11 DEF Sound

(***************************************************************************)
(* Steps that change no room                                               *)
(***************************************************************************)
LEMMA DecidedMeansAccepted ==
  ASSUME NEW rm, NEW q \in Request, q.op \notin Transactions
  PROVE  Accepted(rm, q) <=> Decided(rm, q)
BY DEF Accepted, Decided, Transactions, Request, Operations, HostOps, PlayerOps, JoinOps

LEMMA DecidedReadsAndSaves ==
  ASSUME NEW rm, NEW q, Decided(rm, q)
  PROVE  q.op \notin Transactions
BY DEF Decided, Transactions, JoinOps

\* The rooms that may be saved, or are.
Live(rm) ==
  /\ rm \in Room
  /\ \/ rm = room /\ room # None
     \/ \E t \in Requests : Holding(t) /\ rm = request[t].read

LEMMA LiveIsSound ==
  ASSUME SInv, NEW rm, Live(rm)
  PROVE  /\ Sound(rm, now, request, effects, granted)
         /\ room # None => rm = room
BY DEF SInv, LiveSound, OneHolder, Live, Types

LEMMA ClockTypes ==
  ASSUME Types
  PROVE  now \in Nat /\ process \in Nat
BY SessionsAssumption DEF Types

\* A step that changes no room, and lets requests go on without reading one.
LEMMA QuietStep ==
  ASSUME SInv, Types', now <= now',
         UNCHANGED <<room, effects, granted, deleted>>,
         \A t \in Requests : Holding(t)' => Holding(t) /\ request'[t] = request[t],
         \A rm \in Room : Live(rm) => Quiet(rm, request, request')
  PROVE  SInv'
<1>1. OneHolder'
  BY DEF SInv, OneHolder
<1>2. ASSUME NEW rm \in Room, Live(rm)
      PROVE  Sound(rm, now', request', effects', granted')
  <2>1. Sound(rm, now, request, effects, granted)
    BY <1>2, LiveIsSound
  <2>2. now \in Nat /\ now' \in Nat
    BY SessionsAssumption DEF SInv, Types
  <2>3. effects \in [Requests -> Nat]
    BY DEF SInv, Types
  <2>4. Quiet(rm, request, request')
    BY <1>2
  <2>5. Sound(rm, now', request', effects, granted)
    BY <2>1, <2>2, <2>3, <2>4, SoundWhenQuiet
  <2> QED BY <2>5
<1>3. LiveSound'
  <2>1. room # None => Live(room)
    BY DEF SInv, Types, Live
  <2>2. ASSUME NEW r \in Requests, Holding(r)'
        PROVE  Live(request'[r].read) /\ request'[r].read \in Room
    <3>1. Holding(r) /\ request'[r] = request[r]
      BY <2>2
    <3> QED BY <3>1 DEF SInv, Types, Live, Holding
  <2>3. room' # None => Sound(room', now', request', effects', granted')
    BY <1>2, <2>1 DEF Live
  <2>4. \A r \in Requests : Holding(r)' =>
          Sound(request'[r].read, now', request', effects', granted')
    BY <1>2, <2>2
  <2> QED BY <2>3, <2>4 DEF LiveSound
<1> QED
  BY <1>1, <1>3 DEF SInv, GrantsIssued, OnceAcrossRestarts, DeletedIsGone, CodeWorksOnce

\* A request whose phase changes is a request for the same.
LEMMA PhaseTypes ==
  ASSUME NEW q \in Request, NEW p \in {"unsent", "waiting", "holding", "answered", "done"}
  PROVE  LET k == [q EXCEPT !.phase = p]
         IN /\ k \in Request
            /\ k.op = q.op /\ k.actor = q.actor /\ k.seat = q.seat /\ k.token = q.token
            /\ k.version = q.version /\ k.phase = p /\ k.read = q.read /\ k.result = q.result
BY DEF Request

\* One request goes on to another phase, and its caller is let in if it waits.
LEMMA OnePhase ==
  ASSUME SInv, NEW r \in Requests, request[r] # None,
         NEW k \in Request, request' = [request EXCEPT ![r] = k],
         k.op = request[r].op, k.actor = request[r].actor, k.seat = request[r].seat,
         k.token = request[r].token, k.version = request[r].version,
         k.phase \in {"unsent", "waiting", "answered", "done"},
         k.phase = "answered" => k.result \in Tokens,
         \A rm \in Room : Live(rm) /\ LetIn(rm, request[r]) => LetIn(rm, k),
         UNCHANGED <<now, process, room, effects, granted, deleted>>,
         records' \in [Requests -> Tokens \cup {None}],
         held' \subseteq Actors \X Tokens, passed' \subseteq Seats \X Tokens
  PROVE  SInv'
<1>1. \A t \in Requests : request'[t] = IF t = r THEN k ELSE request[t]
  BY DEF SInv, Types
<1>2. k # None
  BY SessionsAssumption
<1>3. Types'
  <2>1. request' \in [Requests -> Request \cup {None}]
    BY DEF SInv, Types
  <2>2. \A t \in Requests : request'[t] # None =>
          /\ request'[t].phase = "holding" => request'[t].read \in Room
          /\ request'[t].phase = "answered" => request'[t].result \in Tokens
    BY <1>1 DEF SInv, Types
  <2> QED BY <2>1, <2>2 DEF SInv, Types
<1>4. \A t \in Requests : Holding(t)' => Holding(t) /\ request'[t] = request[t]
  BY <1>1 DEF Holding
<1>5. ASSUME NEW rm \in Room, Live(rm)
      PROVE  Quiet(rm, request, request')
  BY <1>1, <1>2, <1>5 DEF Quiet, GoesOn
<1>6. now <= now'
  BY ClockTypes DEF SInv
<1> QED BY <1>3, <1>4, <1>5, <1>6, QuietStep

\* A request that ends.
LEMMA EndKeeps ==
  ASSUME SInv, NEW r \in Requests, request[r] # None, End(r),
         UNCHANGED <<now, process, room, effects, granted, deleted>>,
         records' \in [Requests -> Tokens \cup {None}],
         held' \subseteq Actors \X Tokens, passed' \subseteq Seats \X Tokens
  PROVE  SInv'
<1> DEFINE k == [request[r] EXCEPT !.phase = "done"]
<1>1. request[r] \in Request
  BY DEF SInv, Types
<1>2. /\ k \in Request
      /\ k.op = request[r].op /\ k.actor = request[r].actor /\ k.seat = request[r].seat
      /\ k.token = request[r].token /\ k.version = request[r].version /\ k.phase = "done"
  BY <1>1, PhaseTypes
<1>3. request' = [request EXCEPT ![r] = k]
  BY DEF End
<1> HIDE DEF k
<1>4. \A rm \in Room : LetIn(rm, k)
  BY <1>2 DEF LetIn
<1> QED BY <1>2, <1>3, <1>4, OnePhase

LEMMA AskKeeps ==
  ASSUME SInv, NEW r \in Requests, AskSomething(r)
  PROVE  SInv'
<1>1. PICK op \in Operations, actor \in Actors, seat \in Seats, token \in Tokens \cup {None} :
        Ask(r, op, actor, seat, token)
  BY DEF AskSomething, Operations, Actors
<1> DEFINE k == [op |-> op, actor |-> actor, seat |-> seat, token |-> token,
                 version |-> room.version, late |-> FALSE, phase |-> "unsent",
                 read |-> None, result |-> None]
<1>2. room # None /\ room \in Room /\ request[r] = None /\ room.version \in Nat
  BY <1>1 DEF Ask, SInv, Types, Room
<1>3. k \in Request
  BY <1>2 DEF Request
<1>4. /\ \A t \in Requests : request'[t] = IF t = r THEN k ELSE request[t]
      /\ request' \in [Requests -> Request \cup {None}]
  BY <1>1, <1>3 DEF Ask, SInv, Types
<1>5. k.version = room.version /\ k.phase = "unsent"
  OBVIOUS
<1> HIDE DEF k
<1>6. UNCHANGED <<now, process, room, records, held, passed, granted, effects, deleted>>
  BY <1>1 DEF Ask
<1>7. Types'
  BY <1>4, <1>5, <1>6 DEF SInv, Types
<1>8. \A t \in Requests : Holding(t)' => Holding(t) /\ request'[t] = request[t]
  BY <1>4, <1>5 DEF Holding
<1>9. ASSUME NEW rm \in Room, Live(rm)
      PROVE  Quiet(rm, request, request')
  BY <1>2, <1>4, <1>5, <1>9, LiveIsSound DEF Quiet
<1>10. now <= now'
  BY <1>6, ClockTypes DEF SInv
<1> QED BY <1>6, <1>7, <1>8, <1>9, <1>10, QuietStep

LEMMA ArriveKeeps ==
  ASSUME SInv, NEW r \in Requests, Arrive(r)
  PROVE  SInv'
<1> DEFINE q == request[r]
           l == room # None /\ ~Active(room.expires)
           k == [q EXCEPT !.phase = "waiting", !.late = l]
<1>1. /\ q # None /\ q \in Request
      /\ UNCHANGED <<now, process, room, records, held, passed, granted, effects, deleted>>
      /\ records \in [Requests -> Tokens \cup {None}]
      /\ held \subseteq Actors \X Tokens /\ passed \subseteq Seats \X Tokens
  BY DEF Arrive, SInv, Types
<1>2. CASE q.op \in HostOps \cup PlayerOps /\ (room = None \/ ~Authorised(room, q))
  <2>1. End(r)
    BY <1>2 DEF Arrive
  <2> QED BY <1>1, <2>1, EndKeeps
<1>3. CASE ~(q.op \in HostOps \cup PlayerOps /\ (room = None \/ ~Authorised(room, q)))
  <2>1. request' = [request EXCEPT ![r] = k]
    BY <1>3 DEF Arrive
  <2>2. /\ k \in Request
        /\ k.op = q.op /\ k.actor = q.actor /\ k.seat = q.seat /\ k.token = q.token
        /\ k.version = q.version /\ k.phase = "waiting"
    BY <1>1 DEF Request
  <2> HIDE DEF k
  <2>3. ASSUME NEW rm \in Room, Live(rm)
        PROVE  LetIn(rm, k)
    <3> SUFFICES ASSUME q.op \in HostOps \cup PlayerOps
                 PROVE  q.token = rm.session[q.actor].token
      BY <2>2 DEF LetIn
    <3>1. room # None /\ Authorised(room, q)
      BY <1>3
    <3>2. rm = room
      BY <2>3, <3>1, LiveIsSound
    <3> QED BY <3>1, <3>2 DEF Authorised
  <2> QED BY <1>1, <2>1, <2>2, <2>3, OnePhase
<1> QED BY <1>2, <1>3

LEMMA ReplayKeeps ==
  ASSUME SInv, NEW r \in Requests, Replay(r)
  PROVE  SInv'
<1> DEFINE q == request[r]
           k == [q EXCEPT !.phase = "answered", !.result = records[r]]
<1>1. /\ q # None /\ q \in Request /\ records[r] \in Tokens
      /\ UNCHANGED <<now, process, room, records, held, passed, granted, effects, deleted>>
      /\ records \in [Requests -> Tokens \cup {None}]
      /\ held \subseteq Actors \X Tokens /\ passed \subseteq Seats \X Tokens
      /\ request' = [request EXCEPT ![r] = k]
  BY DEF Replay, Served, SInv, Types
<1>2. /\ k \in Request
      /\ k.op = q.op /\ k.actor = q.actor /\ k.seat = q.seat /\ k.token = q.token
      /\ k.version = q.version /\ k.phase = "answered" /\ k.result \in Tokens
  BY <1>1 DEF Request
<1> HIDE DEF k
<1>3. \A rm \in Room : LetIn(rm, k)
  BY <1>2 DEF LetIn
<1> QED BY <1>1, <1>2, <1>3, OnePhase

LEMMA RefuseKeeps ==
  ASSUME SInv, NEW r \in Requests, Refuse(r)
  PROVE  SInv'
<1>1. request[r] # None /\ End(r)
  BY DEF Refuse, Served
<1>2. /\ UNCHANGED <<now, process, room, records, held, passed, granted, effects, deleted>>
      /\ records \in [Requests -> Tokens \cup {None}]
      /\ held \subseteq Actors \X Tokens /\ passed \subseteq Seats \X Tokens
  BY DEF Refuse, SInv, Types
<1> QED BY <1>1, <1>2, EndKeeps

LEMMA LoseKeeps ==
  ASSUME SInv, NEW r \in Requests, Lose(r)
  PROVE  SInv'
<1> DEFINE q == request[r]
           k == [q EXCEPT !.phase = "unsent", !.result = None]
<1>1. /\ q # None /\ q \in Request
      /\ UNCHANGED <<now, process, room, records, held, passed, granted, effects, deleted>>
      /\ records \in [Requests -> Tokens \cup {None}]
      /\ held \subseteq Actors \X Tokens /\ passed \subseteq Seats \X Tokens
      /\ request' = [request EXCEPT ![r] = k]
  BY DEF Lose, SInv, Types
<1>2. /\ k \in Request
      /\ k.op = q.op /\ k.actor = q.actor /\ k.seat = q.seat /\ k.token = q.token
      /\ k.version = q.version /\ k.phase = "unsent"
  BY <1>1 DEF Request
<1> HIDE DEF k
<1>3. \A rm \in Room : LetIn(rm, k)
  BY <1>2 DEF LetIn
<1> QED BY <1>1, <1>2, <1>3, OnePhase

LEMMA DeliverKeeps ==
  ASSUME SInv, NEW r \in Requests, Deliver(r)
  PROVE  SInv'
<1> DEFINE q == request[r]
<1>1. /\ q # None /\ q \in Request /\ q.result \in Tokens /\ End(r)
      /\ UNCHANGED <<now, process, room, records, granted, effects, deleted>>
      /\ records \in [Requests -> Tokens \cup {None}]
  BY DEF Deliver, SInv, Types
<1>2. q.seat \in Seats /\ q.seat \in Actors
  BY <1>1 DEF Request, Actors
<1>3. held' \subseteq Actors \X Tokens /\ passed' \subseteq Seats \X Tokens
  BY <1>1, <1>2 DEF Deliver, SInv, Types
<1> QED BY <1>1, <1>3, EndKeeps

LEMMA ElapseKeeps ==
  ASSUME SInv, Elapse
  PROVE  SInv'
<1>1. /\ UNCHANGED <<process, room, records, request, held, passed, granted, effects, deleted>>
      /\ now' = now + 1 /\ now' \in 0..MaxTime /\ now <= now'
  BY SessionsAssumption DEF Elapse, SInv, Types
<1>2. Types'
  BY <1>1 DEF SInv, Types
<1>3. \A t \in Requests : Holding(t)' => Holding(t) /\ request'[t] = request[t]
  BY <1>1 DEF Holding
<1>4. \A rm \in Room : Live(rm) => Quiet(rm, request, request')
  BY <1>1 DEF Quiet
<1> QED BY <1>1, <1>2, <1>3, <1>4, QuietStep

LEMMA RestartKeeps ==
  ASSUME SInv, Restart
  PROVE  SInv'
<1> DEFINE k(t) == [request[t] EXCEPT !.phase = "unsent", !.read = None]
           lost(t) == request[t] # None /\ request[t].phase \in {"waiting", "holding"}
<1>1. /\ UNCHANGED <<now, room, held, passed, granted, effects, deleted>>
      /\ process' \in 0..MaxRestarts /\ records' \in [Requests -> Tokens \cup {None}]
  <2>1. process' = process + 1 /\ process < MaxRestarts /\ process \in 0..MaxRestarts
    BY DEF Restart, SInv, Types
  <2>2. process' \in 0..MaxRestarts
    BY <2>1, SessionsAssumption
  <2>3. records' \in [Requests -> Tokens \cup {None}]
    BY DEF Restart
  <2> QED BY <2>2, <2>3 DEF Restart
<1>2. \A t \in Requests : request'[t] = IF lost(t) THEN k(t) ELSE request[t]
  BY DEF Restart
<1>3. \A t \in Requests : lost(t) =>
        /\ k(t) \in Request /\ k(t).phase = "unsent"
        /\ k(t).op = request[t].op /\ k(t).actor = request[t].actor
        /\ k(t).seat = request[t].seat /\ k(t).token = request[t].token
        /\ k(t).version = request[t].version
  BY DEF SInv, Types, Request
<1>4. request' = [t \in Requests |-> request'[t]]
  BY DEF Restart
<1> HIDE DEF k
<1>5. \A t \in Requests : lost(t) => k(t) # None
  BY <1>3, SessionsAssumption
<1>6. Types'
  <2>1. \A t \in Requests : request'[t] \in Request \cup {None}
    BY <1>2, <1>3 DEF SInv, Types
  <2>2. request' \in [Requests -> Request \cup {None}]
    BY <1>4, <2>1
  <2>3. \A t \in Requests : request'[t] # None =>
          /\ request'[t].phase = "holding" => request'[t].read \in Room
          /\ request'[t].phase = "answered" => request'[t].result \in Tokens
    BY <1>2, <1>3 DEF SInv, Types
  <2> QED BY <1>1, <2>2, <2>3 DEF SInv, Types
<1>7. \A t \in Requests : Holding(t)' => Holding(t) /\ request'[t] = request[t]
  BY <1>2, <1>3 DEF Holding
<1>8. ASSUME NEW rm \in Room, Live(rm)
      PROVE  Quiet(rm, request, request')
  <2> SUFFICES ASSUME NEW t \in Requests, lost(t)
               PROVE  request'[t] # None /\ GoesOn(rm, request[t], request'[t])
    BY <1>2 DEF Quiet
  <2>1. LetIn(rm, k(t))
    BY <1>3 DEF LetIn
  <2> QED BY <1>2, <1>3, <1>5, <2>1 DEF GoesOn
<1>9. now <= now'
  BY <1>1, ClockTypes DEF SInv
<1> QED BY <1>1, <1>6, <1>7, <1>8, <1>9, QuietStep

LEMMA RetentionKeeps ==
  ASSUME SInv, Retention
  PROVE  SInv'
<1>1. /\ room' = None
      /\ UNCHANGED <<now, process, records, request, held, passed, granted, effects, deleted>>
  BY DEF Retention
<1>2. Types'
  BY <1>1 DEF SInv, Types
<1>3. OneHolder' /\ LiveSound'
  BY <1>1 DEF SInv, OneHolder, LiveSound, Holding
<1> QED
  BY <1>1, <1>2, <1>3
  DEF SInv, GrantsIssued, OnceAcrossRestarts, DeletedIsGone, CodeWorksOnce

LEMMA ReadKeeps ==
  ASSUME SInv, NEW r \in Requests, Read(r)
  PROVE  SInv'
<1> DEFINE q == request[r]
           k == [q EXCEPT !.phase = "holding", !.read = room]
<1>1. /\ q # None /\ q \in Request /\ q.phase = "waiting" /\ q.op \notin Transactions
      /\ room # None /\ room \in Room /\ Accepted(room, q) /\ Free
      /\ UNCHANGED <<now, process, room, records, held, passed, granted, effects, deleted>>
      /\ request' = [request EXCEPT ![r] = k]
  BY DEF Read, Served, SInv, Types
<1>2. /\ k \in Request
      /\ k.op = q.op /\ k.actor = q.actor /\ k.seat = q.seat /\ k.token = q.token
      /\ k.version = q.version /\ k.phase = "holding" /\ k.read = room
  BY <1>1 DEF Request
<1>3. k # None
  BY <1>2, SessionsAssumption
<1> HIDE DEF k
<1>4. /\ \A t \in Requests : request'[t] = IF t = r THEN k ELSE request[t]
      /\ request' \in [Requests -> Request \cup {None}]
  BY <1>1, <1>2 DEF SInv, Types
<1>5. \A t \in Requests : Holding(t)' => t = r
  BY <1>1, <1>4 DEF Holding, Free
<1>6. Types'
  BY <1>1, <1>2, <1>4 DEF SInv, Types
<1>7. OneHolder'
  <2>1. Decided(room, k)
    <3>1. Decided(room, q)
      BY <1>1, DecidedMeansAccepted
    <3> QED BY <1>2, <3>1 DEF Decided, CheckVersion
  <2>2. ~deleted
    BY <1>1 DEF SInv, DeletedIsGone
  <2> QED BY <1>1, <1>2, <1>4, <1>5, <2>1, <2>2 DEF OneHolder
<1>8. LiveSound'
  <2>1. Sound(room, now, request, effects, granted)
    BY <1>1 DEF SInv, LiveSound
  <2>2. Quiet(room, request, request')
    <3>1. LetIn(room, q) => LetIn(room, k)
      BY <1>1, <1>2 DEF LetIn
    <3> QED BY <1>1, <1>2, <1>3, <1>4, <3>1 DEF Quiet, GoesOn
  <2>3. now \in Nat /\ effects \in [Requests -> Nat]
    BY ClockTypes DEF SInv, Types
  <2>4. \A rq2 : Quiet(room, request, rq2) => Sound(room, now, rq2, effects, granted)
    BY <1>1, <2>1, <2>3, SoundWhenQuiet
  <2>5. Sound(room, now, request', effects, granted)
    BY <2>2, <2>4
  <2>6. \A t \in Requests : Holding(t)' => request'[t].read = room
    BY <1>2, <1>4, <1>5
  <2> QED BY <1>1, <2>5, <2>6 DEF LiveSound
<1> QED
  BY <1>1, <1>6, <1>7, <1>8
  DEF SInv, GrantsIssued, OnceAcrossRestarts, DeletedIsGone, CodeWorksOnce

(***************************************************************************)
(* Steps that change the room                                              *)
(***************************************************************************)
\* A request that is accepted on a sound room has had no effect yet.
LEMMA FirstTime ==
  ASSUME NEW rm \in Room, NEW r \in Requests, NEW rq, rq[r] \in Request,
         NEW ef \in [Requests -> Nat], NEW n, NEW gr,
         Sound(rm, n, rq, ef, gr), Accepted(rm, rq[r])
  PROVE  ef[r] = 0
<1> DEFINE q == rq[r]
<1> SUFFICES ASSUME ef[r] > 0 PROVE FALSE
  OBVIOUS
<1>1. Shows(rm, q)
  BY DEF Sound, Settled
<1>2. rm.version \in Nat /\ q.version \in Nat
  BY DEF Room, Request
<1>3. CheckVersion(rm, q) /\ Accepted(rm, q)
  BY DEF Accepted
<1> HIDE DEF q
<1>4. CASE q.op = "join_room_by_code"
  BY <1>1, <1>3, <1>4 DEF Accepted, JoinOps, Shows
<1>5. CASE q.op # "join_room_by_code"
  BY <1>1, <1>2, <1>3, <1>5 DEF Shows, CheckVersion
<1> QED BY <1>4, <1>5

\* The code of a redemption that is accepted is there, and unused.
LEMMA CodeTaken ==
  ASSUME NEW rm \in Room, NEW q \in Request, Accepted(rm, q), q.op = "redeem_transfer_code"
  PROVE  /\ rm.code[q.seat] # None /\ rm.code[q.seat].id = q.token
         /\ ~rm.code[q.seat].consumed /\ q.token \in Tokens /\ q.seat \in Seats
<1>1. Redeemable(rm, q)
  BY DEF Accepted, JoinOps
<1>2. q.seat \in Seats /\ rm.code[q.seat] \in TransferCode
  BY <1>1 DEF Redeemable, Room, Request
<1> QED BY <1>1, <1>2 DEF Redeemable, TransferCode

LEMMA EffectKeeps ==
  ASSUME SInv, NEW r \in Requests, request[r] # None, NEW rm \in Room, Live(rm),
         Accepted(rm, request[r]), request[r].phase \in {"waiting", "holding"},
         \A t \in Requests : Holding(t) => t = r,
         ~deleted, TakeEffect(r, rm)
  PROVE  SInv'
<1> DEFINE q == request[r]
           token == derive(r)
           k == [q EXCEPT !.phase = "answered", !.read = None, !.result = token]
           n == After(rm, q, token)
<1>1. /\ q \in Request /\ effects \in [Requests -> Nat] /\ granted \subseteq Tokens \X Tokens
      /\ now \in Nat /\ request \in [Requests -> Request \cup {None}]
      /\ Sound(rm, now, request, effects, granted)
  BY ClockTypes, LiveIsSound DEF SInv, Types
<1>2. token \in Tokens /\ token.key = r
  BY DEF derive, Tokens, SInv, Types
<1> HIDE DEF token
<1>3. /\ k \in Request
      /\ k.op = q.op /\ k.actor = q.actor /\ k.seat = q.seat /\ k.token = q.token
      /\ k.version = q.version /\ k.phase = "answered" /\ k.result = token
  BY <1>1, <1>2 DEF Request
<1>4. k # None
  BY <1>3, SessionsAssumption
<1>5. /\ request' = [request EXCEPT ![r] = k]
      /\ room' = n
      /\ records' = [records EXCEPT ![r] = token]
      /\ effects' = [effects EXCEPT ![r] = @ + 1]
      /\ granted' = IF q.op = "redeem_transfer_code"
                    THEN granted \cup {<<q.token, token>>} ELSE granted
      /\ deleted' = (deleted \/ q.op = "delete_room")
      /\ UNCHANGED <<now, process, held, passed>>
  BY DEF TakeEffect, token
<1> HIDE DEF k, n
<1>6. /\ \A t \in Requests : request'[t] = IF t = r THEN k ELSE request[t]
      /\ request' \in [Requests -> Request \cup {None}]
  BY <1>1, <1>3, <1>5
<1>7. \A t \in Requests : ~Holding(t)'
  BY <1>3, <1>6 DEF Holding
<1>8. effects[r] = 0
  BY <1>1, FirstTime
<1>9. effects' \in [Requests -> Nat]
      /\ \A t \in Requests : effects'[t] = IF t = r THEN 1 ELSE effects[t]
  BY <1>1, <1>5, <1>8
<1>10. granted' \subseteq Tokens \X Tokens
  BY <1>1, <1>2, <1>5, CodeTaken
<1>11. q.op # "delete_room" => Moved(rm, q, token, n)
  BY <1>1, <1>2, AfterMoved DEF n, Sound
<1>12. q.op = "delete_room" => n = None
  BY DEF n, After, JoinOps
<1>13. Types'
  <2>1. room' \in Room \cup {None}
    BY <1>5, <1>11, <1>12 DEF Moved
  <2>2. records' \in [Requests -> Tokens \cup {None}]
    BY <1>2, <1>5 DEF SInv, Types
  <2>3. deleted' \in BOOLEAN
    BY <1>5
  <2>4. \A t \in Requests : request'[t] # None =>
          /\ request'[t].phase = "holding" => request'[t].read \in Room
          /\ request'[t].phase = "answered" => request'[t].result \in Tokens
    BY <1>2, <1>3, <1>6 DEF SInv, Types
  <2> QED BY <1>5, <1>6, <1>9, <1>10, <2>1, <2>2, <2>3, <2>4 DEF SInv, Types
<1>14. OneHolder'
  BY <1>7 DEF OneHolder
<1>15. LiveSound'
  <2> SUFFICES ASSUME room' # None
               PROVE  Sound(room', now', request', effects', granted')
    BY <1>7 DEF LiveSound
  <2>1. Moved(rm, q, token, n)
    BY <1>5, <1>11, <1>12
  <2>2. \A g \in granted : g[1].key \in Requests /\ effects[g[1].key] > 0
    BY DEF SInv, GrantsIssued
  <2>3. LetIn(n, k)
    BY <1>3 DEF LetIn
  <2>4. GoesOn(n, q, k)
    BY <1>3, <2>3 DEF GoesOn
  <2>5. \A t \in Requests :
          \/ request'[t] = request[t]
          \/ t = r /\ request'[t] # None /\ GoesOn(n, request[t], request'[t])
    BY <1>4, <1>6, <2>4
  <2>6. q.op = "redeem_transfer_code" => rm.code[q.seat] # None /\ rm.code[q.seat].id = q.token
    BY <1>1, CodeTaken
  <2>7. ASSUME NEW rq2 \in [Requests -> Request \cup {None}], NEW ef2 \in [Requests -> Nat],
               NEW gr2,
               \A t \in Requests : ef2[t] = IF t = r THEN 1 ELSE effects[t],
               \A t \in Requests :
                 \/ rq2[t] = request[t]
                 \/ t = r /\ rq2[t] # None /\ GoesOn(n, request[t], rq2[t]),
               \A g \in gr2 :
                 g \in granted \/ (q.op = "redeem_transfer_code" /\ g = <<q.token, token>>)
        PROVE  Sound(n, now, rq2, ef2, gr2)
    BY <1>1, <1>2, <1>8, <2>1, <2>2, <2>6, <2>7, SoundAfterEffect
  <2>8. \A g \in granted' :
          g \in granted \/ (q.op = "redeem_transfer_code" /\ g = <<q.token, token>>)
    BY <1>5
  <2> HIDE DEF q
  <2>9. Sound(n, now, request', effects', granted')
    BY <1>6, <1>9, <2>5, <2>7, <2>8
  <2> QED BY <1>5, <2>9
<1>16. GrantsIssued'
  <2> SUFFICES ASSUME NEW g \in granted'
               PROVE  g[1].key \in Requests /\ effects'[g[1].key] > 0
    BY DEF GrantsIssued
  <2>1. CASE g \in granted
    BY <1>9, <2>1 DEF SInv, GrantsIssued
  <2>2. CASE g \notin granted
    <3>1. q.op = "redeem_transfer_code" /\ g[1] = q.token
      BY <1>5, <2>2
    <3>2. q.token.key \in Requests /\ effects[q.token.key] > 0
      BY <1>1, <3>1, CodeTaken DEF Sound, CodesIssued
    <3> QED BY <1>9, <3>1, <3>2
  <2> QED BY <2>1, <2>2
<1>17. OnceAcrossRestarts'
  BY <1>9 DEF SInv, OnceAcrossRestarts
<1>18. DeletedIsGone'
  BY <1>5, <1>12 DEF DeletedIsGone
<1>19. CodeWorksOnce'
  <2>1. CASE q.op # "redeem_transfer_code"
    BY <1>5, <2>1 DEF SInv, CodeWorksOnce
  <2>2. CASE q.op = "redeem_transfer_code"
    <3>1. \A g \in granted : g[1] # q.token
      BY <1>1, <2>2, CodeTaken DEF Sound, CodesSpent
    <3> QED BY <1>5, <2>2, <3>1 DEF SInv, CodeWorksOnce
  <2> QED BY <2>1, <2>2
<1> QED
  BY <1>13, <1>14, <1>15, <1>16, <1>17, <1>18, <1>19 DEF SInv

LEMMA TransactKeeps ==
  ASSUME SInv, NEW r \in Requests, Transact(r)
  PROVE  SInv'
<1>1. /\ request[r] # None /\ request[r].phase = "waiting"
      /\ room \in Room /\ room # None /\ Accepted(room, request[r])
      /\ TakeEffect(r, room) /\ Free
  BY DEF Transact, Served, SInv, Types
<1>2. Live(room) /\ ~deleted
  BY <1>1 DEF Live, SInv, DeletedIsGone
<1>3. \A t \in Requests : Holding(t) => t = r
  BY <1>1 DEF Free, Holding
<1> QED BY <1>1, <1>2, <1>3, EffectKeeps

LEMMA SaveRoomKeeps ==
  ASSUME SInv, NEW r \in Requests, SaveRoom(r)
  PROVE  SInv'
<1> DEFINE rm == request[r].read
<1>1. Holding(r) /\ request[r] \in Request /\ rm \in Room /\ TakeEffect(r, rm)
  BY DEF SaveRoom, Holding, SInv, Types
<1>2. /\ Decided(rm, request[r]) /\ ~deleted
      /\ \A t \in Requests : Holding(t) => t = r
  BY <1>1 DEF SInv, OneHolder
<1>3. Accepted(rm, request[r])
  BY <1>1, <1>2, DecidedReadsAndSaves, DecidedMeansAccepted
<1>4. Live(rm)
  BY <1>1 DEF Live
<1>5. request[r] # None /\ request[r].phase \in {"waiting", "holding"}
  BY <1>1 DEF Holding
<1> HIDE DEF rm
<1> QED BY <1>1, <1>2, <1>3, <1>4, <1>5, EffectKeeps

(***************************************************************************)
(* The inductive invariant holds                                           *)
(***************************************************************************)
LEMMA InitRoom == Init => room \in Room
<1> SUFFICES ASSUME Init PROVE room \in Room
  OBVIOUS
<1> USE SessionsAssumption
<1>1. PICK status \in Statuses, joined \in SUBSET Seats :
        room = [status  |-> status, version |-> 1, expires |-> Lifetime,
                session |-> [a \in Actors |-> IF a \in joined \cup {Host}
                                              THEN [token |-> First, expires |-> Lifetime]
                                              ELSE [token |-> None, expires |-> 0]],
                code    |-> [s \in Seats |-> None]]
  BY DEF Init
<1>2. First \in Tokens
  BY DEF First, Tokens
<1>3. [a \in Actors |-> IF a \in joined \cup {Host}
                        THEN [token |-> First, expires |-> Lifetime]
                        ELSE [token |-> None, expires |-> 0]]
        \in [Actors -> [token : Tokens \cup {None}, expires : Nat]]
  BY <1>2
<1>4. [s \in Seats |-> None] \in [Seats -> TransferCode \cup {None}]
  OBVIOUS
<1> QED BY <1>1, <1>3, <1>4 DEF Room

LEMMA InitSound == Init => SInv
<1> SUFFICES ASSUME Init PROVE SInv
  OBVIOUS
<1> USE SessionsAssumption
<1>1. PICK status \in Statuses, joined \in SUBSET Seats :
        LET session == [token |-> First, expires |-> Lifetime]
            vacant  == [token |-> None, expires |-> 0]
        IN /\ room = [status  |-> status, version |-> 1, expires |-> Lifetime,
                      session |-> [a \in Actors |-> IF a \in joined \cup {Host}
                                                    THEN session ELSE vacant],
                      code    |-> [s \in Seats |-> None]]
           /\ held = (joined \cup {Host}) \X {First}
  BY DEF Init
<1>2. /\ now = 0 /\ process = 0 /\ passed = {} /\ granted = {} /\ deleted = FALSE
      /\ records = [r \in Requests |-> None] /\ request = [r \in Requests |-> None]
      /\ effects = [r \in Requests |-> 0]
  BY DEF Init
<1>3. First \in Tokens
  BY DEF First, Tokens
<1>4. /\ room.expires = Lifetime /\ room.version = 1
      /\ \A a \in Actors : room.session[a].expires \in {0, Lifetime}
      /\ \A s \in Seats : room.code[s] = None
  BY <1>1
<1>5. room \in Room
  BY InitRoom
<1>6. held \subseteq Actors \X Tokens
  BY <1>1, <1>3 DEF Actors
<1>7. Types
  <2>1. now \in 0..MaxTime /\ process \in 0..MaxRestarts
    BY <1>2
  <2>2. /\ records \in [Requests -> Tokens \cup {None}]
        /\ request \in [Requests -> Request \cup {None}]
        /\ effects \in [Requests -> Nat]
        /\ \A r \in Requests : request[r] = None
    BY <1>2
  <2> QED BY <1>2, <1>5, <1>6, <2>1, <2>2 DEF Types
<1>8. Sound(room, now, request, effects, granted)
  BY <1>2, <1>4
  DEF Sound, Fits, CodesIssued, CodesSpent, Seen, Settled, Authority
<1>9. OneHolder /\ LiveSound
  BY <1>2, <1>8 DEF OneHolder, LiveSound, Holding
<1> QED
  BY <1>2, <1>7, <1>9 DEF SInv, GrantsIssued, OnceAcrossRestarts, DeletedIsGone, CodeWorksOnce

LEMMA StepSound == SInv /\ [Next]_vars => SInv'
<1> SUFFICES ASSUME SInv, [Next]_vars PROVE SInv'
  OBVIOUS
<1>1. ASSUME NEW r \in Requests, AskSomething(r) PROVE SInv'
  BY <1>1, AskKeeps
<1>2. ASSUME NEW r \in Requests, Serve(r) PROVE SInv'
  BY <1>2, ArriveKeeps, ReplayKeeps, RefuseKeeps, TransactKeeps, ReadKeeps, SaveRoomKeeps DEF Serve
<1>3. ASSUME NEW r \in Requests, Deliver(r) PROVE SInv'
  BY <1>3, DeliverKeeps
<1>4. ASSUME NEW r \in Requests, Lose(r) PROVE SInv'
  BY <1>4, LoseKeeps
<1>5. CASE Restart
  BY <1>5, RestartKeeps
<1>6. CASE Retention
  BY <1>6, RetentionKeeps
<1>7. CASE Elapse
  BY <1>7, ElapseKeeps
<1>8. CASE UNCHANGED vars
  BY <1>8
  DEF vars, SInv, Types, OneHolder, LiveSound, Holding, GrantsIssued, OnceAcrossRestarts,
      DeletedIsGone, CodeWorksOnce
<1> QED BY <1>1, <1>2, <1>3, <1>4, <1>5, <1>6, <1>7, <1>8 DEF Next

LEMMA AlwaysSound == Spec => []SInv
BY InitSound, StepSound, PTL DEF Spec

(***************************************************************************)
(* Theorems                                                                *)
(***************************************************************************)
\* Types are kept, and no room lasts longer than a lifetime from now.
THEOREM TypesHold == Spec => []TypeOK
<1>1. SInv => TypeOK
  BY DEF SInv, Types, LiveSound, Sound, Fits, TypeOK
<1> QED BY <1>1, AlwaysSound, PTL

\* A transfer code is worth one session, however many devices redeem it, again and
\* again, before and after a restart (RoomService.redeem_transfer_code).
THEOREM CodeWorksOnceHolds == Spec => []CodeWorksOnce
<1>1. SInv => CodeWorksOnce
  BY DEF SInv
<1> QED BY <1>1, AlwaysSound, PTL

\* No session outlives its room (RoomService._refresh_activity, redeem_transfer_code).
THEOREM SessionsEndWithRoomHolds == Spec => []SessionsEndWithRoom
<1>1. SInv => SessionsEndWithRoom
  BY DEF SInv, LiveSound, Sound, Fits, SessionsEndWithRoom
<1> QED BY <1>1, AlwaysSound, PTL

\* A request takes effect once, though its record is lost in a restart
\* (MemoryIdempotencyStore.execute).
THEOREM OnceAcrossRestartsHolds == Spec => []OnceAcrossRestarts
<1>1. SInv => OnceAcrossRestarts
  BY DEF SInv
<1> QED BY <1>1, AlwaysSound, PTL

\* What its host deleted is not brought back by a save that was under way
\* (PostgresRoomRepository.delete, save).
THEOREM DeletedIsGoneHolds == Spec => []DeletedIsGone
<1>1. SInv => DeletedIsGone
  BY DEF SInv
<1> QED BY <1>1, AlwaysSound, PTL

\* The only steps that change effects or a room that stays.
LEMMA EffectsComeFrom ==
  ASSUME SInv, [Next]_vars, effects' # effects \/ (room' # room /\ room' # None)
  PROVE  \E r \in Requests :
           /\ effects' = [effects EXCEPT ![r] = @ + 1]
           /\ request[r] # None /\ request[r] \in Request
           /\ request[r].phase \in {"waiting", "holding"}
           /\ \E rm \in Room :
                /\ Live(rm) /\ Accepted(rm, request[r])
                /\ room' = After(rm, request[r], derive(r))
<1>1. ASSUME NEW r \in Requests, NEW rm \in Room, TakeEffect(r, rm), Live(rm),
             Accepted(rm, request[r]), request[r] # None,
             request[r].phase \in {"waiting", "holding"}
      PROVE  \E t \in Requests :
               /\ effects' = [effects EXCEPT ![t] = @ + 1]
               /\ request[t] # None /\ request[t] \in Request
               /\ request[t].phase \in {"waiting", "holding"}
               /\ \E m \in Room :
                    /\ Live(m) /\ Accepted(m, request[t])
                    /\ room' = After(m, request[t], derive(t))
  BY <1>1 DEF TakeEffect, SInv, Types
<1>2. ASSUME NEW r \in Requests, Transact(r)
      PROVE  /\ room \in Room /\ TakeEffect(r, room) /\ Live(room)
             /\ Accepted(room, request[r]) /\ request[r] # None
             /\ request[r].phase \in {"waiting", "holding"}
  BY <1>2 DEF Transact, Served, SInv, Types, Live
<1>3. ASSUME NEW r \in Requests, SaveRoom(r)
      PROVE  /\ request[r].read \in Room /\ TakeEffect(r, request[r].read)
             /\ Live(request[r].read)
             /\ Accepted(request[r].read, request[r]) /\ request[r] # None
             /\ request[r].phase \in {"waiting", "holding"}
  <2>1. Holding(r) /\ request[r] \in Request /\ request[r].read \in Room
    BY <1>3 DEF SaveRoom, Holding, SInv, Types
  <2>2. Decided(request[r].read, request[r])
    BY <2>1 DEF SInv, OneHolder
  <2>3. Accepted(request[r].read, request[r])
    BY <2>1, <2>2, DecidedReadsAndSaves, DecidedMeansAccepted
  <2> QED BY <1>3, <2>1, <2>3 DEF SaveRoom, Live, Holding
<1>4. \E r \in Requests : Transact(r) \/ SaveRoom(r)
  <2>1. effects' # effects \/ (room' # room /\ room' # None)
    OBVIOUS
  <2>2. ~(Restart \/ Retention \/ Elapse) /\ ~UNCHANGED vars
    BY <2>1 DEF Restart, Retention, Elapse, vars
  <2>3. ASSUME NEW r \in Requests
        PROVE  ~(AskSomething(r) \/ Deliver(r) \/ Lose(r))
    BY <2>1 DEF AskSomething, Ask, Deliver, Lose
  <2>4. ASSUME NEW r \in Requests
        PROVE  ~(Arrive(r) \/ Replay(r) \/ Refuse(r) \/ Read(r))
    BY <2>1 DEF Arrive, Replay, Refuse, Read
  <2> QED BY <2>2, <2>3, <2>4 DEF Next, Serve
<1> QED BY <1>1, <1>2, <1>3, <1>4

\* Whatever takes effect for the host or a player does so on the session on record then
\* (RoomService._authorize_host, _authorize_player, and the version).
THEOREM AuthorityCurrentHolds == Spec => AuthorityCurrent
<1>1. ASSUME SInv, [Next]_vars, NEW t \in Requests, effects'[t] # effects[t],
             request[t].op \in HostOps \cup PlayerOps, room # None
      PROVE  request[t].token = room.session[request[t].actor].token
  <2>1. PICK r \in Requests :
          /\ effects' = [effects EXCEPT ![r] = @ + 1]
          /\ request[r] # None /\ request[r] \in Request
          /\ request[r].phase \in {"waiting", "holding"}
          /\ \E rm \in Room : Live(rm) /\ Accepted(rm, request[r])
    BY <1>1, EffectsComeFrom
  <2>2. t = r
    BY <1>1, <2>1 DEF SInv, Types
  <2>3. Live(room) /\ Accepted(room, request[t])
    BY <1>1, <2>1, <2>2, LiveIsSound
  <2>4. LetIn(room, request[t])
    BY <1>1, <2>1, <2>2, <2>3, LiveIsSound DEF Sound, Authority
  <2>5. room.version = request[t].version
    BY <1>1, <2>3 DEF Accepted, CheckVersion, HostOps, PlayerOps
  <2> QED BY <1>1, <2>1, <2>2, <2>4, <2>5 DEF LetIn
<1>2. SInv /\ [Next]_vars =>
        [\A r \in Requests :
           LET q == request[r]
           IN effects'[r] # effects[r] /\ q.op \in HostOps \cup PlayerOps /\ room # None
              => q.token = room.session[q.actor].token]_vars
  BY <1>1
<1> QED BY <1>2, AlwaysSound, PTL DEF Spec, AuthorityCurrent

\* A completed room keeps the date its ending gave it (RoomService._refresh_activity).
THEOREM EndingKeepsItsDateHolds == Spec => EndingKeepsItsDate
<1>1. ASSUME SInv, [Next]_vars, room # None, room' # None, room.status = "COMPLETED"
      PROVE  room'.status = "COMPLETED" /\ room'.expires = room.expires
  <2>1. CASE room' = room
    BY <1>1, <2>1
  <2>2. CASE room' # room
    <3>1. PICK r \in Requests :
            /\ request[r] \in Request
            /\ \E rm \in Room :
                 /\ Live(rm) /\ Accepted(rm, request[r])
                 /\ room' = After(rm, request[r], derive(r))
      BY <1>1, <2>2, EffectsComeFrom
    <3>2. /\ room \in Room /\ Live(room) /\ Accepted(room, request[r])
          /\ room' = After(room, request[r], derive(r))
      BY <1>1, <3>1, LiveIsSound DEF Live
    <3>3. request[r].op # "delete_room"
      BY <1>1, <3>2 DEF After, JoinOps
    <3>4. derive(r) \in Tokens
      BY <1>1 DEF derive, Tokens, SInv, Types
    <3>5. now \in Nat /\ Fits(room, now)
      BY <1>1, <3>2, ClockTypes, LiveIsSound DEF SInv, Sound
    <3>6. Moved(room, request[r], derive(r), After(room, request[r], derive(r)))
      BY <3>1, <3>2, <3>3, <3>4, <3>5, AfterMoved
    <3> QED BY <1>1, <3>2, <3>6 DEF Moved
  <2> QED BY <2>1, <2>2
<1>2. SInv /\ [Next]_vars =>
        [room # None /\ room' # None /\ room.status = "COMPLETED" =>
           room'.status = "COMPLETED" /\ room'.expires = room.expires]_vars
  BY <1>1
<1> QED BY <1>2, AlwaysSound, PTL DEF Spec, EndingKeepsItsDate

(***************************************************************************)
(* Requests are served one at a time                                       *)
(***************************************************************************)
\* A room that retention removed under the operation that holds it is over.
GoneIsOver == \A r \in Requests : Holding(r) /\ room = None => request[r].read.expires <= now

HInv == SInv /\ GoneIsOver

\* The room of SerialRoom, and what was asked, for any row and any requests.
HeldBy(rq, r) == rq[r] # None /\ rq[r].phase = "holding"

RowOf(rm, rq) ==
  LET holders == {r \in Requests : HeldBy(rq, r)}
  IN IF holders = {} THEN rm ELSE rq[CHOOSE r \in holders : TRUE].read

AskedIn(rq) == [r \in {t \in Requests : rq[t] # None} |-> Asked(rq[r])]

SameAsk(p, q) ==
  p.op = q.op /\ p.actor = q.actor /\ p.seat = q.seat /\ p.token = q.token /\ p.version = q.version

LEMMA RowOfFree ==
  ASSUME NEW rm, NEW rq, \A r \in Requests : ~HeldBy(rq, r)
  PROVE  RowOf(rm, rq) = rm
BY DEF RowOf

LEMMA RowOfHeld ==
  ASSUME NEW rm, NEW rq, NEW r \in Requests, HeldBy(rq, r),
         \A t \in Requests : HeldBy(rq, t) => t = r
  PROVE  RowOf(rm, rq) = rq[r].read
<1> DEFINE holders == {t \in Requests : HeldBy(rq, t)}
<1>1. holders = {r}
  OBVIOUS
<1>2. (CHOOSE t \in holders : TRUE) = r
  BY <1>1
<1> QED BY <1>1, <1>2 DEF RowOf

LEMMA AskedStays ==
  ASSUME NEW rq, NEW rq2,
         \A t \in Requests :
           rq2[t] = rq[t] \/ (rq[t] # None /\ rq2[t] # None /\ SameAsk(rq2[t], rq[t]))
  PROVE  AskedIn(rq2) = AskedIn(rq)
<1>1. {t \in Requests : rq2[t] # None} = {t \in Requests : rq[t] # None}
  OBVIOUS
<1>2. ASSUME NEW t \in {u \in Requests : rq[u] # None}
      PROVE  Asked(rq2[t]) = Asked(rq[t])
  BY DEF SameAsk, Asked
<1> QED BY <1>1, <1>2 DEF AskedIn

\* What SerialRoom sees.
LEMMA SerialView ==
  /\ Row = RowOf(room, request) /\ Row' = RowOf(room', request')
  /\ Serial!vars = <<now, Row, AskedIn(request), {r \in Requests : effects[r] > 0},
                     {g[1] : g \in granted}>>
  /\ Serial!vars' = <<now', Row', AskedIn(request'), {r \in Requests : effects'[r] > 0},
                      {g[1] : g \in granted'}>>
BY DEF Row, Holders, RowOf, HeldBy, AskedIn, Serial!vars

\* While nobody holds the room it is the row, and so it is while the row is there.
LEMMA RowIsThere ==
  ASSUME SInv
  PROVE  /\ Free => Row = room
         /\ room # None => Row = room
         /\ \A r \in Requests : Holding(r) => Row = request[r].read
<1>1. ASSUME NEW r \in Requests, Holding(r)
      PROVE  Row = request[r].read
  BY <1>1, SerialView, RowOfHeld DEF SInv, OneHolder, Holding, HeldBy
<1>2. (\A r \in Requests : ~Holding(r)) => Row = room
  BY SerialView, RowOfFree DEF Holding, HeldBy
<1>3. \A r \in Requests : Holding(r) /\ room # None => request[r].read = room
  BY DEF SInv, OneHolder
<1> QED BY <1>1, <1>2, <1>3 DEF Free, Holding

\* One request goes on, asks for what it asked for and holds nothing: SerialRoom sees nothing.
LEMMA GoesOnUnseen ==
  ASSUME SInv, NEW r \in Requests, request[r] # None, ~Holding(r),
         NEW k, k # None, k.phase # "holding", SameAsk(k, request[r]),
         request' = [request EXCEPT ![r] = k],
         UNCHANGED <<now, room, effects, granted>>
  PROVE  UNCHANGED Serial!vars
<1>1. \A t \in Requests : request'[t] = IF t = r THEN k ELSE request[t]
  BY DEF SInv, Types
<1>2. AskedIn(request') = AskedIn(request)
  BY <1>1, AskedStays
<1>3. \A t \in Requests : HeldBy(request', t) <=> HeldBy(request, t)
  BY <1>1 DEF HeldBy, Holding
<1>4. RowOf(room', request') = RowOf(room, request)
  <2>1. CASE \A t \in Requests : ~HeldBy(request, t)
    BY <1>3, <2>1, RowOfFree
  <2>2. CASE \E t \in Requests : HeldBy(request, t)
    <3>1. PICK t \in Requests : HeldBy(request, t)
      BY <2>2
    <3>2. \A u \in Requests : HeldBy(request, u) => u = t
      BY <3>1 DEF SInv, OneHolder, HeldBy, Holding
    <3>3. RowOf(room, request) = request[t].read
      BY <3>1, <3>2, RowOfHeld
    <3>4. RowOf(room', request') = request'[t].read
      BY <1>3, <3>1, <3>2, RowOfHeld
    <3>5. request'[t] = request[t]
      BY <1>1, <3>1 DEF Holding, HeldBy
    <3> QED BY <3>3, <3>4, <3>5
  <2> QED BY <2>1, <2>2
<1> QED BY <1>2, <1>4, SerialView

\* A request that arrives, is answered or refused, or whose answer comes or is lost.
GoesBy(r) == Arrive(r) \/ Replay(r) \/ Refuse(r) \/ Deliver(r) \/ Lose(r)

LEMMA GoingBy ==
  ASSUME SInv, NEW r \in Requests, GoesBy(r)
  PROVE  /\ request[r] # None /\ ~Holding(r)
         /\ UNCHANGED <<now, room, effects, granted>>
         /\ \E k \in Request : /\ k # None /\ k.phase # "holding" /\ SameAsk(k, request[r])
                               /\ request' = [request EXCEPT ![r] = k]
<1> DEFINE q == request[r]
           ways == {[q EXCEPT !.phase = "done"],
                    [q EXCEPT !.phase = "waiting", !.late = room # None /\ ~Active(room.expires)],
                    [q EXCEPT !.phase = "answered", !.result = records[r]],
                    [q EXCEPT !.phase = "unsent", !.result = None]}
<1>1. /\ q # None /\ q \in Request /\ ~Holding(r)
      /\ UNCHANGED <<now, room, effects, granted>>
  BY DEF GoesBy, Arrive, Replay, Refuse, Deliver, Lose, Served, Holding, SInv, Types
<1>2. /\ records[r] \in Tokens \cup {None}
      /\ (room # None /\ ~Active(room.expires)) \in BOOLEAN
  BY DEF SInv, Types
<1>3. \E k \in ways : request' = [request EXCEPT ![r] = k]
  BY DEF GoesBy, Arrive, Replay, Refuse, Deliver, Lose, End
<1>4. ASSUME NEW k \in ways
      PROVE  k \in Request /\ k.phase # "holding" /\ SameAsk(k, q)
  <2> DEFINE l == room # None /\ ~Active(room.expires)
  <2> HIDE DEF l
  <2>1. CASE k = [q EXCEPT !.phase = "done"]
    BY <1>1, <2>1 DEF Request, SameAsk
  <2>2. CASE k = [q EXCEPT !.phase = "waiting", !.late = l]
    BY <1>1, <1>2, <2>2 DEF Request, SameAsk, l
  <2>3. CASE k = [q EXCEPT !.phase = "answered", !.result = records[r]]
    BY <1>1, <1>2, <2>3 DEF Request, SameAsk
  <2>4. CASE k = [q EXCEPT !.phase = "unsent", !.result = None]
    BY <1>1, <2>4 DEF Request, SameAsk
  <2> QED BY <2>1, <2>2, <2>3, <2>4 DEF l
<1>5. \A k \in Request : k # None
  BY SessionsAssumption
<1> HIDE DEF ways
<1> QED BY <1>1, <1>3, <1>4, <1>5

LEMMA GoesByUnseen ==
  ASSUME SInv, NEW r \in Requests, GoesBy(r)
  PROVE  UNCHANGED Serial!vars
BY GoingBy, GoesOnUnseen

\* No step leaves a removed room in the hands of an operation before its date.
LEMMA StepOver == HInv /\ [Next]_vars => GoneIsOver'
<1> SUFFICES ASSUME HInv, [Next]_vars, NEW r \in Requests, Holding(r)', room' = None
             PROVE  request'[r].read.expires <= now'
  BY DEF GoneIsOver, Holding
<1>1. SInv /\ GoneIsOver /\ request \in [Requests -> Request \cup {None}] /\ now \in Nat
  BY ClockTypes DEF HInv, SInv, Types
<1>2. ASSUME NEW t \in Requests, Transact(t) \/ SaveRoom(t)
      PROVE  FALSE
  <2>1. /\ request[t] # None /\ request[t] \in Request
        /\ \A u \in Requests : Holding(u) => u = t
    BY <1>1, <1>2 DEF Transact, SaveRoom, Served, Free, Holding, SInv, OneHolder
  <2>2. request' = [request EXCEPT ![t].phase = "answered", ![t].read = None, ![t].result = derive(t)]
    BY <1>2 DEF Transact, SaveRoom, TakeEffect
  <2>3. /\ \A u \in Requests : u # t => request'[u] = request[u]
        /\ request'[t].phase = "answered"
    BY <1>1, <2>1, <2>2 DEF Request
  <2> QED BY <2>1, <2>3 DEF Holding
<1>3. ASSUME NEW t \in Requests, Read(t)
      PROVE  FALSE
  BY <1>3 DEF Read
<1>4. CASE Retention
  <2>1. Holding(r) /\ request'[r] = request[r] /\ now' = now /\ ~(now < room.expires) /\ room # None
    BY <1>4 DEF Retention, Holding, Active
  <2>2. request[r].read = room /\ room \in Room
    BY <1>1, <2>1 DEF SInv, OneHolder, Types
  <2> QED BY <1>1, <2>1, <2>2 DEF Room
<1>5. CASE Elapse
  <2>1. Holding(r) /\ room = None /\ request'[r] = request[r] /\ now' = now + 1
    BY <1>5 DEF Elapse, Holding
  <2>2. request[r].read.expires <= now /\ request[r].read \in Room
    BY <1>1, <2>1 DEF GoneIsOver, SInv, Types, Holding
  <2> QED BY <1>1, <2>1, <2>2 DEF Room
<1>6. CASE Restart
  <2>1. request'[r] = IF request[r] # None /\ request[r].phase \in {"waiting", "holding"}
                      THEN [request[r] EXCEPT !.phase = "unsent", !.read = None] ELSE request[r]
    BY <1>6 DEF Restart
  <2>2. request[r] # None => request[r] \in Request
    BY <1>1
  <2>3. ~Holding(r)'
    BY <2>1, <2>2 DEF Holding, Request
  <2> QED BY <2>3
<1>7. ASSUME NEW t \in Requests, AskSomething(t) \/ GoesBy(t)
      PROVE  request'[r].read.expires <= now'
  <2>1. /\ UNCHANGED <<now, room>>
        /\ \E k : k.phase # "holding" /\ request' = [request EXCEPT ![t] = k]
    <3>1. CASE AskSomething(t)
      BY <3>1 DEF AskSomething, Ask
    <3>2. CASE GoesBy(t)
      BY <1>1, <3>2, GoingBy
    <3> QED BY <1>7, <3>1, <3>2
  <2>2. PICK k : k.phase # "holding" /\ request' = [request EXCEPT ![t] = k]
    BY <2>1
  <2>3. r # t
    BY <1>1, <2>2 DEF Holding
  <2>4. request'[r] = request[r]
    BY <1>1, <2>2, <2>3
  <2>5. Holding(r) /\ room = None
    BY <2>1, <2>4 DEF Holding
  <2> QED BY <1>1, <2>1, <2>4, <2>5 DEF GoneIsOver
<1>8. CASE UNCHANGED vars
  BY <1>1, <1>8 DEF vars, GoneIsOver, Holding
<1> QED
  BY <1>2, <1>3, <1>4, <1>5, <1>6, <1>7, <1>8 DEF Next, Serve, GoesBy

\* What an accepted request does is one step of SerialRoom.
LEMMA EffectPerforms ==
  ASSUME SInv, NEW r \in Requests, request[r] # None, NEW rm \in Room, Live(rm), Row = rm,
         Accepted(rm, request[r]), request[r].phase \in {"waiting", "holding"},
         \A t \in Requests : Holding(t) => t = r,
         TakeEffect(r, rm)
  PROVE  Serial!Perform(r)
<1> DEFINE q == request[r]
           token == derive(r)
           k == [q EXCEPT !.phase = "answered", !.read = None, !.result = token]
           n == After(rm, q, token)
           a == Asked(q)
           own == JoinOps \cup {"redeem_transfer_code"}
<1>1. /\ q \in Request /\ effects \in [Requests -> Nat] /\ now \in Nat
      /\ request \in [Requests -> Request \cup {None}]
      /\ Sound(rm, now, request, effects, granted)
  BY ClockTypes, LiveIsSound DEF SInv, Types
<1>2. token \in Tokens
  BY DEF derive, Tokens, SInv, Types
<1>3. /\ request' = [request EXCEPT ![r] = k]
      /\ room' = n
      /\ effects' = [effects EXCEPT ![r] = @ + 1]
      /\ granted' = IF q.op = "redeem_transfer_code"
                    THEN granted \cup {<<q.token, token>>} ELSE granted
      /\ now' = now
  BY DEF TakeEffect
<1>4. k \in Request /\ k.phase = "answered" /\ SameAsk(k, q)
  BY <1>1, <1>2 DEF Request, SameAsk
<1>5. k # None
  BY <1>4, SessionsAssumption
<1>6. n = After(rm, q, token)
  OBVIOUS
<1>7. /\ a.kind = IF q.op \in own \cup {"delete_room"} THEN q.op ELSE "act"
      /\ a.actor = IF q.op \in own THEN q.seat ELSE q.actor
      /\ a.token = q.token /\ a.version = q.version
  BY DEF Asked
<1>8. q.seat \in Seats /\ q.seat \in Actors /\ q.op \in Operations /\ "act" \notin Operations
  BY <1>1 DEF Request, Actors, Operations, HostOps, PlayerOps, JoinOps
<1> HIDE DEF k, n, token, a
<1>9. \A t \in Requests : request'[t] = IF t = r THEN k ELSE request[t]
  BY <1>1, <1>3
<1>10. Row' = n
  <2>1. \A t \in Requests : ~HeldBy(request', t)
    BY <1>4, <1>9 DEF HeldBy, Holding
  <2> QED BY <1>3, <2>1, RowOfFree, SerialView
<1>11. AskedIn(request') = AskedIn(request)
  BY <1>4, <1>5, <1>9, AskedStays
<1>12. r \in DOMAIN AskedIn(request) /\ AskedIn(request)[r] = a
  BY DEF AskedIn, a
<1>13. r \notin {t \in Requests : effects[t] > 0}
  BY <1>1, FirstTime
<1>14. {t \in Requests : effects'[t] > 0} = {t \in Requests : effects[t] > 0} \cup {r}
  BY <1>1, <1>3
<1>15. {g[1] : g \in granted'} = IF a.kind = "redeem_transfer_code"
                                 THEN {g[1] : g \in granted} \cup {a.token} ELSE {g[1] : g \in granted}
  <2>1. a.kind = "redeem_transfer_code" <=> q.op = "redeem_transfer_code"
    BY <1>7 DEF JoinOps
  <2>2. CASE q.op = "redeem_transfer_code"
    <3>1. \A x : {g[1] : g \in granted \cup {x}} = {g[1] : g \in granted} \cup {x[1]}
      OBVIOUS
    <3>2. <<q.token, token>>[1] = q.token
      OBVIOUS
    <3> QED BY <1>3, <1>7, <2>1, <2>2, <3>1, <3>2
  <2>3. CASE q.op # "redeem_transfer_code"
    BY <1>3, <2>1, <2>3
  <2> QED BY <2>2, <2>3
<1>16. a.kind = "join_room_by_code" \/ a.version = rm.version
  BY <1>7 DEF Accepted, CheckVersion, JoinOps
\* The caller is entitled to it.
<1>17. a.kind \in JoinOps => rm.session[a.actor].token = None
  BY <1>7 DEF Accepted, Joined, JoinOps
<1>18. a.kind = "redeem_transfer_code"
         => a.token \notin {g[1] : g \in granted} /\ now < rm.expires
  <2> SUFFICES ASSUME a.kind = "redeem_transfer_code"
               PROVE  a.token \notin {g[1] : g \in granted} /\ now < rm.expires
    OBVIOUS
  <2>1. q.op = "redeem_transfer_code"
    BY <1>7
  <2>2. Redeemable(rm, q)
    BY <2>1 DEF Accepted, JoinOps
  <2>3. \A g \in granted : g[1] # q.token
    BY <1>1, <1>8, <2>2 DEF Redeemable, Sound, CodesSpent
  <2> QED BY <1>7, <2>2, <2>3 DEF Redeemable, Active
<1>19. a.kind \notin own => a.token = rm.session[a.actor].token
  <2> SUFFICES ASSUME a.kind \notin own
               PROVE  a.token = rm.session[a.actor].token
    OBVIOUS
  <2>1. q.op \in HostOps \cup PlayerOps
    BY <1>7, <1>8 DEF Operations
  <2>2. rm.version = q.version
    BY <2>1 DEF Accepted, CheckVersion, HostOps, PlayerOps
  <2>3. LetIn(rm, q)
    BY <1>1 DEF Sound, Authority
  <2> QED BY <1>7, <2>1, <2>2, <2>3 DEF LetIn, HostOps, PlayerOps, JoinOps
<1>20. Serial!Entitled(a)
  BY <1>17, <1>18, <1>19 DEF Serial!Entitled, Serial!Joins, JoinOps
\* And the room it leaves is one it may leave.
<1>21. a.kind = "delete_room" => n = None
  BY <1>6, <1>7, <1>8 DEF After, JoinOps, Operations, HostOps, PlayerOps
<1>22. a.kind # "delete_room" => Serial!Leaves(a, n)
  <2> SUFFICES ASSUME a.kind # "delete_room"
               PROVE  Serial!Leaves(a, n)
    OBVIOUS
  <2>1. q.op # "delete_room"
    BY <1>7
  <2>2. Moved(rm, q, token, n)
    BY <1>1, <1>2, <1>6, <2>1, AfterMoved DEF Sound
  <2>3. n # None
    BY <2>2, SessionsAssumption DEF Moved
  <2>4. ASSUME NEW b \in Actors, b # a.actor \/ a.kind = "act"
        PROVE  n.session[b].token = rm.session[b].token
    BY <1>7, <1>8, <2>2, <2>4 DEF Moved
  <2>5. a.kind # "act" => n.session[a.actor].token # None
    BY <1>7, <2>1, <2>2 DEF Moved, Joined
  <2> QED BY <2>2, <2>3, <2>4, <2>5 DEF Moved, Fits, Serial!Leaves
<1>23. rm # None
  BY SessionsAssumption
<1>24. Serial!Current(a)
  BY <1>16 DEF Serial!Current
<1> QED
  BY <1>3, <1>10, <1>11, <1>12, <1>13, <1>14, <1>15, <1>20, <1>21, <1>22, <1>23, <1>24
  DEF Serial!Perform, AskedIn

\* The room lies within what SerialRoom starts from.
LEMMA InitSerial == Init => Serial!Init
<1> SUFFICES ASSUME Init PROVE Serial!Init
  OBVIOUS
<1>1. SInv /\ now = 0 /\ \A r \in Requests : request[r] = None /\ effects[r] = 0
  BY InitSound DEF Init
<1>2. granted = {} /\ room # None
  BY InitRoom, SessionsAssumption DEF Init
<1>3. Row = room
  BY <1>1, RowIsThere DEF Free
<1>4. [r \in {t \in Requests : request[t] # None} |-> Asked(request[r])] = <<>>
  <2>1. {t \in Requests : request[t] # None} = {}
    BY <1>1
  <2> QED BY <2>1
<1>5. {r \in Requests : effects[r] > 0} = {} /\ {g[1] : g \in granted} = {}
  BY <1>1, <1>2
<1> QED BY <1>1, <1>2, <1>3, <1>4, <1>5 DEF Serial!Init

\* A request is made of the room as it is.
LEMMA AskAsks ==
  ASSUME SInv, NEW r \in Requests, AskSomething(r)
  PROVE  Serial!Ask(r)
<1>1. PICK op \in Operations, actor \in Actors, seat \in Seats, token \in Tokens \cup {None} :
        Ask(r, op, actor, seat, token)
  BY DEF AskSomething, Operations, Actors
<1> DEFINE k == [op |-> op, actor |-> actor, seat |-> seat, token |-> token,
                 version |-> room.version, late |-> FALSE, phase |-> "unsent",
                 read |-> None, result |-> None]
<1>2. /\ room # None /\ room \in Room /\ request[r] = None /\ room.version \in Nat
      /\ UNCHANGED <<now, room, granted, effects>>
  BY <1>1 DEF Ask, SInv, Types, Room
<1>3. k \in Request
  BY <1>2 DEF Request
<1>4. \A t \in Requests : request'[t] = IF t = r THEN k ELSE request[t]
  BY <1>1 DEF Ask, SInv, Types
<1>5. /\ k.op = op /\ k.actor = actor /\ k.seat = seat /\ k.token = token
      /\ k.version = room.version /\ k.phase = "unsent"
  OBVIOUS
<1>6. k # None
  BY <1>3, SessionsAssumption
<1> HIDE DEF k
<1>7. Row = room
  BY <1>2, RowIsThere
<1>8. Row' = Row
  <2>1. \A t \in Requests : HeldBy(request', t) <=> HeldBy(request, t)
    BY <1>2, <1>4, <1>5 DEF HeldBy
  <2>2. CASE \A t \in Requests : ~HeldBy(request, t)
    BY <1>2, <1>7, <2>1, <2>2, RowOfFree, SerialView
  <2>3. ASSUME NEW t \in Requests, HeldBy(request, t)
        PROVE  Row' = Row
    <3>1. \A u \in Requests : HeldBy(request, u) => u = t
      BY <2>3 DEF SInv, OneHolder, HeldBy, Holding
    <3>2. Row' = request'[t].read
      BY <2>1, <2>3, <3>1, RowOfHeld, SerialView
    <3>3. Row = request[t].read
      BY <2>3, <3>1, RowOfHeld, SerialView
    <3>4. request'[t] = request[t]
      BY <1>2, <1>4, <2>3 DEF HeldBy
    <3> QED BY <3>2, <3>3, <3>4
  <2> QED BY <2>2, <2>3
<1>9. /\ DOMAIN AskedIn(request') = DOMAIN AskedIn(request) \cup {r}
      /\ r \notin DOMAIN AskedIn(request)
      /\ AskedIn(request')[r] = Asked(k)
      /\ \A t \in DOMAIN AskedIn(request) : AskedIn(request')[t] = AskedIn(request)[t]
  BY <1>2, <1>4, <1>6 DEF AskedIn
<1>10. Asked(k) \in [kind : Serial!Kinds, actor : Actors, token : Tokens \cup {None},
                     version : {Row.version}]
  <2>1. seat \in Actors
    BY DEF Actors
  <2>2. op \notin JoinOps \cup {"redeem_transfer_code", "delete_room"}
          \/ op \in Serial!Kinds
    BY DEF Serial!Kinds, Serial!Joins, JoinOps
  <2>3. "act" \in Serial!Kinds
    BY DEF Serial!Kinds
  <2> QED BY <1>5, <1>7, <2>1, <2>2, <2>3 DEF Asked
<1> QED BY <1>2, <1>7, <1>8, <1>9, <1>10 DEF Serial!Ask, AskedIn

\* Each step is one of SerialRoom, or is not seen there.
LEMMA StepSerial == HInv /\ HInv' /\ [Next]_vars => [Serial!Next]_(Serial!vars)
<1> SUFFICES ASSUME HInv, HInv', [Next]_vars
             PROVE  Serial!Next \/ UNCHANGED Serial!vars
  OBVIOUS
<1>1. SInv /\ GoneIsOver /\ SInv' /\ request \in [Requests -> Request \cup {None}]
  BY DEF HInv, SInv, Types
<1>2. ASSUME NEW r \in Requests, AskSomething(r)
      PROVE  Serial!Next
  BY <1>1, <1>2, AskAsks DEF Serial!Next
<1>3. ASSUME NEW r \in Requests, GoesBy(r)
      PROVE  UNCHANGED Serial!vars
  BY <1>1, <1>3, GoesByUnseen
<1>4. ASSUME NEW r \in Requests, Transact(r)
      PROVE  Serial!Next
  <2>1. /\ request[r] # None /\ request[r].phase = "waiting"
        /\ room \in Room /\ room # None /\ Accepted(room, request[r])
        /\ TakeEffect(r, room) /\ Free
    BY <1>1, <1>4 DEF Transact, Served, SInv, Types
  <2>2. Live(room) /\ Row = room /\ \A t \in Requests : Holding(t) => t = r
    BY <1>1, <2>1, RowIsThere DEF Live, Free, Holding
  <2>3. Serial!Perform(r)
    BY <1>1, <2>1, <2>2, EffectPerforms
  <2> QED BY <2>3 DEF Serial!Next
<1>5. ASSUME NEW r \in Requests, SaveRoom(r)
      PROVE  Serial!Next
  <2>1. /\ Holding(r) /\ request[r] \in Request /\ request[r].read \in Room
        /\ TakeEffect(r, request[r].read)
    BY <1>1, <1>5 DEF SaveRoom, Holding, SInv, Types
  <2>2. /\ Decided(request[r].read, request[r])
        /\ \A t \in Requests : Holding(t) => t = r
    BY <1>1, <2>1 DEF SInv, OneHolder
  <2>3. Accepted(request[r].read, request[r])
    BY <2>1, <2>2, DecidedReadsAndSaves, DecidedMeansAccepted
  <2>4. Live(request[r].read) /\ Row = request[r].read
    BY <1>1, <2>1, RowIsThere DEF Live
  <2>5. Serial!Perform(r)
    BY <1>1, <2>1, <2>2, <2>3, <2>4, EffectPerforms DEF Holding
  <2> QED BY <2>5 DEF Serial!Next
<1>6. ASSUME NEW r \in Requests, Read(r)
      PROVE  UNCHANGED Serial!vars
  <2> DEFINE k == [request[r] EXCEPT !.phase = "holding", !.read = room]
  <2>1. /\ request[r] # None /\ request[r] \in Request /\ room \in Room /\ room # None /\ Free
        /\ request' = [request EXCEPT ![r] = k] /\ UNCHANGED <<now, room, effects, granted>>
    BY <1>1, <1>6 DEF Read, Served, SInv, Types
  <2>2. k \in Request /\ SameAsk(k, request[r]) /\ k.read = room
    BY <2>1 DEF Request, SameAsk
  <2>3. k # None
    BY <2>2, SessionsAssumption
  <2> HIDE DEF k
  <2>4. \A t \in Requests : request'[t] = IF t = r THEN k ELSE request[t]
    BY <1>1, <2>1
  <2>5. AskedIn(request') = AskedIn(request)
    BY <2>1, <2>2, <2>3, <2>4, AskedStays
  <2>6. \A t \in Requests : HeldBy(request', t) => request'[t].read = room
    BY <2>1, <2>2, <2>4 DEF Free, HeldBy
  <2>7. Row' = room
    <3>1. CASE \A t \in Requests : ~HeldBy(request', t)
      BY <2>1, <3>1, RowOfFree, SerialView
    <3>2. ASSUME NEW t \in Requests, HeldBy(request', t)
          PROVE  Row' = room
      <4>1. \A u \in Requests : HeldBy(request', u) => u = t
        BY <1>1, <3>2 DEF SInv, OneHolder, HeldBy, Holding
      <4> QED BY <2>6, <3>2, <4>1, RowOfHeld, SerialView
    <3> QED BY <3>1, <3>2
  <2>8. Row = room
    BY <1>1, <2>1, RowIsThere
  <2> QED BY <2>1, <2>5, <2>7, <2>8, SerialView
<1>7. ASSUME UNCHANGED <<now, effects, granted>>, AskedIn(request') = AskedIn(request),
             Row' = Row \/ (Row' = None /\ Row # None /\ Row.expires <= now)
      PROVE  Serial!Next \/ UNCHANGED Serial!vars
  <2>1. CASE Row' = Row
    BY <1>7, <2>1, SerialView
  <2>2. CASE Row' = None /\ Row # None /\ Row.expires <= now
    <3>1. Serial!Remove
      BY <1>7, <2>2, SerialView DEF Serial!Remove, AskedIn
    <3> QED BY <3>1 DEF Serial!Next
  <2> QED BY <1>7, <2>1, <2>2
<1>8. CASE Retention
  <2>1. /\ room # None /\ room' = None /\ ~(now < room.expires)
        /\ UNCHANGED <<now, request, effects, granted>>
    BY <1>8 DEF Retention, Active
  <2>2. room \in Room /\ now \in Nat /\ Row = room
    BY <1>1, <2>1, ClockTypes, RowIsThere DEF SInv, Types
  <2>3. Row.expires <= now
    BY <2>1, <2>2 DEF Room
  <2>4. Row' = Row \/ Row' = None
    BY <2>1, SerialView DEF RowOf
  <2> QED BY <1>7, <2>1, <2>2, <2>3, <2>4
<1>9. CASE Restart
  <2>1. /\ UNCHANGED <<now, room, effects, granted>>
        /\ \A t \in Requests :
             request'[t] = IF request[t] # None /\ request[t].phase \in {"waiting", "holding"}
                           THEN [request[t] EXCEPT !.phase = "unsent", !.read = None]
                           ELSE request[t]
    BY <1>9 DEF Restart
  <2>2. ASSUME NEW t \in Requests, request[t] # None
        PROVE  request'[t] # None /\ SameAsk(request'[t], request[t]) /\ ~HeldBy(request', t)
    <3>1. request[t] \in Request
      BY <1>1, <2>2
    <3> DEFINE k == [request[t] EXCEPT !.phase = "unsent", !.read = None]
    <3>2. k \in Request /\ SameAsk(k, request[t]) /\ k.phase = "unsent"
      BY <3>1 DEF Request, SameAsk
    <3>3. request'[t] = IF request[t].phase \in {"waiting", "holding"} THEN k ELSE request[t]
      BY <2>1, <2>2
    <3> HIDE DEF k
    <3>4. request'[t] \in Request /\ SameAsk(request'[t], request[t])
      BY <3>1, <3>2, <3>3 DEF SameAsk
    <3>5. request'[t].phase # "holding"
      BY <3>2, <3>3
    <3> QED BY <3>4, <3>5, SessionsAssumption DEF HeldBy
  <2>3. AskedIn(request') = AskedIn(request)
    BY <2>1, <2>2, AskedStays
  <2>4. Row' = room
    <3>1. \A t \in Requests : ~HeldBy(request', t)
      BY <2>1, <2>2 DEF HeldBy
    <3> QED BY <2>1, <3>1, RowOfFree, SerialView
  <2>5. CASE Free
    BY <1>1, <1>7, <2>1, <2>3, <2>4, <2>5, RowIsThere
  <2>6. CASE ~Free
    <3>1. PICK r \in Requests : Holding(r)
      BY <2>6 DEF Free, Holding
    <3>2. Row = request[r].read /\ request[r].read \in Room
      BY <1>1, <3>1, RowIsThere DEF SInv, Types, Holding
    <3>3. Row # None
      BY <3>2, SessionsAssumption
    <3>4. room = Row \/ (room = None /\ Row.expires <= now)
      BY <1>1, <3>1, <3>2 DEF SInv, OneHolder, GoneIsOver
    <3> QED BY <1>7, <2>1, <2>3, <2>4, <3>3, <3>4
  <2> QED BY <2>5, <2>6
<1>10. CASE Elapse
  <2>1. now' = now + 1 /\ UNCHANGED <<room, request, effects, granted>>
    BY <1>10 DEF Elapse
  <2>2. Row' = Row
    BY <2>1, SerialView
  <2>3. Serial!Tick
    BY <2>1, <2>2 DEF Serial!Tick
  <2> QED BY <2>3 DEF Serial!Next
<1>11. CASE UNCHANGED vars
  BY <1>11, SerialView DEF vars
<1> QED
  BY <1>2, <1>3, <1>4, <1>5, <1>6, <1>8, <1>9, <1>10, <1>11 DEF Next, Serve, GoesBy

\* However requests wait, are lost, sent again or cut off by a restart, and whatever
\* retention removes under an operation, the room is one whose requests take effect one
\* after another, each once, with authority in the room as it is at that moment
\* (MemoryIdempotencyStore.execute, RoomService, PostgresRoomRepository).
THEOREM ServedOneAtATimeHolds == Spec => ServedOneAtATime
<1>1. Init => GoneIsOver
  BY DEF Init, GoneIsOver, Holding
<1>2. Init => HInv
  BY <1>1, InitSound DEF HInv
<1>3. HInv /\ [Next]_vars => HInv'
  BY StepSound, StepOver DEF HInv
<1> QED BY <1>2, <1>3, InitSerial, StepSerial, PTL DEF Spec, ServedOneAtATime, Serial!Spec

=============================================================================
