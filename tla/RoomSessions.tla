---------------------------- MODULE RoomSessions ----------------------------
(***************************************************************************)
(* Who may act in a room, and for how long: sessions of the host and the   *)
(* players, transfer codes, expiry and retention, as RoomService keeps     *)
(* them behind the idempotency store of the one web process.               *)
(*                                                                         *)
(* A request authorises its caller on the room as it finds it, waits for   *)
(* the lock of the idempotency store, and then operates on the room as it  *)
(* has become meanwhile.  Joining and playing read the room and save it    *)
(* later; issuing, redeeming and deleting are one locked transaction.  An  *)
(* answer may be lost: the client sends the request again under its        *)
(* Idempotency-Key, perhaps to a process that knows nothing of the first   *)
(* time.                                                                   *)
(*                                                                         *)
(* What an operation does to the game is in RoomGame; here are its effects *)
(* on sessions, dates and the version.                                     *)
(***************************************************************************)
EXTENDS Naturals, FiniteSets

CONSTANTS
  Seats,         \* players of the room, by the nickname they join under
  Host,
  Requests,      \* what clients may ask for, each under a key of its own
  Lifetime,      \* of rooms and sessions: 7 days
  CodeLifetime,  \* of a transfer code: 10 minutes
  MaxTime,       \* bound: the clock stops there
  MaxRestarts,   \* bound on restarts of the web process
  None

Actors == Seats \cup {Host}

Tokens == [key : Requests \cup {None}, secret : 0..MaxRestarts]

VARIABLES
  now,
  process,   \* how often the web process was started again; each has its own secret
  room,      \* the row of the room, or None
  records,   \* replies of the idempotency store, by key
  request,
  held,      \* who holds which session token, in the cookies of some browser
  passed,    \* transfer codes the host was given and has passed on
  granted,   \* history: codes redeemed, with the token each was redeemed for
  effects,   \* history: how often each request took effect
  deleted    \* history: the host has deleted the room

vars == <<now, process, room, records, request, held, passed, granted, effects, deleted>>

\* HmacSessionTokenFactory.derive: one token for a key in the life of a process.
derive(r) == [key |-> r, secret |-> process]

\* The tokens of before the first request.
First == [key |-> None, secret |-> 0]

HostOps    == {"start_game", "finish_game", "issue_transfer_code", "delete_room"}
PlayerOps  == {"update_character", "submit_action"}
JoinOps    == {"join_room", "join_room_by_code"}
Operations == HostOps \cup PlayerOps \cup JoinOps \cup {"redeem_transfer_code"}

\* Those that are one transaction on the locked row; the others read, then save.
Transactions == {"issue_transfer_code", "redeem_transfer_code", "delete_room"}

Statuses == {"LOBBY", "COLLECTING_ACTIONS", "COMPLETED"}

TransferCode == [id : Tokens, expires : Nat, consumed : BOOLEAN]

Room == [status  : Statuses, version : Nat, expires : Nat,
         session : [Actors -> [token : Tokens \cup {None}, expires : Nat]],
         code    : [Seats -> TransferCode \cup {None}]]

Request == [op : Operations, actor : Actors, seat : Seats, token : Tokens \cup {None},
            version : Nat, late : BOOLEAN,
            phase : {"unsent", "waiting", "holding", "answered", "done"},
            read : Room \cup {None}, result : Tokens \cup {None}]

ASSUME SessionsAssumption ==
  /\ Host \notin Seats
  /\ Lifetime \in Nat \ {0} /\ CodeLifetime \in Nat \ {0}
  /\ MaxTime \in Nat /\ MaxRestarts \in Nat
  /\ None \notin Requests \cup Tokens /\ None \notin Request \cup Room

\* Types; no room lasts longer than a lifetime from now.
TypeOK ==
  /\ now \in 0..MaxTime /\ process \in 0..MaxRestarts
  /\ room \in Room \cup {None}
  /\ room # None => room.expires <= now + Lifetime
  /\ records \in [Requests -> Tokens \cup {None}]
  /\ request \in [Requests -> Request \cup {None}]
  /\ held \subseteq Actors \X Tokens
  /\ passed \subseteq Seats \X Tokens
  /\ granted \subseteq Tokens \X Tokens
  /\ effects \in [Requests -> Nat]
  /\ deleted \in BOOLEAN

\* A room at some stage, and who has joined it.
Init ==
  /\ now = 0 /\ process = 0
  /\ \E status \in Statuses, joined \in SUBSET Seats :
       LET session == [token |-> First, expires |-> Lifetime]
           vacant  == [token |-> None, expires |-> 0]
       IN /\ room = [status  |-> status, version |-> 1, expires |-> Lifetime,
                     session |-> [a \in Actors |-> IF a \in joined \cup {Host}
                                                   THEN session ELSE vacant],
                     code    |-> [s \in Seats |-> None]]
          /\ held = (joined \cup {Host}) \X {First}
  /\ records = [r \in Requests |-> None]
  /\ request = [r \in Requests |-> None]
  /\ passed = {} /\ granted = {} /\ deleted = FALSE
  /\ effects = [r \in Requests |-> 0]

(***************************************************************************)
(* What clients send                                                       *)
(***************************************************************************)
\* A client makes a request of the room as it last saw it.
Ask(r, op, actor, seat, token) ==
  /\ request[r] = None /\ room # None
  /\ request' = [request EXCEPT ![r] =
                   [op |-> op, actor |-> actor, seat |-> seat, token |-> token,
                    version |-> room.version, late |-> FALSE, phase |-> "unsent",
                    read |-> None, result |-> None]]
  /\ UNCHANGED <<now, process, room, records, held, passed, granted, effects, deleted>>

\* A browser sends the cookies it has; a code stands in the place of a token.
AskSomething(r) == \E seat \in Seats :
  \/ \E op \in HostOps, token \in Tokens : <<Host, token>> \in held /\ Ask(r, op, Host, seat, token)
  \/ \E op \in PlayerOps, token \in Tokens :
       <<seat, token>> \in held /\ Ask(r, op, seat, seat, token)
  \/ \E op \in JoinOps : Ask(r, op, seat, seat, None)
  \/ \E code \in Tokens :
       <<seat, code>> \in passed /\ Ask(r, "redeem_transfer_code", seat, seat, code)

(***************************************************************************)
(* Sessions and dates                                                      *)
(***************************************************************************)
\* _session_is_active
Active(expires) == now < expires

\* _authorize_host and _authorize_player: neither the room nor the session is over,
\* and the token is the one on record.
Authorised(rm, q) ==
  /\ Active(rm.expires) /\ Active(rm.session[q.actor].expires)
  /\ q.token = rm.session[q.actor].token

Earlier(d, e) == IF d < e THEN d ELSE e

\* _refresh_activity: the date of a completed room stays as its ending set it.
RefreshActivity(rm, actor, completed) ==
  LET activity == now + Lifetime
      expires  == IF completed \/ rm.status # "COMPLETED" THEN activity ELSE rm.expires
  IN [rm EXCEPT !.expires = expires, !.session[actor].expires = Earlier(activity, expires)]

(***************************************************************************)
(* Operations: when they are accepted, and what becomes of the room        *)
(***************************************************************************)
\* Mutant: the version is not compared.
CheckVersion_Never(rm, q) == TRUE

\* _check_version; join_room_by_code alone does not ask for it.
CheckVersion(rm, q) == q.op = "join_room_by_code" \/ rm.version = q.version

\* Mutant: a code that was used is taken again.
Redeemable_Again(rm, q) ==
  /\ Active(rm.expires)
  /\ rm.code[q.seat] # None
  /\ Active(rm.code[q.seat].expires)
  /\ rm.code[q.seat].id = q.token

\* The conditions of redeem_transfer_code on the room and on the code.
Redeemable(rm, q) ==
  /\ Active(rm.expires)
  /\ rm.code[q.seat] # None
  /\ ~rm.code[q.seat].consumed
  /\ Active(rm.code[q.seat].expires)
  /\ rm.code[q.seat].id = q.token

Joined(rm, seat) == rm.session[seat].token # None

Accepted(rm, q) ==
  /\ CheckVersion(rm, q)
  /\ CASE q.op \in JoinOps -> rm.status = "LOBBY" /\ ~Joined(rm, q.seat)
       [] q.op \in {"start_game", "update_character"} -> rm.status = "LOBBY"
       [] q.op \in {"submit_action", "finish_game"} -> rm.status = "COLLECTING_ACTIONS"
       [] q.op = "issue_transfer_code" -> Authorised(rm, q) /\ Joined(rm, q.seat)
       [] q.op = "delete_room" -> Authorised(rm, q)
       [] q.op = "redeem_transfer_code" -> Redeemable(rm, q)

\* Mutant: the version stays.
Redeemed_SameVersion(rm, q, token) ==
  [rm EXCEPT !.code[q.seat].consumed = TRUE,
             !.session[q.seat] = [token |-> token, expires |-> Earlier(now + Lifetime, rm.expires)]]

\* Mutant: the new session lasts a full lifetime.
Redeemed_FullLifetime(rm, q, token) ==
  [rm EXCEPT !.version = @ + 1,
             !.code[q.seat].consumed = TRUE,
             !.session[q.seat] = [token |-> token, expires |-> now + Lifetime]]

\* redeem_transfer_code: the seat has a new session, within the life of the room.
Redeemed(rm, q, token) ==
  [rm EXCEPT !.version = @ + 1,
             !.code[q.seat].consumed = TRUE,
             !.session[q.seat] = [token |-> token, expires |-> Earlier(now + Lifetime, rm.expires)]]

\* The room an accepted operation leaves.
After(rm, q, token) ==
  LET next == [rm EXCEPT !.version = @ + 1]
  IN CASE q.op \in JoinOps -> RefreshActivity([next EXCEPT !.session[q.seat].token = token], q.seat, FALSE)
       [] q.op = "update_character" -> next
       [] q.op = "submit_action" -> RefreshActivity(next, q.seat, FALSE)
       [] q.op = "start_game" ->
            RefreshActivity([next EXCEPT !.status = "COLLECTING_ACTIONS"], Host, FALSE)
       [] q.op = "finish_game" -> RefreshActivity([next EXCEPT !.status = "COMPLETED"], Host, TRUE)
       [] q.op = "issue_transfer_code" ->
            RefreshActivity([next EXCEPT !.code[q.seat] =
                               [id |-> token, expires |-> now + CodeLifetime, consumed |-> FALSE]],
                            Host, FALSE)
       [] q.op = "redeem_transfer_code" -> Redeemed(rm, q, token)
       [] q.op = "delete_room" -> None

(***************************************************************************)
(* The web process                                                         *)
(***************************************************************************)
End(r) == request' = [request EXCEPT ![r].phase = "done"]

\* The request arrives, for the first time or again: who has no authority in the room
\* as it is now is refused.  late is history: the room was over by then.
Arrive(r) ==
  /\ request[r] # None /\ request[r].phase = "unsent"
  /\ LET q == request[r]
     IN IF q.op \in HostOps \cup PlayerOps /\ (room = None \/ ~Authorised(room, q))
        THEN End(r)
        ELSE request' = [request EXCEPT ![r].phase = "waiting",
                                        ![r].late = room # None /\ ~Active(room.expires)]
  /\ UNCHANGED <<now, process, room, records, held, passed, granted, effects, deleted>>

Served(r) == request[r] # None /\ request[r].phase = "waiting"
Free == \A r \in Requests : request[r] # None => request[r].phase # "holding"

\* MemoryIdempotencyStore.execute of a key that has a reply.
Replay(r) ==
  /\ Served(r) /\ Free
  /\ records[r] # None
  /\ request' = [request EXCEPT ![r].phase = "answered", ![r].result = records[r]]
  /\ UNCHANGED <<now, process, room, records, held, passed, granted, effects, deleted>>

\* The operation is refused; nothing is recorded.
Refuse(r) ==
  /\ Served(r) /\ Free
  /\ records[r] = None
  /\ ~(room # None /\ Accepted(room, request[r]))
  /\ End(r)
  /\ UNCHANGED <<now, process, room, records, held, passed, granted, effects, deleted>>

\* The effect of r on the room it was decided on, and its record.
TakeEffect(r, rm) ==
  LET q     == request[r]
      token == derive(r)
  IN /\ room' = After(rm, q, token)
     /\ records' = [records EXCEPT ![r] = token]
     /\ request' = [request EXCEPT ![r].phase = "answered", ![r].read = None, ![r].result = token]
     /\ effects' = [effects EXCEPT ![r] = @ + 1]
     /\ granted' = IF q.op = "redeem_transfer_code" THEN granted \cup {<<q.token, token>>} ELSE granted
     /\ deleted' = (deleted \/ q.op = "delete_room")
     /\ UNCHANGED <<now, process, held, passed>>

\* Mutant: a transaction does not wait for the lock of the idempotency store.
Transact_Unlocked(r) ==
  /\ Served(r)
  /\ records[r] = None
  /\ request[r].op \in Transactions
  /\ room # None /\ Accepted(room, request[r])
  /\ TakeEffect(r, room)

\* repository.mutate and delete
Transact(r) ==
  /\ Served(r) /\ Free
  /\ records[r] = None
  /\ request[r].op \in Transactions
  /\ room # None /\ Accepted(room, request[r])
  /\ TakeEffect(r, room)

\* Mutant: an operation reads the room before it has the lock.
Read_Unlocked(r) ==
  /\ Served(r)
  /\ records[r] = None
  /\ request[r].op \notin Transactions
  /\ room # None /\ Accepted(room, request[r])
  /\ request' = [request EXCEPT ![r].phase = "holding", ![r].read = room]
  /\ UNCHANGED <<now, process, room, records, held, passed, granted, effects, deleted>>

\* repository.get within an operation that will save.
Read(r) ==
  /\ Served(r) /\ Free
  /\ records[r] = None
  /\ request[r].op \notin Transactions
  /\ room # None /\ Accepted(room, request[r])
  /\ request' = [request EXCEPT ![r].phase = "holding", ![r].read = room]
  /\ UNCHANGED <<now, process, room, records, held, passed, granted, effects, deleted>>

\* repository.save: the whole room as it was read, even if it is gone.
SaveRoom(r) ==
  /\ request[r] # None /\ request[r].phase = "holding"
  /\ TakeEffect(r, request[r].read)

\* The answer reaches the browser, which keeps the cookie; a host passes the code on.
Deliver(r) ==
  /\ request[r] # None /\ request[r].phase = "answered"
  /\ LET q == request[r]
     IN /\ held' = IF q.op \in JoinOps \cup {"redeem_transfer_code"}
                   THEN held \cup {<<q.seat, q.result>>} ELSE held
        /\ passed' = IF q.op = "issue_transfer_code"
                     THEN passed \cup {<<q.seat, q.result>>} ELSE passed
  /\ End(r)
  /\ UNCHANGED <<now, process, room, records, granted, effects, deleted>>

\* The answer is lost, and the client sends the request again under the same key.  (The
\* pages of src/web take a new key for each call: that is another request of Requests.)
Lose(r) ==
  /\ request[r] # None /\ request[r].phase = "answered"
  /\ request' = [request EXCEPT ![r].phase = "unsent", ![r].result = None]
  /\ UNCHANGED <<now, process, room, records, held, passed, granted, effects, deleted>>

\* The web process ends and starts again: replies, threads and secret are gone.
Restart ==
  /\ process < MaxRestarts
  /\ process' = process + 1
  /\ records' = [r \in Requests |-> None]
  /\ request' = [r \in Requests |->
                   IF request[r] # None /\ request[r].phase \in {"waiting", "holding"}
                   THEN [request[r] EXCEPT !.phase = "unsent", !.read = None]
                   ELSE request[r]]
  /\ UNCHANGED <<now, room, held, passed, granted, effects, deleted>>

\* cleanup_expired_rooms
Retention ==
  /\ room # None /\ ~Active(room.expires)
  /\ room' = None
  /\ UNCHANGED <<now, process, records, request, held, passed, granted, effects, deleted>>

Elapse ==
  /\ now < MaxTime
  /\ now' = now + 1
  /\ UNCHANGED <<process, room, records, request, held, passed, granted, effects, deleted>>

Serve(r) == Arrive(r) \/ Replay(r) \/ Refuse(r) \/ Transact(r) \/ Read(r) \/ SaveRoom(r)

Next ==
  \/ \E r \in Requests : AskSomething(r) \/ Serve(r) \/ Deliver(r) \/ Lose(r)
  \/ Restart \/ Retention \/ Elapse

Spec == Init /\ [][Next]_vars

(***************************************************************************)
(* Properties                                                              *)
(***************************************************************************)
\* A transfer code is worth one session: however redeems race, repeat after a lost
\* answer or meet a restart, no code was ever redeemed for two tokens
\* (room_service.py:598-618).
CodeWorksOnce == \A g, h \in granted : g[1] = h[1] => g = h

\* Nobody acts on an authority that was taken away while the request waited: the
\* session a request was let in with is still the one on record when it takes effect
\* (only the version tells, room_service.py:733 and 618).
AuthorityCurrent ==
  [][\A r \in Requests :
       LET q == request[r]
       IN effects'[r] # effects[r] /\ q.op \in HostOps \cup PlayerOps /\ room # None
          => q.token = room.session[q.actor].token]_vars

\* No session outlives its room (room_service.py:616, 1215), so retention never
\* removes a room in which somebody may still act.
SessionsEndWithRoom ==
  room # None => \A a \in Actors : room.session[a].expires <= room.expires

\* A completed room goes when its ending said, whatever is done in it afterwards
\* (room_service.py:1211).
EndingKeepsItsDate ==
  [][room # None /\ room' # None /\ room.status = "COMPLETED" =>
       room'.status = "COMPLETED" /\ room'.expires = room.expires]_vars

\* A request takes effect once, even if the process that recorded its reply is gone
\* (memory_idempotency_store.py:16; the version, the nickname or the code tells).
OnceAcrossRestarts == \A r \in Requests : effects[r] <= 1

\* A room its host deleted stays deleted: nothing that was under way brings it back
\* (postgres_room_repository.py:90, 113).
DeletedIsGone == deleted => room = None

\* The room promises SerialRoom: the lock, the version, the nickname and the code make one
\* moment of what is a wait, a read and a save, so each request takes effect once, on the
\* room as it is then, and retention, which may remove a room under an operation that will
\* save it again, removes it at its end or never (memory_idempotency_store.py:16-49,
\* postgres_room_repository.py:90-117).
Holders == {r \in Requests : request[r] # None /\ request[r].phase = "holding"}

Row == IF Holders = {} THEN room ELSE request[CHOOSE r \in Holders : TRUE].read

Asked(q) ==
  LET own == JoinOps \cup {"redeem_transfer_code"}
  IN [kind    |-> IF q.op \in own \cup {"delete_room"} THEN q.op ELSE "act",
      actor   |-> IF q.op \in own THEN q.seat ELSE q.actor,
      token   |-> q.token,
      version |-> q.version]

Serial == INSTANCE SerialRoom WITH
  row   <- Row,
  asked <- [r \in {t \in Requests : request[t] # None} |-> Asked(request[r])],
  done  <- {r \in Requests : effects[r] > 0},
  spent <- {g[1] : g \in granted}

ServedOneAtATime == Serial!Spec

\* A room that is over cannot be changed any more: a request that comes after the date
\* has no effect.  So the documentation; but join_room and join_room_by_code do not look
\* at the date, and give the room another lifetime (room_service.py:499).
LateIsRefused ==
  [][\A r \in Requests : effects'[r] # effects[r] => ~request[r].late]_vars

=============================================================================
