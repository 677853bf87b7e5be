----------------------------- MODULE SerialRoom -----------------------------
(***************************************************************************)
(* What a room promises those who send it requests: whatever is lost, sent *)
(* again or restarted, each request takes effect at one moment, once or    *)
(* never, on the room as it is at that moment and with authority in it;    *)
(* requests take effect one after another.                                 *)
(***************************************************************************)
EXTENDS Naturals

CONSTANTS Requests, Actors, Tokens, Lifetime, None

VARIABLES
  now,
  row,    \* the room: status, version, expires, session of each actor; None once it is gone
  asked,  \* what each request made so far asks for
  done,   \* requests that took effect
  spent   \* transfer codes that were redeemed

vars == <<now, row, asked, done, spent>>

Joins == {"join_room", "join_room_by_code"}
Kinds == Joins \cup {"act", "delete_room", "redeem_transfer_code"}

Init ==
  /\ now = 0 /\ row # None
  /\ asked = <<>> /\ done = {} /\ spent = {}

\* A request is made of the room as it is.
Ask(r) ==
  /\ r \notin DOMAIN asked /\ row # None
  /\ DOMAIN asked' = DOMAIN asked \cup {r}
  /\ asked'[r] \in [kind : Kinds, actor : Actors, token : Tokens \cup {None}, version : {row.version}]
  /\ \A t \in DOMAIN asked : asked'[t] = asked[t]
  /\ UNCHANGED <<now, row, done, spent>>

\* Nothing happened in the room since, unless the request does not mind.
Current(q) == q.kind = "join_room_by_code" \/ q.version = row.version

\* Who acts has the session on record; who joins finds the place free; a code was not used.
Entitled(q) ==
  CASE q.kind \in Joins                -> row.session[q.actor].token = None
    [] q.kind = "redeem_transfer_code" -> q.token \notin spent /\ now < row.expires
    [] OTHER                           -> q.token = row.session[q.actor].token

\* The next room: its life is not made shorter, nor longer than a lifetime, and that of a
\* completed one stays; no session outlives it, and only one's own seat changes hands.
Leaves(q, next) ==
  /\ next # None
  /\ next.version = row.version + 1
  /\ row.expires <= next.expires /\ next.expires <= now + Lifetime
  /\ row.status = "COMPLETED" => next.status = "COMPLETED" /\ next.expires = row.expires
  /\ \A a \in Actors : next.session[a].expires <= next.expires
  /\ \A a \in Actors : a # q.actor \/ q.kind = "act"
                         => next.session[a].token = row.session[a].token
  /\ q.kind # "act" => next.session[q.actor].token # None

Perform(r) ==
  /\ r \in DOMAIN asked /\ r \notin done /\ row # None
  /\ Current(asked[r]) /\ Entitled(asked[r])
  /\ IF asked[r].kind = "delete_room" THEN row' = None ELSE Leaves(asked[r], row')
  /\ done' = done \cup {r}
  /\ spent' = IF asked[r].kind = "redeem_transfer_code"
              THEN spent \cup {asked[r].token} ELSE spent
  /\ UNCHANGED <<now, asked>>

\* A room that is over goes.
Remove ==
  /\ row # None /\ row.expires <= now
  /\ row' = None
  /\ UNCHANGED <<now, asked, done, spent>>

Tick ==
  /\ now' = now + 1
  /\ UNCHANGED <<row, asked, done, spent>>

Next == (\E r \in Requests : Ask(r) \/ Perform(r)) \/ Remove \/ Tick

Spec == Init /\ [][Next]_vars

=============================================================================
