----------------------------- MODULE RateLimiter -----------------------------
(***************************************************************************)
(* FixedWindowRateLimiter of api/support_routes.py: how often a key may    *)
(* call within a window that starts with its first call, for a bounded     *)
(* number of keys at a time.  The rule lookup has one (1024 sources, 10    *)
(* calls a minute), the report drafts another (512 reporters, 3 calls in   *)
(* 10 minutes).  Both routes run on the event loop, which does not leave   *)
(* allow() half done: a call is one step.                                  *)
(***************************************************************************)
EXTENDS Naturals, FiniteSets, FiniteSetsExt, Functions

CONSTANTS
  Callers,   \* the keys: sources or reporters
  Capacity, Limit, Window,
  MaxTime    \* bound: the clock stops there

ASSUME LimiterAssumption ==
  /\ Capacity \in Nat \ {0} /\ Limit \in Nat \ {0} /\ Window \in Nat \ {0}
  /\ MaxTime \in Nat

VARIABLES
  now,
  entries,   \* of a key: when its window started, and the calls counted since
  admitted   \* history: the calls let through, by caller and time

limiterVars == <<now, entries, admitted>>

Entry == [started : Nat, count : Nat]

\* Types; the table never outgrows its capacity nor a count its limit.
LimiterTypeOK ==
  /\ now \in 0..MaxTime
  /\ DOMAIN entries \subseteq Callers
  /\ \A c \in DOMAIN entries : entries[c] \in Entry /\ entries[c].count \in 1..Limit
  /\ IsFiniteSet(DOMAIN entries) /\ Cardinality(DOMAIN entries) <= Capacity

LimiterInit ==
  /\ now = 0
  /\ entries = [c \in {} |-> 0]
  /\ admitted = [c \in Callers |-> [t \in 0..MaxTime |-> 0]]

\* Mutant: when the table is full the oldest entries make room.
Pruned_Evicting ==
  LET oldest == {c \in DOMAIN entries : \A d \in DOMAIN entries : entries[c].started <= entries[d].started}
  IN IF Cardinality(DOMAIN entries) >= Capacity THEN Restrict(entries, DOMAIN entries \ oldest)
     ELSE Restrict(entries, {c \in DOMAIN entries : ~(now >= entries[c].started + Window)})

\* _prune_expired
Pruned ==
  Restrict(entries, {c \in DOMAIN entries : ~(now >= entries[c].started + Window)})

\* The answer of allow(): a new key needs room, a known one calls left.
Allowed(c) ==
  IF c \in DOMAIN Pruned THEN Pruned[c].count < Limit ELSE Cardinality(DOMAIN Pruned) < Capacity

\* The table with one more call of c in its window.
Counted(c) ==
  [d \in DOMAIN Pruned \cup {c} |->
     IF d # c THEN Pruned[d]
     ELSE IF c \in DOMAIN Pruned THEN [Pruned[c] EXCEPT !.count = @ + 1]
          ELSE [started |-> now, count |-> 1]]

Admit(c) ==
  /\ Allowed(c)
  /\ entries' = Counted(c)
  /\ admitted' = [admitted EXCEPT ![c][now] = @ + 1]
  /\ UNCHANGED now

Deny(c) ==
  /\ ~Allowed(c)
  /\ entries' = Pruned
  /\ UNCHANGED <<now, admitted>>

LimiterElapse ==
  /\ now < MaxTime
  /\ now' = now + 1
  /\ UNCHANGED <<entries, admitted>>

LimiterNext == LimiterElapse \/ \E c \in Callers : Admit(c) \/ Deny(c)

LimiterSpec == LimiterInit /\ [][LimiterNext]_limiterVars

(***************************************************************************)
(* Properties                                                              *)
(***************************************************************************)
CallsIn(c, first, last) ==
  SumFunctionOnSet(admitted[c], {t \in 0..MaxTime : t >= first /\ t <= last})

\* What a fixed window is worth: in any stretch as long as the window at most twice the
\* limit is let through, and the limit itself in a stretch that begins after a quiet
\* one; no crowd of other callers changes that (support_routes.py:57-80).
AdmittedBound ==
  \A c \in Callers, t \in 0..MaxTime :
    /\ CallsIn(c, t, t + Window - 1) <= 2 * Limit
    /\ (\A u \in 0..MaxTime : u < t /\ t <= u + Window => admitted[c][u] = 0)
         => CallsIn(c, t, t + Window - 1) <= Limit

=============================================================================
