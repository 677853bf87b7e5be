---------------------------- MODULE SupportProofs ----------------------------
(***************************************************************************)
(* The rate limiter of the support routes and the report drafts.           *)
(*                                                                         *)
(* The table of the limiter stays within its capacity and every count      *)
(* within its limit.  What it lets through is bounded because the calls of *)
(* one caller fall into windows that do not overlap: the history keeps     *)
(* them all, the table only the last one, and forgets it when it is over.  *)
(*                                                                         *)
(* What redaction and the reading of a draft do to every text is proved    *)
(* word by word, by induction over the text: where each pattern is after a *)
(* text says where it is after one word more.  The rows of the drafts are  *)
(* then drafts of texts, and what is in them follows.                      *)
(***************************************************************************)
EXTENDS Support, Recursions, FiniteSetTheorems, SequenceTheorems, TLAPS

(***************************************************************************)
(* The table of the limiter                                                *)
(***************************************************************************)
\* Expiry only takes entries away.
LEMMA PrunedWithin ==
  ASSUME LimiterTypeOK
  PROVE  /\ DOMAIN Pruned \subseteq DOMAIN entries
         /\ \A c \in DOMAIN Pruned : Pruned[c] = entries[c]
         /\ IsFiniteSet(DOMAIN Pruned) /\ Cardinality(DOMAIN Pruned) <= Capacity
<1>1. /\ DOMAIN Pruned \subseteq DOMAIN entries
      /\ \A c \in DOMAIN Pruned : Pruned[c] = entries[c]
  BY DEF Pruned, Restrict
<1>2. IsFiniteSet(DOMAIN Pruned) /\ Cardinality(DOMAIN Pruned) <= Cardinality(DOMAIN entries)
  BY <1>1, FS_Subset DEF LimiterTypeOK
<1>3. Cardinality(DOMAIN Pruned) \in Nat /\ Cardinality(DOMAIN entries) \in Nat
  BY <1>2, FS_CardinalityType DEF LimiterTypeOK
<1> QED BY <1>1, <1>2, <1>3, LimiterAssumption DEF LimiterTypeOK

\* An admitted call finds room for its entry and counts one more.
LEMMA CountedWithin ==
  ASSUME LimiterTypeOK, NEW c \in Callers, Allowed(c)
  PROVE  /\ DOMAIN Counted(c) \subseteq Callers
         /\ \A d \in DOMAIN Counted(c) :
              Counted(c)[d] \in Entry /\ Counted(c)[d].count \in 1..Limit
         /\ IsFiniteSet(DOMAIN Counted(c)) /\ Cardinality(DOMAIN Counted(c)) <= Capacity
<1> USE LimiterAssumption
<1>1. DOMAIN Counted(c) = DOMAIN Pruned \cup {c}
  BY DEF Counted
<1>2. ASSUME NEW d \in DOMAIN Counted(c)
      PROVE  Counted(c)[d] \in Entry /\ Counted(c)[d].count \in 1..Limit
  <2>1. CASE d # c
    BY <1>1, <1>2, <2>1, PrunedWithin DEF Counted, LimiterTypeOK
  <2>2. CASE d = c /\ c \in DOMAIN Pruned
    <3>1. Pruned[c] \in Entry /\ Pruned[c].count \in 1..Limit /\ Pruned[c].count < Limit
      BY <2>2, PrunedWithin DEF Allowed, LimiterTypeOK
    <3>2. Counted(c)[d] = [Pruned[c] EXCEPT !.count = @ + 1]
      BY <1>1, <2>2 DEF Counted
    <3> QED BY <3>1, <3>2 DEF Entry
  <2>3. CASE d = c /\ c \notin DOMAIN Pruned
    <3>1. Counted(c)[d] = [started |-> now, count |-> 1]
      BY <1>1, <2>3 DEF Counted
    <3> QED BY <3>1 DEF Entry, LimiterTypeOK
  <2> QED BY <2>1, <2>2, <2>3
<1>3. IsFiniteSet(DOMAIN Counted(c)) /\ Cardinality(DOMAIN Counted(c)) <= Capacity
  <2>1. CASE c \in DOMAIN Pruned
    <3>1. DOMAIN Pruned \cup {c} = DOMAIN Pruned
      BY <2>1
    <3> QED BY <1>1, <3>1, PrunedWithin
  <2>2. CASE c \notin DOMAIN Pruned
    <3>1. /\ IsFiniteSet(DOMAIN Pruned \cup {c})
          /\ Cardinality(DOMAIN Pruned \cup {c}) = Cardinality(DOMAIN Pruned) + 1
      BY <2>2, PrunedWithin, FS_AddElement
    <3>2. Cardinality(DOMAIN Pruned) \in Nat
      BY PrunedWithin, FS_CardinalityType
    <3>3. Cardinality(DOMAIN Pruned) < Capacity
      BY <2>2 DEF Allowed
    <3> QED BY <1>1, <3>1, <3>2, <3>3
  <2> QED BY <2>1, <2>2
<1>4. DOMAIN Counted(c) \subseteq Callers
  BY <1>1, PrunedWithin DEF LimiterTypeOK
<1> QED BY <1>2, <1>3, <1>4

\* However many callers there are and however they time their calls, the limiter never
\* tracks more of them than its capacity nor counts beyond the limit
\* (FixedWindowRateLimiter.allow, support_routes.py:57-71).
THEOREM LimiterStaysBounded == LimiterSpec => []LimiterTypeOK
<1> USE LimiterAssumption
<1>1. LimiterInit => LimiterTypeOK
  <2>1. IsFiniteSet({}) /\ Cardinality({}) = 0
    BY FS_EmptySet
  <2>2. ASSUME LimiterInit PROVE DOMAIN entries = {}
    BY <2>2 DEF LimiterInit
  <2> QED BY <2>1, <2>2 DEF LimiterInit, LimiterTypeOK
<1>2. LimiterTypeOK /\ [LimiterNext]_limiterVars => LimiterTypeOK'
  <2> SUFFICES ASSUME LimiterTypeOK, [LimiterNext]_limiterVars PROVE LimiterTypeOK'
    OBVIOUS
  <2>1. CASE LimiterElapse
    BY <2>1 DEF LimiterElapse, LimiterTypeOK
  <2>2. ASSUME NEW c \in Callers, Admit(c) PROVE LimiterTypeOK'
    <3>1. entries' = Counted(c) /\ now' = now
      BY <2>2 DEF Admit
    <3>2. Allowed(c)
      BY <2>2 DEF Admit
    <3> QED BY <3>1, <3>2, CountedWithin DEF LimiterTypeOK
  <2>3. ASSUME NEW c \in Callers, Deny(c) PROVE LimiterTypeOK'
    <3>1. entries' = Pruned /\ now' = now
      BY <2>3 DEF Deny
    <3> QED BY <3>1, PrunedWithin DEF LimiterTypeOK
  <2>4. CASE UNCHANGED limiterVars
    BY <2>4 DEF limiterVars, LimiterTypeOK
  <2> QED BY <2>1, <2>2, <2>3, <2>4 DEF LimiterNext
<1> QED BY <1>1, <1>2, PTL DEF LimiterSpec

(***************************************************************************)
(* What the limiter lets through                                           *)
(***************************************************************************)
Stretch(first, last) == {t \in 0..MaxTime : t >= first /\ t <= last}

\* The windows of c began at these times: each was started by a call, holds no more calls
\* than the limit and is over before the next; every call is in one.  An entry is the
\* last of them, and without an entry they are all over.
Follows(c, starts) ==
  /\ \A s \in starts : admitted[c][s] # 0 /\ CallsIn(c, s, s + Window - 1) <= Limit
  /\ \A r, s \in starts : r < s => r + Window <= s
  /\ \A t \in 0..MaxTime : admitted[c][t] # 0 =>
       t <= now /\ \E s \in starts : s <= t /\ t < s + Window
  /\ c \in DOMAIN entries =>
       /\ entries[c].started \in starts
       /\ entries[c].count = CallsIn(c, entries[c].started, entries[c].started + Window - 1)
       /\ \A s \in starts : s <= entries[c].started
  /\ c \notin DOMAIN entries => \A s \in starts : s + Window <= now

\* The inductive invariant of the limiter.
Windows ==
  /\ admitted \in [Callers -> [0..MaxTime -> Nat]]
  /\ \A c \in Callers : \E starts \in SUBSET (0..now) : Follows(c, starts)

\* A stretch of time is finite, and the calls in it are a number.
LEMMA CallsType ==
  ASSUME NEW f \in [0..MaxTime -> Nat], NEW S \in SUBSET (0..MaxTime)
  PROVE  IsFiniteSet(S) /\ SumFunctionOnSet(f, S) \in Nat
<1>1. IsFiniteSet(0..MaxTime)
  BY FS_Interval, LimiterAssumption
<1>2. IsFiniteSet(S)
  BY <1>1, FS_Subset
<1>3. \A x \in S : f[x] \in Nat
  OBVIOUS
<1> QED BY <1>2, <1>3, SumType

\* After expiry an entry stands for a window that is open, and without one all are over.
LEMMA AfterPrune ==
  ASSUME LimiterTypeOK, NEW c \in Callers, NEW starts \in SUBSET (0..now), Follows(c, starts)
  PROVE  /\ c \in DOMAIN Pruned =>
              /\ c \in DOMAIN entries /\ Pruned[c] = entries[c]
              /\ now < entries[c].started + Window
         /\ c \notin DOMAIN Pruned => \A s \in starts : s + Window <= now
<1>1. DOMAIN Pruned = {d \in DOMAIN entries : ~(now >= entries[d].started + Window)}
  BY DEF Pruned, Restrict
<1>2. \A s \in starts : s \in Nat
  BY DEF LimiterTypeOK
<1>3. now \in Nat /\ Window \in Nat
  BY LimiterAssumption DEF LimiterTypeOK
<1>4. ASSUME c \in DOMAIN Pruned
      PROVE  c \in DOMAIN entries /\ Pruned[c] = entries[c] /\ now < entries[c].started + Window
  <2>1. entries[c].started \in Nat
    BY <1>1, <1>4 DEF LimiterTypeOK, Entry
  <2> QED BY <1>1, <1>3, <1>4, <2>1, PrunedWithin
<1>5. ASSUME c \notin DOMAIN Pruned, NEW s \in starts PROVE s + Window <= now
  <2>1. CASE c \notin DOMAIN entries
    BY <2>1 DEF Follows
  <2>2. CASE c \in DOMAIN entries
    <3>1. s <= entries[c].started /\ entries[c].started \in Nat
      BY <2>2 DEF Follows, LimiterTypeOK, Entry
    <3>2. now >= entries[c].started + Window
      BY <1>1, <1>5, <2>2
    <3> QED BY <1>2, <1>3, <3>1, <3>2
  <2> QED BY <2>1, <2>2
<1> QED BY <1>4, <1>5

\* Calls that all fall into windows one of which covers them are within the limit.
LEMMA OneWindow ==
  ASSUME Windows, NEW c \in Callers, NEW starts, Follows(c, starts), NEW S \in SUBSET (0..MaxTime),
         NEW s \in starts, s \in 0..MaxTime,
         \A u \in S : admitted[c][u] # 0 => s <= u /\ u < s + Window
  PROVE  SumFunctionOnSet(admitted[c], S) <= Limit
<1> DEFINE f == admitted[c]
           T == Stretch(s, s + Window - 1)
<1>1. f \in [0..MaxTime -> Nat]
  BY DEF Windows
<1>2. T \in SUBSET (0..MaxTime) /\ SumFunctionOnSet(f, T) <= Limit
  BY DEF Follows, CallsIn, Stretch
<1>3. \A u \in S : f[u] # 0 => u \in T
  BY LimiterAssumption DEF Stretch
<1> HIDE DEF f, T
<1>4. /\ IsFiniteSet(S) /\ SumFunctionOnSet(f, S) \in Nat
      /\ IsFiniteSet(T) /\ SumFunctionOnSet(f, T) \in Nat
  BY <1>1, <1>2, CallsType
<1>5. \A u \in S \cup T : f[u] \in Nat
  BY <1>1, <1>2
<1>6. SumFunctionOnSet(f, S) <= SumFunctionOnSet(f, T)
  BY <1>3, <1>4, <1>5, SumBelow
<1>7. SumFunctionOnSet(f, S) <= Limit
  BY <1>2, <1>4, <1>6, LimiterAssumption
<1> QED BY <1>7 DEF f

\* The bound follows from the windows: the calls of a stretch fall into the window that was
\* open when it began and the one that begins in it.
LEMMA WindowsBound == LimiterTypeOK /\ Windows => AdmittedBound
<1> SUFFICES ASSUME LimiterTypeOK, Windows, NEW c \in Callers, NEW t \in 0..MaxTime
             PROVE  /\ CallsIn(c, t, t + Window - 1) <= 2 * Limit
                    /\ (\A u \in 0..MaxTime : u < t /\ t <= u + Window => admitted[c][u] = 0)
                         => CallsIn(c, t, t + Window - 1) <= Limit
  BY DEF AdmittedBound
<1>1. PICK starts \in SUBSET (0..now) : Follows(c, starts)
  BY DEF Windows
<1> DEFINE f == admitted[c]
           S == Stretch(t, t + Window - 1)
           U == {u \in S : \E s \in starts : t <= s /\ s <= u}
           V == S \ U
<1>2. starts \subseteq 0..MaxTime /\ Window \in Nat \ {0} /\ Limit \in Nat /\ t \in Nat
  BY LimiterAssumption DEF LimiterTypeOK
<1>3. f \in [0..MaxTime -> Nat] /\ S \subseteq 0..MaxTime /\ \A u \in S : t <= u /\ u < t + Window
  BY <1>2 DEF Windows, Stretch
<1>4. SumFunctionOnSet(f, U) <= Limit
  <2>1. CASE U = {}
    BY <1>2, <2>1, SumRecursion, FS_EmptySet
  <2>2. CASE U # {}
    <3>1. PICK s \in starts : t <= s /\ s < t + Window
      BY <1>2, <1>3, <2>2
    <3>2. ASSUME NEW u \in U, f[u] # 0 PROVE s <= u /\ u < s + Window
      <4>1. PICK r \in starts : t <= r /\ r <= u
        OBVIOUS
      <4>2. u < t + Window /\ u \in 0..MaxTime /\ r \in 0..MaxTime /\ s \in 0..MaxTime
        BY <1>2, <1>3
      <4>3. (r < s => r + Window <= s) /\ (s < r => s + Window <= r)
        BY <1>1, <4>1 DEF Follows
      <4> QED BY <1>2, <3>1, <4>1, <4>2, <4>3
    <3>3. U \in SUBSET (0..MaxTime) /\ s \in 0..MaxTime
      BY <1>2, <1>3
    <3>4. \A u \in U : admitted[c][u] # 0 => s <= u /\ u < s + Window
      BY <3>2
    <3> HIDE DEF U
    <3> QED BY <1>1, <3>3, <3>4, OneWindow
  <2> QED BY <2>1, <2>2
<1>5. ASSUME NEW u \in V, f[u] # 0
      PROVE  \E s \in starts : s < t /\ t < s + Window /\ s <= u /\ u < s + Window
  <2>1. PICK s \in starts : s <= u /\ u < s + Window
    BY <1>1, <1>3, <1>5 DEF Follows
  <2>2. ~(t <= s)
    BY <2>1
  <2>3. t <= u /\ u \in 0..MaxTime /\ s \in 0..MaxTime
    BY <1>2, <1>3
  <2> QED BY <1>2, <2>1, <2>2, <2>3
<1>6. SumFunctionOnSet(f, V) <= Limit
  <2>1. CASE \A u \in V : f[u] = 0
    <3>1. IsFiniteSet(V)
      BY <1>3, CallsType
    <3> HIDE DEF V, f
    <3> QED BY <1>2, <2>1, <3>1, SumZero
  <2>2. CASE \E u \in V : f[u] # 0
    <3>1. PICK s \in starts : s < t /\ t < s + Window
      BY <1>5, <2>2
    <3>2. ASSUME NEW u \in V, f[u] # 0 PROVE s <= u /\ u < s + Window
      <4>1. PICK r \in starts : r < t /\ t < r + Window /\ r <= u /\ u < r + Window
        BY <1>5, <3>2
      <4>2. u \in 0..MaxTime /\ r \in 0..MaxTime /\ s \in 0..MaxTime
        BY <1>2, <1>3
      <4>3. (r < s => r + Window <= s) /\ (s < r => s + Window <= r)
        BY <1>1, <4>1 DEF Follows
      <4>4. r = s
        BY <1>2, <3>1, <4>1, <4>2, <4>3
      <4> QED BY <4>1, <4>4
    <3>3. V \in SUBSET (0..MaxTime) /\ s \in 0..MaxTime
      BY <1>2, <1>3
    <3>4. \A u \in V : admitted[c][u] # 0 => s <= u /\ u < s + Window
      BY <3>2
    <3> HIDE DEF V
    <3> QED BY <1>1, <3>3, <3>4, OneWindow
  <2> QED BY <2>1, <2>2
<1>7. ASSUME \A u \in 0..MaxTime : u < t /\ t <= u + Window => f[u] = 0
      PROVE  SumFunctionOnSet(f, V) = 0
  <2>1. ASSUME NEW u \in V, f[u] # 0 PROVE FALSE
    <3>1. PICK s \in starts : s < t /\ t < s + Window
      BY <1>5, <2>1
    <3>2. f[s] # 0 /\ s \in 0..MaxTime
      BY <1>1, <1>2 DEF Follows
    <3> QED BY <1>2, <1>7, <3>1, <3>2
  <2>2. IsFiniteSet(V)
    BY <1>3, CallsType
  <2>3. \A u \in V : f[u] = 0
    BY <2>1
  <2> HIDE DEF V, f
  <2> QED BY <2>2, <2>3, SumZero
<1>8. SumFunctionOnSet(f, S) = SumFunctionOnSet(f, U) + SumFunctionOnSet(f, V)
  <2>1. IsFiniteSet(U) /\ IsFiniteSet(V)
    <3>1. U \in SUBSET (0..MaxTime) /\ V \in SUBSET (0..MaxTime)
      BY <1>3
    <3> QED BY <1>3, <3>1, CallsType
  <2>2. U \cup V = S /\ U \cap V = {} /\ \A u \in U \cup V : f[u] \in Nat
    BY <1>3
  <2> HIDE DEF U, V, S, f
  <2>3. SumFunctionOnSet(f, U \cup V) = SumFunctionOnSet(f, U) + SumFunctionOnSet(f, V)
    BY <2>1, <2>2, SumUnion
  <2> QED BY <2>2, <2>3
<1>9. SumFunctionOnSet(f, U) \in Nat /\ SumFunctionOnSet(f, V) \in Nat
  <2>1. U \in SUBSET (0..MaxTime) /\ V \in SUBSET (0..MaxTime)
    BY <1>3
  <2> HIDE DEF U, V, f
  <2> QED BY <1>3, <2>1, CallsType
<1>10. CallsIn(c, t, t + Window - 1) = SumFunctionOnSet(f, S)
  BY DEF CallsIn, Stretch
<1> HIDE DEF U, V, S, f
<1> DEFINE k == SumFunctionOnSet(f, U)
           l == SumFunctionOnSet(f, V)
<1>11. k \in Nat /\ l \in Nat /\ k <= Limit /\ l <= Limit /\ CallsIn(c, t, t + Window - 1) = k + l
  BY <1>4, <1>6, <1>8, <1>9, <1>10
<1>12. (\A u \in 0..MaxTime : u < t /\ t <= u + Window => admitted[c][u] = 0) => l = 0
  BY <1>7 DEF f
<1> HIDE DEF k, l
<1> QED BY <1>2, <1>11, <1>12

\* A call of c is let through: it is in the window that is open or begins one.
LEMMA FollowsAdmit ==
  ASSUME LimiterTypeOK, Windows, NEW c \in Callers, Admit(c),
         NEW starts \in SUBSET (0..now), Follows(c, starts)
  PROVE  \E more \in SUBSET (0..now) : Follows(c, more)'
<1> USE LimiterAssumption
<1> DEFINE f == admitted[c]
           g == admitted'[c]
           In(s) == Stretch(s, s + Window - 1)
<1>1. now \in 0..MaxTime /\ now \in Nat /\ Window \in Nat \ {0} /\ now' = now /\ Limit \in Nat
  BY DEF Admit, LimiterTypeOK
<1>2. f \in [0..MaxTime -> Nat] /\ g = [f EXCEPT ![now] = @ + 1]
  BY DEF Admit, Windows
<1>3. \A s \in starts : s \in 0..MaxTime /\ s \in Nat
  BY <1>1
<1>4. \A s \in Nat : CallsIn(c, s, s + Window - 1) = SumFunctionOnSet(f, In(s))
                     /\ CallsIn(c, s, s + Window - 1)' = SumFunctionOnSet(g, In(s))
  BY DEF CallsIn, Stretch
<1>5. ASSUME NEW s \in Nat, s + Window <= now
      PROVE  CallsIn(c, s, s + Window - 1)' = CallsIn(c, s, s + Window - 1)
  <2>1. In(s) \in SUBSET (0..MaxTime) /\ now \notin In(s)
    BY <1>1, <1>5 DEF Stretch
  <2>2. \A u \in In(s) : f[u] \in Nat /\ g[u] = f[u]
    BY <1>1, <1>2, <2>1
  <2> HIDE DEF In, f, g
  <2>3. IsFiniteSet(In(s))
    BY <1>2, <2>1, CallsType
  <2>4. SumFunctionOnSet(g, In(s)) = SumFunctionOnSet(f, In(s))
    BY <2>2, <2>3, SumSame
  <2> QED BY <1>4, <2>4
<1>6. ASSUME NEW s \in Nat, s <= now, now < s + Window
      PROVE  CallsIn(c, s, s + Window - 1)' = CallsIn(c, s, s + Window - 1) + 1
  <2>1. In(s) \in SUBSET (0..MaxTime) /\ now \in In(s)
    BY <1>1, <1>6 DEF Stretch
  <2>2. /\ \A u \in In(s) : f[u] \in Nat
        /\ g[now] = f[now] + 1
        /\ \A u \in In(s) : u # now => g[u] = f[u]
    BY <1>1, <1>2, <2>1
  <2> HIDE DEF In, f, g
  <2>3. IsFiniteSet(In(s))
    BY <1>2, <2>1, CallsType
  <2>4. SumFunctionOnSet(g, In(s)) = SumFunctionOnSet(f, In(s)) + 1
    BY <2>1, <2>2, <2>3, SumBump
  <2> QED BY <1>4, <2>4
<1>7. \A t \in 0..MaxTime : g[t] # 0 => t = now \/ f[t] # 0
  BY <1>1, <1>2
<1>8. g[now] # 0 /\ \A s \in starts : g[s] # 0
  <2>1. f[now] \in Nat /\ g[now] = f[now] + 1
    BY <1>1, <1>2
  <2>2. \A t \in 0..MaxTime : t # now => g[t] = f[t]
    BY <1>2
  <2>3. \A s \in starts : f[s] # 0
    BY DEF Follows
  <2> HIDE DEF f, g
  <2>4. g[now] # 0
    BY <2>1
  <2> QED BY <1>3, <2>2, <2>3, <2>4
<1>9. entries' = Counted(c) /\ DOMAIN entries' = DOMAIN Pruned \cup {c}
  BY DEF Admit, Counted
<1> HIDE DEF f, In
<1>10. CASE c \in DOMAIN Pruned
  <2>0. PICK e : e = entries[c].started
    OBVIOUS
  <2>1. /\ c \in DOMAIN entries /\ Pruned[c] = entries[c] /\ now < e + Window
        /\ e \in starts /\ e \in Nat /\ e <= now
        /\ entries[c].count = CallsIn(c, e, e + Window - 1)
        /\ \A s \in starts : s <= e
    BY <1>1, <1>3, <1>10, <2>0, AfterPrune DEF Follows
  <2>2. /\ entries'[c].started = e /\ entries'[c].count = entries[c].count + 1
        /\ entries[c].count < Limit /\ entries[c].count \in Nat
    <3>1. entries'[c] = [entries[c] EXCEPT !.count = @ + 1]
      BY <1>9, <1>10, <2>1 DEF Counted
    <3>2. entries[c] \in Entry /\ entries[c].count < Limit
      BY <1>10, <2>1 DEF Admit, Allowed, LimiterTypeOK
    <3> QED BY <2>0, <3>1, <3>2 DEF Entry
  <2>3. ASSUME NEW s \in starts, s # e PROVE s + Window <= now
    <3>1. s \in Nat /\ s < e
      <4>1. s \in Nat
        BY <1>3
      <4>2. e \in Nat /\ s <= e
        BY <2>1
      <4> QED BY <2>3, <4>1, <4>2
    <3>2. s + Window <= e
      BY <2>1, <3>1 DEF Follows
    <3>3. s + Window \in Int
      BY <1>1, <3>1
    <3> QED BY <1>1, <2>1, <3>2, <3>3
  <2>4. CallsIn(c, e, e + Window - 1)' = CallsIn(c, e, e + Window - 1) + 1
    BY <1>6, <2>1
  <2>5. ASSUME NEW s \in starts PROVE CallsIn(c, s, s + Window - 1)' <= Limit
    <3>1. CASE s = e
      BY <1>1, <2>1, <2>2, <2>4, <3>1
    <3>2. CASE s # e
      BY <1>3, <1>5, <2>3, <3>2 DEF Follows
    <3> QED BY <3>1, <3>2
  <2>6. ASSUME NEW t \in 0..MaxTime, g[t] # 0
        PROVE  t <= now' /\ \E s \in starts : s <= t /\ t < s + Window
    <3>1. CASE t = now
      BY <1>1, <2>1, <3>1
    <3>2. CASE t # now
      BY <1>1, <1>7, <2>6, <3>2 DEF Follows, f
    <3> QED BY <3>1, <3>2
  <2>7. /\ entries'[c].started \in starts
        /\ entries'[c].count = CallsIn(c, e, e + Window - 1)'
        /\ \A s \in starts : s <= entries'[c].started
    BY <2>1, <2>2, <2>4
  <2>8. Follows(c, starts)'
    <3>1. \A s \in starts : admitted'[c][s] # 0 /\ CallsIn(c, s, s + Window - 1)' <= Limit
      BY <1>8, <2>5
    <3>2. \A r, s \in starts : r < s => r + Window <= s
      BY DEF Follows
    <3>3. c \in DOMAIN entries'
      BY <1>9
    <3>4. /\ entries'[c].started \in starts
          /\ entries'[c].count
               = CallsIn(c, entries[c].started, entries[c].started + Window - 1)'
          /\ \A s \in starts : s <= entries'[c].started
      <4>1. entries'[c].started = e
        BY <2>2
      <4>2. CallsIn(c, entries[c].started, entries[c].started + Window - 1)'
              = SumFunctionOnSet(g, Stretch(e, e + Window - 1))
        BY <4>1 DEF CallsIn, Stretch
      <4>3. CallsIn(c, e, e + Window - 1)' = SumFunctionOnSet(g, Stretch(e, e + Window - 1))
        BY <1>4, <2>1 DEF In
      <4> QED BY <2>7, <4>2, <4>3
    <3> QED BY <2>6, <3>1, <3>2, <3>3, <3>4 DEF Follows
  <2> QED BY <2>8
<1>11. CASE c \notin DOMAIN Pruned
  <2>0. PICK more : more = starts \cup {now}
    OBVIOUS
  <2>1. \A s \in starts : s + Window <= now
    BY <1>11, AfterPrune
  <2>2. entries'[c] = [started |-> now, count |-> 1]
    BY <1>9, <1>11 DEF Counted
  <2>3. CallsIn(c, now, now + Window - 1) = 0
    <3>1. ASSUME NEW u \in In(now), f[u] # 0 PROVE FALSE
      <4>1. u \in 0..MaxTime /\ now <= u
        BY DEF In, Stretch
      <4>2. PICK s \in starts : s <= u /\ u < s + Window /\ u <= now
        BY <3>1, <4>1 DEF Follows, f
      <4> QED BY <1>1, <1>3, <2>1, <4>1, <4>2
    <3>2. IsFiniteSet(In(now))
      <4>1. In(now) \in SUBSET (0..MaxTime)
        BY DEF In, Stretch
      <4> QED BY <1>2, <4>1, CallsType
    <3>3. SumFunctionOnSet(f, In(now)) = 0
      BY <3>1, <3>2, SumZero
    <3> QED BY <1>1, <1>4, <3>3
  <2>4. CallsIn(c, now, now + Window - 1)' = 1
    BY <1>1, <1>4, <1>6, <2>3
  <2>5. ASSUME NEW s \in more PROVE CallsIn(c, s, s + Window - 1)' <= Limit
    <3>1. CASE s = now
      <4>1. CallsIn(c, s, s + Window - 1)' = 1
        <5>1. CallsIn(c, s, s + Window - 1)' = SumFunctionOnSet(g, In(now))
          BY <1>1, <1>4, <3>1
        <5>2. CallsIn(c, now, now + Window - 1)' = SumFunctionOnSet(g, In(now))
          BY <1>1, <1>4
        <5> QED BY <2>4, <5>1, <5>2
      <4> QED BY <4>1
    <3>2. CASE s # now
      BY <1>3, <1>5, <2>0, <2>1, <3>2 DEF Follows
    <3> QED BY <3>1, <3>2
  <2>6. ASSUME NEW t \in 0..MaxTime, g[t] # 0
        PROVE  t <= now' /\ \E s \in more : s <= t /\ t < s + Window
    <3>1. CASE t = now
      BY <1>1, <2>0, <3>1
    <3>2. CASE t # now
      BY <1>1, <1>7, <2>0, <2>6, <3>2 DEF Follows, f
    <3> QED BY <3>1, <3>2
  <2>7. ASSUME NEW r \in more, NEW s \in more, r < s PROVE r + Window <= s
    BY <1>1, <1>3, <2>0, <2>1, <2>7 DEF Follows
  <2>8. Follows(c, more)'
    <3>1. \A s \in more : admitted'[c][s] # 0 /\ CallsIn(c, s, s + Window - 1)' <= Limit
      BY <1>8, <2>0, <2>5
    <3>2. /\ entries'[c].started \in more
          /\ \A s \in more : s <= entries'[c].started
      BY <1>1, <1>3, <2>0, <2>1, <2>2
    <3>3. entries'[c].count = CallsIn(c, entries[c].started, entries[c].started + Window - 1)'
      <4>1. CallsIn(c, entries[c].started, entries[c].started + Window - 1)'
              = SumFunctionOnSet(g, Stretch(now, now + Window - 1))
        BY <2>2 DEF CallsIn, Stretch
      <4>2. CallsIn(c, now, now + Window - 1)' = SumFunctionOnSet(g, Stretch(now, now + Window - 1))
        BY <1>1, <1>4 DEF In
      <4> QED BY <2>2, <2>4, <4>1, <4>2
    <3> QED BY <1>9, <2>6, <2>7, <3>1, <3>2, <3>3 DEF Follows
  <2>9. more \in SUBSET (0..now)
    BY <1>1, <2>0
  <2> QED BY <2>8, <2>9
<1> QED BY <1>10, <1>11

\* Whoever does not call keeps his windows, also when his entry expires.
LEMMA FollowsQuiet ==
  ASSUME LimiterTypeOK, NEW c \in Callers, NEW starts \in SUBSET (0..now), Follows(c, starts),
         now' \in {now, now + 1}, admitted'[c] = admitted[c],
         \/ entries' = entries
         \/ /\ c \in DOMAIN entries' <=> c \in DOMAIN Pruned
            /\ c \in DOMAIN Pruned => entries'[c] = Pruned[c]
  PROVE  \E more \in SUBSET (0..now') : Follows(c, more)'
<1>1. now \in Nat /\ Window \in Nat /\ now <= now' /\ now' \in Nat
  BY LimiterAssumption DEF LimiterTypeOK
<1>2. \A s \in starts : s \in Nat /\ s <= now
  BY <1>1
<1>3. \A first, last : CallsIn(c, first, last)' = SumFunctionOnSet(admitted[c], Stretch(first, last))
  BY DEF CallsIn, Stretch
<1>4. ASSUME c \in DOMAIN entries' PROVE c \in DOMAIN entries /\ entries'[c] = entries[c]
  BY <1>4, AfterPrune
<1>5. ASSUME c \notin DOMAIN entries', NEW s \in starts PROVE s + Window <= now'
  <2>1. s + Window <= now
    BY <1>5, AfterPrune DEF Follows
  <2> QED BY <1>1, <1>2, <2>1
<1>6. \A s \in starts : CallsIn(c, s, s + Window - 1)' <= Limit
  BY <1>3 DEF Follows, CallsIn, Stretch
<1>7. ASSUME c \in DOMAIN entries'
      PROVE  /\ entries'[c].started \in starts
             /\ entries'[c].count
                  = CallsIn(c, entries[c].started, entries[c].started + Window - 1)'
             /\ \A s \in starts : s <= entries'[c].started
  <2>1. PICK e : e = entries[c].started
    OBVIOUS
  <2>2. e = entries'[c].started /\ entries'[c].count = entries[c].count /\ c \in DOMAIN entries
    BY <1>4, <1>7, <2>1
  <2>3. entries[c].count = SumFunctionOnSet(admitted[c], Stretch(e, e + Window - 1))
    BY <2>1, <2>2 DEF Follows, CallsIn, Stretch
  <2>4. CallsIn(c, entries[c].started, entries[c].started + Window - 1)'
          = SumFunctionOnSet(admitted[c], Stretch(e, e + Window - 1))
    BY <2>2 DEF CallsIn, Stretch
  <2>5. e \in starts /\ \A s \in starts : s <= e
    BY <2>1, <2>2 DEF Follows
  <2> QED BY <2>2, <2>3, <2>4, <2>5
<1>8. \A t \in 0..MaxTime : admitted'[c][t] # 0 =>
        t <= now' /\ \E s \in starts : s <= t /\ t < s + Window
  BY <1>1 DEF Follows
<1>9. \A s \in starts : admitted'[c][s] # 0
  BY DEF Follows
<1>10. \A r, s \in starts : r < s => r + Window <= s
  BY DEF Follows
<1>11. Follows(c, starts)'
  BY <1>5, <1>6, <1>7, <1>8, <1>9, <1>10 DEF Follows
<1>12. starts \in SUBSET (0..now')
  BY <1>1, <1>2
<1> QED BY <1>11, <1>12

\* Whatever the times of the calls, for every number of callers, limit, window and
\* capacity: at most twice the limit in any stretch as long as the window, and no more than
\* the limit after a quiet one (FixedWindowRateLimiter.allow, support_routes.py:57-80).
THEOREM AdmittedBoundHolds == LimiterSpec => []AdmittedBound
<1> USE LimiterAssumption
<1>1. LimiterInit => Windows
  <2> SUFFICES ASSUME LimiterInit PROVE Windows
    OBVIOUS
  <2>1. admitted \in [Callers -> [0..MaxTime -> Nat]]
    BY DEF LimiterInit
  <2>2. ASSUME NEW c \in Callers PROVE Follows(c, {})
    <3>1. \A t \in 0..MaxTime : admitted[c][t] = 0
      BY DEF LimiterInit
    <3>2. c \notin DOMAIN entries
      BY DEF LimiterInit
    <3> QED BY <3>1, <3>2 DEF Follows
  <2>3. \A c \in Callers : \E starts \in SUBSET (0..now) : Follows(c, starts)
    BY <2>2
  <2> QED BY <2>1, <2>3 DEF Windows
<1>2. LimiterTypeOK /\ Windows /\ [LimiterNext]_limiterVars => Windows'
  <2> SUFFICES ASSUME LimiterTypeOK, Windows, [LimiterNext]_limiterVars PROVE Windows'
    OBVIOUS
  <2>1. ASSUME NEW c \in Callers PROVE \E starts \in SUBSET (0..now) : Follows(c, starts)
    BY DEF Windows
  <2>2. CASE LimiterElapse \/ UNCHANGED limiterVars
    <3>1. now' \in {now, now + 1} /\ entries' = entries /\ admitted' = admitted
      BY <2>2 DEF LimiterElapse, limiterVars
    <3>2. \A c \in Callers : (\E starts \in SUBSET (0..now) : Follows(c, starts))'
      BY <2>1, <3>1, FollowsQuiet
    <3> QED BY <3>1, <3>2 DEF Windows
  <2>3. ASSUME NEW c \in Callers, Deny(c) PROVE Windows'
    <3>1. now' \in {now, now + 1} /\ entries' = Pruned /\ admitted' = admitted
      BY <2>3 DEF Deny
    <3>2. \A d \in Callers : (\E starts \in SUBSET (0..now) : Follows(d, starts))'
      BY <2>1, <3>1, FollowsQuiet
    <3> QED BY <3>1, <3>2 DEF Windows
  <2>4. ASSUME NEW c \in Callers, Admit(c) PROVE Windows'
    <3>1. /\ now' = now /\ entries' = Counted(c)
          /\ admitted' = [admitted EXCEPT ![c][now] = @ + 1] /\ now \in 0..MaxTime
      BY <2>4 DEF Admit, LimiterTypeOK
    <3>2. ASSUME NEW d \in Callers, d # c
          PROVE  (\E starts \in SUBSET (0..now) : Follows(d, starts))'
      <4>1. admitted'[d] = admitted[d]
        BY <3>1, <3>2 DEF Windows
      <4>2. /\ d \in DOMAIN entries' <=> d \in DOMAIN Pruned
            /\ d \in DOMAIN Pruned => entries'[d] = Pruned[d]
        BY <3>1, <3>2 DEF Counted
      <4> QED BY <2>1, <3>1, <4>1, <4>2, FollowsQuiet
    <3>3. (\E starts \in SUBSET (0..now) : Follows(c, starts))'
      BY <2>1, <2>4, <3>1, FollowsAdmit
    <3>4. admitted' \in [Callers -> [0..MaxTime -> Nat]]
      BY <3>1 DEF Windows
    <3> QED BY <3>2, <3>3, <3>4 DEF Windows
  <2> QED BY <2>2, <2>3, <2>4 DEF LimiterNext
<1> QED BY <1>1, <1>2, LimiterStaysBounded, WindowsBound, PTL DEF LimiterSpec

\* The routes of the support agent use the limiter as it is meant to be used: each of their
\* steps is one of its steps or none of its business, so that they inherit its bound
\* (support_routes.py:117-131, 133-205).
THEOREM SupportLimited ==
  SupportSpec => LimiterSpec /\ [](LimiterTypeOK /\ AdmittedBound)
<1>1. SupportInit => LimiterInit
  BY DEF SupportInit
<1>2. [SupportNext]_supportVars => [LimiterNext]_limiterVars
  BY DEF SupportNext, supportVars, limiterVars, LimiterNext, SupportElapse, TooMany, RefuseText,
         Draft, FailDraft
<1>3. SupportSpec => LimiterSpec
  BY <1>1, <1>2, PTL DEF SupportSpec, LimiterSpec
<1> QED BY <1>3, LimiterStaysBounded, AdmittedBoundHolds, PTL

(***************************************************************************)
(* Runs                                                                    *)
(***************************************************************************)
\* The steps never leave A.
Inside(A, W, step) == \A a \in A, w \in W : step[a][w] \in A

\* The states of a run.
States(A, step, start, s, st) ==
  /\ st \in [0..Len(s) -> A] /\ st[0] = start
  /\ \A i \in 1..Len(s) : st[i] = step[st[i - 1]][s[i]]
  /\ Run(step, start, s) = st[Len(s)]

\* They stay where the steps do.
LEMMA RunStates ==
  ASSUME NEW A, NEW W, NEW step, NEW start \in A, NEW s \in Seq(W),
         Inside(A, W, step)
  PROVE  \E st : States(A, step, start, s, st)
<1> DEFINE n == Len(s)
           Solves(g) == g = [r \in SUBSET (1..n) |-> IF r = {} THEN start
                                                     ELSE step[g[r \ {Max(r)}]][s[Max(r)]]]
           run == CHOOSE g : Solves(g)
<1>1. n \in Nat /\ DOMAIN s = 1..n /\ \A i \in 1..n : s[i] \in W
  BY LenProperties, ElementOfSeq
<1>2. Run(step, start, s) = run[1..n]
  BY <1>1 DEF Run, FoldLeft, MapThenFoldSet
<1> HIDE DEF n
<1>3. PICK g \in [SUBSET (1..n) -> A] : Solves(g)
  <2> DEFINE to == [x \in A \X (1..n) |-> step[x[1]][s[x[2]]]]
  <2>1. to \in [A \X (1..n) -> A]
    BY <1>1 DEF Inside
  <2>2. PICK g \in [SUBSET (1..n) -> A] : IsFold(n, start, to, g)
    <3> HIDE DEF to
    <3> QED BY <1>1, <2>1, SomeFold
  <2>3. \A r \in SUBSET (1..n) : r # {} =>
          to[<<g[r \ {Max(r)}], Max(r)>>] = step[g[r \ {Max(r)}]][s[Max(r)]]
    <3>1. \A r \in SUBSET (1..n) : r # {} => Max(r) \in 1..n
      BY <1>1, Positions
    <3>2. \A r \in SUBSET (1..n) : r # {} => <<g[r \ {Max(r)}], Max(r)>> \in A \X (1..n)
      BY <3>1
    <3> QED BY <3>2
  <2>4. Solves(g)
    <3> DEFINE h == [r \in SUBSET (1..n) |-> IF r = {} THEN start
                                             ELSE step[g[r \ {Max(r)}]][s[Max(r)]]]
    <3> HIDE DEF to
    <3>1. \A r \in SUBSET (1..n) : g[r] = h[r]
      BY <2>2, <2>3 DEF IsFold
    <3> QED BY <2>2, <3>1 DEF IsFold
  <2> QED BY <2>4
<1>4. Solves(run)
  <2> HIDE DEF Solves
  <2> QED BY <1>3
<1> HIDE DEF run
<1> DEFINE st == [i \in 0..n |-> run[1..i]]
<1>5. st[0] = start
  <2>1. run[{}] = start
    BY <1>4
  <2> QED BY <1>1, <2>1, Positions
<1>6. ASSUME NEW i \in 1..n PROVE st[i] = step[st[i - 1]][s[i]]
  <2>1. Max(1..i) = i /\ (1..i) \ {i} = 1..(i - 1) /\ 1..i # {} /\ 1..i \in SUBSET (1..n)
    <3>1. n \in Nat
      BY <1>1
    <3> QED BY <3>1, Positions
  <2>2. run[1..i] = step[run[1..(i - 1)]][s[i]]
    <3>1. \A r \in SUBSET (1..n) : r # {} => run[r] = step[run[r \ {Max(r)}]][s[Max(r)]]
      BY <1>4
    <3>2. run[1..i] = step[run[(1..i) \ {Max(1..i)}]][s[Max(1..i)]]
      BY <2>1, <3>1
    <3> QED BY <2>1, <3>2
  <2>3. i \in 0..n /\ i - 1 \in 0..n
    BY <1>1
  <2> QED BY <2>2, <2>3
<1>7. Run(step, start, s) = st[n]
  BY <1>1, <1>2
<1>8. st \in [0..n -> A]
  <2> DEFINE N == {i \in Nat : i <= n => st[i] \in A}
  <2> HIDE DEF st
  <2>1. 0 \in N
    BY <1>5
  <2>2. ASSUME NEW i \in Nat, i \in N PROVE i + 1 \in N
    <3> SUFFICES ASSUME i + 1 <= n PROVE st[i + 1] \in A
      OBVIOUS
    <3>1. i + 1 \in 1..n /\ (i + 1) - 1 = i /\ st[i] \in A
      BY <1>1, <2>2
    <3>2. st[i + 1] = step[st[i]][s[i + 1]]
      BY <1>6, <3>1
    <3> QED BY <1>1, <3>1, <3>2 DEF Inside
  <2>3. Nat \subseteq N
    <3> HIDE DEF N
    <3> QED BY <2>1, <2>2, InductionOnNat
  <2>4. \A i \in 0..n : st[i] \in A
    BY <1>1, <2>3
  <2> QED BY <2>4 DEF st
<1> HIDE DEF st
<1>9. States(A, step, start, s, st)
  BY <1>5, <1>6, <1>7, <1>8 DEF n, States
<1> QED BY <1>9

\* A run begins at its start, stays where its steps do and goes on with the next item.
LEMMA RunAppend ==
  ASSUME NEW A, NEW W, NEW step, NEW start \in A,
         Inside(A, W, step)
  PROVE  /\ Run(step, start, <<>>) = start
         /\ \A s \in Seq(W) :
              /\ Run(step, start, s) \in A
              /\ \A w \in W : Run(step, start, Append(s, w)) = step[Run(step, start, s)][w]
<1>1. Run(step, start, <<>>) = start
  <2>1. <<>> \in Seq(W) /\ Len(<<>>) = 0
    BY EmptySeq
  <2>2. PICK st : States(A, step, start, <<>>, st)
    BY <2>1, RunStates
  <2> QED BY <2>1, <2>2 DEF States
<1>2. ASSUME NEW s \in Seq(W)
      PROVE  Run(step, start, s) \in A
  <2>1. Len(s) \in Nat /\ Len(s) \in 0..Len(s)
    BY LenProperties
  <2>2. PICK st : States(A, step, start, s, st)
    BY RunStates
  <2> QED BY <2>1, <2>2 DEF States
<1>3. ASSUME NEW s \in Seq(W), NEW w \in W
      PROVE  Run(step, start, Append(s, w)) = step[Run(step, start, s)][w]
  <2> DEFINE n == Len(s)
             t == Append(s, w)
  <2>1. n \in Nat /\ t \in Seq(W) /\ Len(t) = n + 1 /\ t[n + 1] = w /\ \A i \in 1..n : t[i] = s[i]
    BY LenProperties, AppendProperties
  <2>2. PICK f : States(A, step, start, s, f)
    BY RunStates
  <2>3. PICK g : States(A, step, start, t, g)
    BY <2>1, RunStates
  <2> HIDE DEF n, t
  <2>4. /\ f \in [0..n -> A] /\ f[0] = start /\ \A i \in 1..n : f[i] = step[f[i - 1]][s[i]]
        /\ Run(step, start, s) = f[n]
    BY <2>2 DEF States, n
  <2>5. /\ g \in [0..(n + 1) -> A] /\ g[0] = start
        /\ \A i \in 1..(n + 1) : g[i] = step[g[i - 1]][t[i]]
        /\ Run(step, start, t) = g[n + 1]
    BY <2>1, <2>3 DEF States
  <2> DEFINE N == {i \in Nat : i <= n => f[i] = g[i]}
  <2>6. 0 \in N
    BY <2>4, <2>5
  <2>7. ASSUME NEW i \in Nat, i \in N PROVE i + 1 \in N
    <3> SUFFICES ASSUME i + 1 <= n PROVE f[i + 1] = g[i + 1]
      OBVIOUS
    <3>1. i + 1 \in 1..n /\ i + 1 \in 1..(n + 1) /\ (i + 1) - 1 = i /\ f[i] = g[i]
      BY <2>1, <2>7
    <3>2. f[i + 1] = step[f[i]][s[i + 1]] /\ g[i + 1] = step[g[i]][t[i + 1]]
      BY <2>4, <2>5, <3>1
    <3> QED BY <2>1, <3>1, <3>2
  <2>8. Nat \subseteq N
    <3> HIDE DEF N
    <3> QED BY <2>6, <2>7, InductionOnNat
  <2>9. f[n] = g[n]
    BY <2>1, <2>8
  <2>10. n + 1 \in 1..(n + 1) /\ (n + 1) - 1 = n
    BY <2>1
  <2>11. g[n + 1] = step[g[n]][w]
    BY <2>1, <2>5, <2>10
  <2>12. Run(step, start, t) = step[Run(step, start, s)][w]
    BY <2>4, <2>5, <2>9, <2>11
  <2> QED BY <2>12 DEF t
<1> QED BY <1>1, <1>2, <1>3

(***************************************************************************)
(* The runs of redaction                                                   *)
(***************************************************************************)
LineRun(text) == Run(LineStep, [out |-> <<>>, mode |-> "copy"], text)
WordRun(text) == Run(WordStep, [out |-> <<>>, seek |-> FALSE], text)

\* What one more word makes of the first pattern's state.
LineGoes(a, w, b) ==
  /\ a.mode = "copy" => b.out = Append(a.out, w) /\ b.mode = IF w = "Cookie:" THEN "seek" ELSE "copy"
  /\ a.mode = "seek" =>
       IF w = LineEnd THEN b.out = Append(a.out, w) /\ b.mode = "seek"
       ELSE b.out = Append(a.out, "[REDACTED]") /\ b.mode = "drop"
  /\ a.mode = "drop" =>
       IF w = LineEnd THEN b.out = Append(a.out, w) /\ b.mode = "copy" ELSE b = a

\* And of the other patterns' state.
WordGoes(a, w, b) ==
  IF a.seek
  THEN /\ b.out = Append(a.out, IF w = LineEnd THEN w ELSE "[REDACTED]")
       /\ b.seek = (w = LineEnd)
  ELSE b.out = Append(a.out, w) /\ b.seek = (w = "session=")

LEMMA LineRunGoes ==
  /\ LineRun(<<>>) = [out |-> <<>>, mode |-> "copy"]
  /\ \A s \in Seq(Words) :
       /\ LineRun(s) \in LineState /\ RedactLine(s) = LineRun(s).out
       /\ \A w \in Words : LineGoes(LineRun(s), w, LineRun(Append(s, w)))
<1> DEFINE start == [out |-> <<>>, mode |-> "copy"]
<1>1. start \in LineState
  BY EmptySeq DEF LineState
<1>2. ASSUME NEW a \in LineState, NEW w \in Words
      PROVE  LineStep[a][w] \in LineState /\ LineGoes(a, w, LineStep[a][w])
  <2>1. "[REDACTED]" \in Words /\ a.out \in Seq(Words)
    BY TextsAssumption DEF TextsAssumption, LineState
  <2>2. Append(a.out, w) \in Seq(Words) /\ Append(a.out, "[REDACTED]") \in Seq(Words)
    BY <2>1, AppendProperties
  <2>3. LineStep[a][w] =
          CASE a.mode = "copy" ->
                 [out |-> Append(a.out, w), mode |-> IF w = "Cookie:" THEN "seek" ELSE "copy"]
            [] a.mode = "seek" ->
                 IF w = LineEnd THEN [a EXCEPT !.out = Append(@, w)]
                 ELSE [out |-> Append(a.out, "[REDACTED]"), mode |-> "drop"]
            [] a.mode = "drop" ->
                 IF w = LineEnd THEN [out |-> Append(a.out, w), mode |-> "copy"] ELSE a
    BY DEF LineStep, LineState
  <2> HIDE DEF LineEnd
  <2>4. CASE a.mode = "copy"
    BY <2>2, <2>3, <2>4 DEF LineState, LineGoes
  <2>5. CASE a.mode = "seek"
    <3>1. CASE w = LineEnd
      <4>1. LineStep[a][w] = [a EXCEPT !.out = Append(a.out, w)]
        BY <2>3, <2>5, <3>1
      <4> QED BY <2>2, <2>5, <3>1, <4>1 DEF LineState, LineGoes
    <3>2. CASE w # LineEnd
      <4>1. LineStep[a][w] = [out |-> Append(a.out, "[REDACTED]"), mode |-> "drop"]
        BY <2>3, <2>5, <3>2
      <4> QED BY <2>2, <2>5, <3>2, <4>1 DEF LineState, LineGoes
    <3> QED BY <3>1, <3>2
  <2>6. CASE a.mode = "drop"
    BY <2>2, <2>3, <2>6 DEF LineState, LineGoes
  <2> QED BY <2>4, <2>5, <2>6 DEF LineState
<1>3. Inside(LineState, Words, LineStep)
  BY <1>2 DEF Inside
<1> HIDE DEF start
<1>4. /\ Run(LineStep, start, <<>>) = start
      /\ \A s \in Seq(Words) :
           /\ Run(LineStep, start, s) \in LineState
           /\ \A w \in Words :
                Run(LineStep, start, Append(s, w)) = LineStep[Run(LineStep, start, s)][w]
  BY <1>1, <1>3, RunAppend
<1>5. \A s : LineRun(s) = Run(LineStep, start, s) /\ RedactLine(s) = LineRun(s).out
  BY DEF LineRun, RedactLine, start
<1> QED BY <1>2, <1>4, <1>5 DEF start

LEMMA WordRunGoes ==
  /\ WordRun(<<>>) = [out |-> <<>>, seek |-> FALSE]
  /\ \A s \in Seq(Words) :
       /\ WordRun(s) \in WordState /\ RedactWord(s) = WordRun(s).out
       /\ \A w \in Words : WordGoes(WordRun(s), w, WordRun(Append(s, w)))
<1> DEFINE start == [out |-> <<>>, seek |-> FALSE]
<1>1. start \in WordState
  BY EmptySeq DEF WordState
<1>2. ASSUME NEW a \in WordState, NEW w \in Words
      PROVE  WordStep[a][w] \in WordState /\ WordGoes(a, w, WordStep[a][w])
  <2>1. "[REDACTED]" \in Words /\ a.out \in Seq(Words)
    BY TextsAssumption DEF TextsAssumption, WordState
  <2>2. Append(a.out, w) \in Seq(Words) /\ Append(a.out, "[REDACTED]") \in Seq(Words)
    BY <2>1, AppendProperties
  <2>3. WordStep[a][w] =
          IF a.seek
          THEN [out |-> Append(a.out, IF w = LineEnd THEN w ELSE "[REDACTED]"),
                seek |-> w = LineEnd]
          ELSE [out |-> Append(a.out, w), seek |-> w = "session="]
    BY DEF WordStep, WordState
  <2> QED BY <2>2, <2>3 DEF WordState, WordGoes
<1>3. Inside(WordState, Words, WordStep)
  BY <1>2 DEF Inside
<1> HIDE DEF start
<1>4. /\ Run(WordStep, start, <<>>) = start
      /\ \A s \in Seq(Words) :
           /\ Run(WordStep, start, s) \in WordState
           /\ \A w \in Words :
                Run(WordStep, start, Append(s, w)) = WordStep[Run(WordStep, start, s)][w]
  BY <1>1, <1>3, RunAppend
<1>5. \A s : WordRun(s) = Run(WordStep, start, s) /\ RedactWord(s) = WordRun(s).out
  BY DEF WordRun, RedactWord, start
<1> QED BY <1>2, <1>4, <1>5 DEF start

\* Evening out leaves the line ends behind.
LEMMA NormalizedGoes ==
  /\ Normalized(<<>>) = <<>>
  /\ \A s \in Seq(Words) :
       /\ Normalized(s) \in Seq(Words)
       /\ \A w \in Words :
            Normalized(Append(s, w)) = IF w = LineEnd THEN Normalized(s) ELSE Append(Normalized(s), w)
<1>1. ASSUME NEW a \in Seq(Words), NEW w \in Words
      PROVE  /\ NormalStep[a][w] \in Seq(Words)
             /\ NormalStep[a][w] = IF w = LineEnd THEN a ELSE Append(a, w)
  BY AppendProperties DEF NormalStep
<1>2. Inside(Seq(Words), Words, NormalStep)
  BY <1>1 DEF Inside
<1> DEFINE start == <<>>
<1>3. start \in Seq(Words)
  BY EmptySeq
<1> HIDE DEF start
<1>4. /\ Run(NormalStep, start, <<>>) = start
      /\ \A s \in Seq(Words) :
           /\ Run(NormalStep, start, s) \in Seq(Words)
           /\ \A w \in Words :
                Run(NormalStep, start, Append(s, w)) = NormalStep[Run(NormalStep, start, s)][w]
  BY <1>2, <1>3, RunAppend
<1>5. \A s : Normalized(s) = Run(NormalStep, start, s)
  BY DEF Normalized, start
<1> QED BY <1>1, <1>4, <1>5 DEF start

(***************************************************************************)
(* What stands behind a label                                              *)
(***************************************************************************)
\* A text with one more word: the words before it stand behind what they stood behind.
LEMMA BehindBefore ==
  ASSUME NEW s \in Seq(Words), NEW w \in Words, NEW i \in 1..(Len(s) + 1),
         NEW j \in 1..(Len(s) + 1)
  PROVE  /\ BehindCookie(Append(s, w), j, i) = BehindCookie(s, j, i)
         /\ BehindWord(Append(s, w), j, i) = BehindWord(s, j, i)
<1> DEFINE n == Len(s)
           t == Append(s, w)
<1>1. n \in Nat /\ \A k \in 1..n : t[k] = s[k]
  BY LenProperties, AppendProperties
<1> HIDE DEF n, t
<1>2. i \in 1..(n + 1) /\ j \in 1..(n + 1)
  BY DEF n
<1>3. CASE j < i
  <2>1. t[j] = s[j] /\ \A k \in (j + 1)..(i - 1) : t[k] = s[k]
    BY <1>1, <1>2, <1>3
  <2> QED BY <2>1 DEF BehindCookie, BehindWord, t
<1>4. CASE ~(j < i)
  BY <1>4 DEF BehindCookie, BehindWord
<1> QED BY <1>3, <1>4

\* What the next word would stand behind.
LEMMA BehindNext ==
  ASSUME NEW s \in Seq(Words), NEW w \in Words, NEW j \in 1..(Len(s) + 1)
  PROVE  LET n == Len(s)
             t == Append(s, w)
         IN /\ BehindCookie(t, j, n + 2) <=>
                 \/ j = n + 1 /\ w = "Cookie:"
                 \/ /\ j <= n /\ BehindCookie(s, j, n + 1)
                    /\ w = LineEnd => \A k \in (j + 1)..n : s[k] = LineEnd
            /\ BehindWord(t, j, n + 2) <=>
                 \/ j = n + 1 /\ w = "session="
                 \/ j <= n /\ BehindWord(s, j, n + 1) /\ w = LineEnd
<1> DEFINE n == Len(s)
           t == Append(s, w)
<1>1. n \in Nat /\ t[n + 1] = w /\ \A k \in 1..n : t[k] = s[k]
  BY LenProperties, AppendProperties
<1> HIDE DEF n, t
<1>2. j \in 1..(n + 1)
  BY DEF n
<1>3. CASE j = n + 1
  <2>1. (j + 1)..(n + 2 - 1) = {} /\ j < n + 2 /\ t[j] = w /\ ~(j <= n)
    BY <1>1, <1>3
  <2>2. BehindCookie(t, j, n + 2) <=> w = "Cookie:"
    BY <1>1, <2>1 DEF BehindCookie
  <2>3. BehindWord(t, j, n + 2) <=> w = "session="
    BY <1>1, <2>1 DEF BehindWord
  <2> QED BY <1>3, <2>1, <2>2, <2>3 DEF n, t
<1>4. CASE j # n + 1
  <2>1. j \in 1..n /\ j < n + 1 /\ j < n + 2 /\ t[j] = s[j]
    BY <1>1, <1>2, <1>4
  <2>2. (j + 1)..(n + 2 - 1) = ((j + 1)..n) \cup {n + 1} /\ n + 1 - 1 = n
    BY <1>1, <2>1
  <2>3. \A k \in (j + 1)..n : t[k] = s[k] /\ k < n + 1 /\ ~(n + 1 < k)
    BY <1>1, <2>1
  <2>4. BehindCookie(t, j, n + 2) <=>
          /\ BehindCookie(s, j, n + 1)
          /\ w = LineEnd => \A k \in (j + 1)..n : s[k] = LineEnd
    <3>1. ASSUME BehindCookie(t, j, n + 2)
          PROVE  /\ BehindCookie(s, j, n + 1)
                 /\ w = LineEnd => \A k \in (j + 1)..n : s[k] = LineEnd
      <4>1. \A k \in (j + 1)..n : k \in (j + 1)..(n + 2 - 1)
        BY <2>2
      <4>2. n + 1 \in (j + 1)..(n + 2 - 1)
        BY <2>2
      <4>3. t[j] = "Cookie:" /\ \A k, l \in (j + 1)..(n + 2 - 1) :
                                  k < l /\ t[k] # LineEnd => t[l] # LineEnd
        BY <1>1, <3>1 DEF BehindCookie
      <4>4. \A k \in (j + 1)..n : s[k] # LineEnd => w # LineEnd
        BY <1>1, <2>3, <4>1, <4>2, <4>3
      <4>5. \A k, l \in (j + 1)..n : k < l /\ s[k] # LineEnd => s[l] # LineEnd
        BY <2>3, <4>1, <4>3
      <4> QED BY <1>1, <2>1, <2>2, <4>3, <4>4, <4>5 DEF BehindCookie
    <3>2. ASSUME BehindCookie(s, j, n + 1), w = LineEnd => \A k \in (j + 1)..n : s[k] = LineEnd
          PROVE  BehindCookie(t, j, n + 2)
      <4>1. s[j] = "Cookie:" /\ \A k, l \in (j + 1)..n : k < l /\ s[k] # LineEnd => s[l] # LineEnd
        BY <1>1, <2>2, <3>2 DEF BehindCookie
      <4>2. \A k, l \in ((j + 1)..n) \cup {n + 1} : k < l /\ t[k] # LineEnd => t[l] # LineEnd
        BY <1>1, <2>3, <3>2, <4>1
      <4> QED BY <1>1, <2>1, <2>2, <4>1, <4>2 DEF BehindCookie
    <3> QED BY <3>1, <3>2
  <2>5. BehindWord(t, j, n + 2) <=> BehindWord(s, j, n + 1) /\ w = LineEnd
    BY <1>1, <2>1, <2>2, <2>3 DEF BehindWord
  <2> QED BY <1>4, <2>1, <2>4, <2>5 DEF n, t
<1> QED BY <1>3, <1>4

\* Every word behind a label of one word is a mark.
Covered(c) ==
  \A j, i \in 1..Len(c) : BehindWord(c, j, i) /\ c[i] # LineEnd => c[i] = "[REDACTED]"

\* The patterns of one word seek while a label waits for its word; they change no line end
\* and leave only marks behind the labels.
LEMMA WordsCovered ==
  ASSUME NEW x \in Seq(Words)
  PROVE  LET out == WordRun(x).out
         IN /\ out \in Seq(Words) /\ Len(out) = Len(x)
            /\ \A i \in 1..Len(x) : out[i] \in {x[i], "[REDACTED]"}
                                    /\ (out[i] = LineEnd <=> x[i] = LineEnd)
            /\ WordRun(x).seek <=> \E j \in 1..Len(out) : BehindWord(out, j, Len(out) + 1)
            /\ Covered(out)
<1> DEFINE Same(s, out) ==
             /\ Len(out) = Len(s)
             /\ \A i \in 1..Len(s) : out[i] \in {s[i], "[REDACTED]"}
                                     /\ (out[i] = LineEnd <=> s[i] = LineEnd)
           Seeks(r) == r.seek <=> \E j \in 1..Len(r.out) : BehindWord(r.out, j, Len(r.out) + 1)
           T == {s \in Seq(Words) : /\ Same(s, WordRun(s).out) /\ Seeks(WordRun(s))
                                    /\ Covered(WordRun(s).out)}
<1>1. \A s \in Seq(Words) : WordRun(s) \in WordState /\ WordRun(s).out \in Seq(Words)
  BY WordRunGoes DEF WordState
<1>2. <<>> \in T
  <2>1. WordRun(<<>>).out = <<>> /\ WordRun(<<>>).seek = FALSE /\ <<>> \in Seq(Words) /\ Len(<<>>) = 0
    BY WordRunGoes, EmptySeq
  <2>2. Same(<<>>, <<>>)
    BY <2>1
  <2>3. Seeks(WordRun(<<>>)) /\ Covered(<<>>)
    BY <2>1 DEF Covered
  <2> QED BY <2>1, <2>2, <2>3
<1>3. ASSUME NEW s \in Seq(Words), NEW w \in Words, s \in T PROVE Append(s, w) \in T
  <2> DEFINE a == WordRun(s)
             t == Append(s, w)
             b == WordRun(t)
             n == Len(s)
             c == a.out
             d == b.out
  <2>1. t \in Seq(Words) /\ Len(t) = n + 1 /\ n \in Nat /\ t[n + 1] = w /\ \A i \in 1..n : t[i] = s[i]
    BY AppendProperties, LenProperties
  <2>2. WordGoes(a, w, b) /\ a \in WordState /\ b \in WordState
    BY <1>1, <2>1, WordRunGoes
  <2>3. Same(s, c) /\ Seeks(a) /\ Covered(c) /\ c \in Seq(Words)
    BY <1>1, <1>3
  <2>4. "[REDACTED]" \in Words /\ "[REDACTED]" # LineEnd
    BY TextsAssumption DEF TextsAssumption, LineEnd
  <2> DEFINE v == IF a.seek /\ w # LineEnd THEN "[REDACTED]" ELSE w
  <2>5. v \in Words /\ d = Append(c, v) /\ v \in {w, "[REDACTED]"} /\ (v = LineEnd <=> w = LineEnd)
    BY <2>2, <2>4 DEF WordGoes, WordState
  <2>6. b.seek <=> IF a.seek THEN w = LineEnd ELSE w = "session="
    BY <2>2 DEF WordGoes
  <2>7. v = "session=" => ~a.seek /\ w = "session="
    BY DEF LineEnd
  <2>8. a.seek /\ v # LineEnd => v = "[REDACTED]"
    OBVIOUS
  <2>9. ~a.seek => v = w
    OBVIOUS
  <2> HIDE DEF n, t, a, b, v
  <2>10. Len(c) = n /\ Len(d) = n + 1 /\ d[n + 1] = v /\ \A i \in 1..n : d[i] = c[i]
    BY <2>3, <2>5, AppendProperties DEF n
  <2>11. Same(t, d)
    BY <2>1, <2>3, <2>5, <2>10 DEF n
  <2>12. Seeks(b)
    <3>1. \A j \in 1..(n + 1) : BehindWord(d, j, n + 2) <=>
            \/ j = n + 1 /\ v = "session="
            \/ j <= n /\ BehindWord(c, j, n + 1) /\ v = LineEnd
      BY <2>3, <2>5, <2>10, BehindNext
    <3>2. a.seek <=> \E j \in 1..n : BehindWord(c, j, n + 1)
      BY <2>3, <2>10
    <3>3. b.seek <=> \E j \in 1..(n + 1) : BehindWord(d, j, n + 2)
      <4>1. CASE a.seek
        <5>1. v # "session=" /\ (v = LineEnd <=> w = LineEnd) /\ (b.seek <=> w = LineEnd)
          BY <2>5, <2>6, <2>7, <4>1
        <5>2. \A j \in 1..n : j \in 1..(n + 1) /\ j <= n
          BY <2>1
        <5> QED BY <2>1, <3>1, <3>2, <4>1, <5>1, <5>2
      <4>2. CASE ~a.seek
        <5>1. v = w /\ (b.seek <=> w = "session=")
          BY <2>6, <2>9, <4>2
        <5>2. \A j \in 1..(n + 1) : j <= n => j \in 1..n
          BY <2>1
        <5>3. n + 1 \in 1..(n + 1)
          BY <2>1
        <5> QED BY <3>1, <3>2, <4>2, <5>1, <5>2, <5>3
      <4> QED BY <4>1, <4>2
    <3>4. (n + 1) + 1 = n + 2
      BY <2>1
    <3> QED BY <2>10, <3>3, <3>4
  <2>13. Covered(d)
    <3> SUFFICES ASSUME NEW j \in 1..(n + 1), NEW i \in 1..(n + 1),
                        BehindWord(d, j, i), d[i] # LineEnd
                 PROVE  d[i] = "[REDACTED]"
      BY <2>10 DEF Covered
    <3>1. BehindWord(c, j, i)
      BY <2>3, <2>5, <2>10, BehindBefore
    <3>2. j < i
      BY <3>1 DEF BehindWord
    <3>3. CASE i = n + 1
      <4>1. j \in 1..n
        BY <2>1, <3>2, <3>3
      <4>2. a.seek
        BY <2>3, <2>10, <3>1, <3>3, <4>1
      <4> QED BY <2>8, <2>10, <3>3, <4>2
    <3>4. CASE i # n + 1
      <4>1. i \in 1..n /\ j \in 1..n
        BY <2>1, <3>2, <3>4
      <4> QED BY <2>3, <2>10, <3>1, <4>1 DEF Covered
    <3> QED BY <3>3, <3>4
  <2> QED BY <2>1, <2>11, <2>12, <2>13 DEF b, t
<1>4. x \in T
  <2> HIDE DEF T
  <2> QED BY <1>2, <1>3, InductionOnSeq
<1> QED BY <1>1, <1>4

(***************************************************************************)
(* Secrets                                                                 *)
(***************************************************************************)
\* Every secret has a label.
Labelled(s) == \A i \in DOMAIN s : s[i] = "secret" => HasLabel(s, i)

\* How far redaction is after s.  Where a pattern is at work a label of its kind is near; where
\* a label that counts is near, its pattern is at work, and the first one has found its value
\* or still seeks it; no secret has passed.
Redacting(s) ==
  LET a == LineRun(s)
      b == WordRun(a.out)
      n == Len(s)
  IN /\ a.mode # "copy" => \E j \in 1..n : BehindCookie(s, j, n + 1)
     /\ a.mode = "seek" => \E j \in 1..n : s[j] = "Cookie:" /\ \A k \in (j + 1)..n : s[k] = LineEnd
     /\ \A j \in 1..n :
          ~Behind(s, j) /\ BehindCookie(s, j, n + 1) =>
            /\ a.mode # "copy"
            /\ a.mode = "drop" => \E k \in (j + 1)..n : s[k] # LineEnd
     /\ b.seek => \E j \in 1..n : BehindWord(s, j, n + 1)
     /\ \A j \in 1..n : ~Behind(s, j) /\ BehindWord(s, j, n + 1) => b.seek
     /\ b.seek => a.mode = "copy"
     /\ \A i \in 1..Len(b.out) : b.out[i] # "secret"

\* What one word more leaves as it was.
LEMMA BehindKept ==
  ASSUME NEW s \in Seq(Words), NEW w \in Words, NEW i \in 1..(Len(s) + 1)
  PROVE  LET n == Len(s)
             t == Append(s, w)
         IN /\ Behind(t, i) <=> \E j \in 1..n : BehindCookie(s, j, i) \/ BehindWord(s, j, i)
            /\ Behind(t, i) <=> Behind(s, i)
            /\ HasLabel(t, i) <=>
                 \E j \in 1..n : /\ BehindCookie(s, j, i) \/ BehindWord(s, j, i)
                                 /\ ~Behind(s, j)
            /\ HasLabel(t, i) <=> HasLabel(s, i)
<1> DEFINE n == Len(s)
           t == Append(s, w)
<1>1. n \in Nat /\ t \in Seq(Words) /\ Len(t) = n + 1
  BY LenProperties, AppendProperties
<1>2. DOMAIN s = 1..n /\ DOMAIN t = 1..(n + 1)
  BY <1>1, LenProperties
<1>3. \A k, j \in 1..(n + 1) : /\ BehindCookie(t, j, k) = BehindCookie(s, j, k)
                               /\ BehindWord(t, j, k) = BehindWord(s, j, k)
  BY BehindBefore
<1> HIDE DEF n, t
<1>4. \A k, j \in 1..(n + 1) : BehindCookie(s, j, k) \/ BehindWord(s, j, k) => j \in 1..n
  BY <1>1 DEF BehindCookie, BehindWord
<1>5. (\A j \in 1..n : j \in 1..(n + 1)) /\ i \in 1..(n + 1)
  BY <1>1 DEF n
<1>6. \A k \in 1..(n + 1) :
        /\ Behind(s, k) <=> \E j \in 1..n : BehindCookie(s, j, k) \/ BehindWord(s, j, k)
        /\ Behind(t, k) <=> Behind(s, k)
  BY <1>2, <1>3, <1>4, <1>5 DEF Behind
<1>7. /\ HasLabel(s, i) <=>
           \E j \in 1..n : (BehindCookie(s, j, i) \/ BehindWord(s, j, i)) /\ ~Behind(s, j)
      /\ HasLabel(t, i) <=>
           \E j \in 1..(n + 1) : (BehindCookie(s, j, i) \/ BehindWord(s, j, i)) /\ ~Behind(s, j)
  BY <1>2, <1>3, <1>5, <1>6 DEF HasLabel
<1>8. HasLabel(t, i) <=> HasLabel(s, i)
  BY <1>4, <1>5, <1>7
<1> QED BY <1>5, <1>6, <1>7, <1>8 DEF n, t

\* One word more.
LEMMA RedactingGoesOn ==
  ASSUME NEW s \in Seq(Words), NEW w \in Words, Redacting(s), Labelled(Append(s, w))
  PROVE  Redacting(Append(s, w))
<1> DEFINE n == Len(s)
           t == Append(s, w)
           a == LineRun(s)
           b == WordRun(a.out)
           c == LineRun(t)
           d == WordRun(c.out)
           Cookie == \E j \in 1..n : BehindCookie(s, j, n + 1)
           Word == \E j \in 1..n : BehindWord(s, j, n + 1)
<1>1. t \in Seq(Words) /\ Len(t) = n + 1 /\ n \in Nat /\ t[n + 1] = w /\ \A i \in 1..n : t[i] = s[i]
  BY AppendProperties, LenProperties
<1>2. /\ a \in LineState /\ c \in LineState /\ LineGoes(a, w, c)
      /\ a.out \in Seq(Words) /\ c.out \in Seq(Words)
  BY <1>1, LineRunGoes DEF LineState
<1>3. /\ b \in WordState /\ \A v \in Words : WordGoes(b, v, WordRun(Append(a.out, v)))
      /\ b.out \in Seq(Words)
  BY <1>2, WordRunGoes DEF WordState
<1>4. "[REDACTED]" \in Words
  BY TextsAssumption DEF TextsAssumption
<1>5. /\ a.mode # "copy" => Cookie
      /\ a.mode = "seek" => \E j \in 1..n : s[j] = "Cookie:" /\ \A k \in (j + 1)..n : s[k] = LineEnd
      /\ \A j \in 1..n :
           ~Behind(s, j) /\ BehindCookie(s, j, n + 1) =>
             /\ a.mode # "copy"
             /\ a.mode = "drop" => \E k \in (j + 1)..n : s[k] # LineEnd
      /\ b.seek => Word
      /\ \A j \in 1..n : ~Behind(s, j) /\ BehindWord(s, j, n + 1) => b.seek
      /\ b.seek => a.mode = "copy"
      /\ \A i \in 1..Len(b.out) : b.out[i] # "secret"
  BY DEF Redacting
<1>6. /\ \A i \in 1..n : Behind(t, i) <=> Behind(s, i)
      /\ Behind(t, n + 1) <=> Cookie \/ Word
      /\ w = "secret" => a.mode # "copy" \/ b.seek
  <2>1. /\ \A i \in 1..n : i \in 1..(n + 1)
        /\ n + 1 \in 1..(n + 1) /\ DOMAIN t = 1..(n + 1)
    BY <1>1, LenProperties
  <2>2. \A i \in 1..n : Behind(t, i) <=> Behind(s, i)
    BY <2>1, BehindKept
  <2>3. Behind(t, n + 1) <=> Cookie \/ Word
    BY <2>1, BehindKept
  <2>4. ASSUME w = "secret" PROVE a.mode # "copy" \/ b.seek
    <3>1. HasLabel(t, n + 1)
      BY <1>1, <2>1, <2>4 DEF Labelled
    <3>2. PICK j \in 1..n : (BehindCookie(s, j, n + 1) \/ BehindWord(s, j, n + 1)) /\ ~Behind(s, j)
      BY <2>1, <3>1, BehindKept
    <3> QED BY <1>5, <3>2
  <2> QED BY <2>2, <2>3, <2>4
<1>7. \A j \in 1..(n + 1) :
        /\ BehindCookie(t, j, n + 2) <=>
             \/ j = n + 1 /\ w = "Cookie:"
             \/ /\ j <= n /\ BehindCookie(s, j, n + 1)
                /\ w = LineEnd => \A k \in (j + 1)..n : s[k] = LineEnd
        /\ BehindWord(t, j, n + 2) <=>
             \/ j = n + 1 /\ w = "session="
             \/ j <= n /\ BehindWord(s, j, n + 1) /\ w = LineEnd
  BY BehindNext
<1> HIDE DEF n, t, a, b, c, d
<1>8. /\ \A j \in 1..n : j \in 1..(n + 1) /\ j <= n
      /\ \A j \in 1..(n + 1) : j <= n => j \in 1..n
      /\ n + 1 \in 1..(n + 1) /\ ~(n + 1 <= n)
  BY <1>1
\* Whether the next word would be behind a cookie's label.
<1>9. (\E j \in 1..(n + 1) : BehindCookie(t, j, n + 2)) <=>
        \/ w = "Cookie:"
        \/ \E j \in 1..n : BehindCookie(s, j, n + 1)
                           /\ (w = LineEnd => \A k \in (j + 1)..n : s[k] = LineEnd)
  BY <1>7, <1>8
<1>10. (\E j \in 1..(n + 1) : BehindWord(t, j, n + 2)) <=> w = "session=" \/ (Word /\ w = LineEnd)
  BY <1>7, <1>8
<1>11. ASSUME c.mode # "copy" PROVE \E j \in 1..(n + 1) : BehindCookie(t, j, n + 2)
  <2>1. CASE a.mode = "copy"
    BY <1>2, <1>9, <1>11, <2>1 DEF LineGoes, LineState
  <2>2. CASE a.mode = "seek"
    <3>1. CASE w = LineEnd
      <4>1. PICK j \in 1..n : s[j] = "Cookie:" /\ \A k \in (j + 1)..n : s[k] = LineEnd
        BY <1>5, <2>2
      <4>2. BehindCookie(s, j, n + 1)
        BY <1>1, <4>1 DEF BehindCookie
      <4> QED BY <1>9, <4>1, <4>2
    <3>2. CASE w # LineEnd
      <4>1. Cookie
        BY <1>5, <2>2
      <4> QED BY <1>9, <3>2, <4>1
    <3> QED BY <3>1, <3>2
  <2>3. CASE a.mode = "drop"
    <3>1. w # LineEnd
      BY <1>2, <1>11, <2>3 DEF LineGoes, LineState
    <3>2. Cookie
      BY <1>5, <2>3
    <3> QED BY <1>9, <3>1, <3>2
  <2> QED BY <1>2, <2>1, <2>2, <2>3 DEF LineState
<1>12. ASSUME NEW j \in 1..(n + 1), ~Behind(t, j), BehindCookie(t, j, n + 2)
       PROVE  /\ c.mode # "copy"
              /\ c.mode = "drop" => \E k \in (j + 1)..(n + 1) : t[k] # LineEnd
  <2>1. CASE j = n + 1
    <3>1. w = "Cookie:"
      BY <1>7, <1>8, <1>12, <2>1
    <3>2. a.mode = "copy"
      BY <1>5, <1>6, <1>12, <2>1
    <3> QED BY <1>2, <3>1, <3>2 DEF LineGoes
  <2>2. CASE j # n + 1
    <3>1. /\ j \in 1..n /\ BehindCookie(s, j, n + 1)
          /\ w = LineEnd => \A k \in (j + 1)..n : s[k] = LineEnd
      BY <1>7, <1>8, <1>12, <2>2
    <3>2. ~Behind(s, j)
      BY <1>6, <1>12, <3>1
    <3>3. a.mode # "copy" /\ (a.mode = "drop" => \E k \in (j + 1)..n : s[k] # LineEnd)
      BY <1>5, <3>1, <3>2
    <3>4. a.mode = "drop" => w # LineEnd
      BY <3>1, <3>3
    <3>5. c.mode # "copy"
      BY <1>2, <3>3, <3>4 DEF LineGoes, LineState
    <3>6. ASSUME c.mode = "drop" PROVE \E k \in (j + 1)..(n + 1) : t[k] # LineEnd
      <4>1. w # LineEnd
        BY <1>2, <3>3, <3>4, <3>6 DEF LineGoes, LineState
      <4>2. n + 1 \in (j + 1)..(n + 1)
        BY <1>1, <3>1
      <4> QED BY <1>1, <4>1, <4>2
    <3> QED BY <3>5, <3>6
  <2> QED BY <2>1, <2>2
<1>13. ASSUME c.mode = "seek"
       PROVE  \E j \in 1..(n + 1) : t[j] = "Cookie:" /\ \A k \in (j + 1)..(n + 1) : t[k] = LineEnd
  <2>1. (a.mode = "copy" /\ w = "Cookie:") \/ (a.mode = "seek" /\ w = LineEnd)
    BY <1>2, <1>13 DEF LineGoes, LineState
  <2>2. CASE w = "Cookie:"
    <3>1. t[n + 1] = "Cookie:" /\ \A k \in ((n + 1) + 1)..(n + 1) : FALSE
      BY <1>1, <2>2
    <3> QED BY <1>8, <3>1
  <2>3. CASE a.mode = "seek" /\ w = LineEnd
    <3>1. PICK j \in 1..n : s[j] = "Cookie:" /\ \A k \in (j + 1)..n : s[k] = LineEnd
      BY <1>5, <2>3
    <3>2. \A k \in (j + 1)..(n + 1) : t[k] = LineEnd
      BY <1>1, <2>3, <3>1
    <3> QED BY <1>1, <1>8, <3>1, <3>2
  <2> QED BY <2>1, <2>2, <2>3
\* What the other patterns get, and what they make of it.
<1>14. /\ d.seek => w = "session=" \/ (b.seek /\ w = LineEnd)
       /\ (w = "session=" /\ ~Cookie /\ ~Word) \/ (b.seek /\ w = LineEnd) => d.seek
       /\ d.seek => c.mode = "copy"
       /\ \A i \in 1..Len(d.out) : d.out[i] # "secret"
  <2>1. ASSUME NEW v \in Words, c.out = Append(a.out, v),
               ~b.seek => v # "secret"
        PROVE  \A i \in 1..Len(d.out) : d.out[i] # "secret"
    <3> DEFINE u == IF b.seek /\ v # LineEnd THEN "[REDACTED]" ELSE v
    <3>1. d.out = Append(b.out, u) /\ u \in Words
      BY <1>3, <1>4, <2>1 DEF WordGoes, WordState, d
    <3>2. u # "secret"
      BY <2>1 DEF LineEnd
    <3> HIDE DEF u
    <3>3. /\ Len(b.out) \in Nat /\ Len(d.out) = Len(b.out) + 1 /\ d.out[Len(b.out) + 1] = u
          /\ \A i \in 1..Len(b.out) : d.out[i] = b.out[i]
      BY <1>3, <3>1, AppendProperties, LenProperties
    <3>4. \A i \in 1..(Len(b.out) + 1) : i \in 1..Len(b.out) \/ i = Len(b.out) + 1
      BY <3>3
    <3> QED BY <1>5, <3>2, <3>3, <3>4
  <2>2. CASE a.mode = "copy"
    <3>1. c.out = Append(a.out, w)
      BY <1>2, <2>2 DEF LineGoes
    <3>2. WordGoes(b, w, d)
      BY <1>3, <3>1 DEF d
    <3>3. /\ d.seek => w = "session=" \/ (b.seek /\ w = LineEnd)
          /\ (w = "session=" /\ ~Word) \/ (b.seek /\ w = LineEnd) => d.seek
      BY <1>5, <3>2 DEF WordGoes
    <3>4. d.seek => c.mode = "copy"
      BY <1>2, <2>2, <3>3 DEF LineGoes, LineEnd
    <3>5. ~b.seek => w # "secret"
      BY <1>6, <2>2
    <3> QED BY <2>1, <3>1, <3>3, <3>4, <3>5
  <2>3. CASE a.mode \in {"seek", "drop"} /\ (a.mode = "seek" \/ w = LineEnd)
    <3> DEFINE v == IF w = LineEnd THEN w ELSE "[REDACTED]"
    <3>1. c.out = Append(a.out, v) /\ v \in Words /\ v # "secret" /\ v # "session="
      BY <1>2, <1>4, <2>3 DEF LineGoes, LineEnd
    <3>2. ~b.seek /\ Cookie
      BY <1>5, <2>3
    <3>3. WordGoes(b, v, d)
      BY <1>3, <3>1 DEF d
    <3>4. ~d.seek
      BY <3>1, <3>2, <3>3 DEF WordGoes
    <3> HIDE DEF v
    <3> QED BY <2>1, <3>1, <3>2, <3>4
  <2>4. CASE a.mode = "drop" /\ w # LineEnd
    <3>1. c = a
      BY <1>2, <2>4 DEF LineGoes
    <3>2. d = b
      BY <3>1 DEF b, d
    <3>3. ~b.seek /\ Cookie
      BY <1>5, <2>4
    <3> QED BY <1>5, <2>4, <3>2, <3>3
  <2> QED BY <1>2, <2>2, <2>3, <2>4 DEF LineState
<1>15. (n + 1) + 1 = n + 2
  BY <1>1
<1>16. d.seek => \E j \in 1..(n + 1) : BehindWord(t, j, n + 2)
  BY <1>5, <1>10, <1>14
<1>17. ASSUME NEW j \in 1..(n + 1), ~Behind(t, j), BehindWord(t, j, n + 2)
       PROVE  d.seek
  <2>1. CASE j = n + 1
    BY <1>6, <1>7, <1>8, <1>14, <1>17, <2>1
  <2>2. CASE j # n + 1
    <3>1. j \in 1..n /\ BehindWord(s, j, n + 1) /\ w = LineEnd
      BY <1>7, <1>8, <1>17, <2>2
    <3>2. b.seek
      BY <1>5, <1>6, <1>17, <3>1
    <3> QED BY <1>14, <3>1, <3>2
  <2> QED BY <2>1, <2>2
<1> QED BY <1>1, <1>11, <1>12, <1>13, <1>14, <1>15, <1>16, <1>17 DEF Redacting, c, d, t

\* No secret passes redaction.
LEMMA SecretsRedacted ==
  ASSUME NEW text \in Texts
  PROVE  Redacted(text) \in Seq(Words) /\ "secret" \notin ToSet(Redacted(text))
<1> DEFINE T == {s \in Seq(Words) : Labelled(s) => Redacting(s)}
<1>1. <<>> \in T
  <2>1. LineRun(<<>>) = [out |-> <<>>, mode |-> "copy"] /\ WordRun(<<>>) = [out |-> <<>>, seek |-> FALSE]
    BY LineRunGoes, WordRunGoes
  <2>2. <<>> \in Seq(Words) /\ Len(<<>>) = 0 /\ 1..0 = {}
    BY EmptySeq
  <2> QED BY <2>1, <2>2 DEF Redacting
<1>2. ASSUME NEW s \in Seq(Words), NEW w \in Words, s \in T PROVE Append(s, w) \in T
  <2> DEFINE n == Len(s)
             t == Append(s, w)
  <2> SUFFICES ASSUME Labelled(t) PROVE Redacting(t)
    BY AppendProperties
  <2>1. t \in Seq(Words) /\ Len(t) = n + 1 /\ n \in Nat /\ \A i \in 1..n : t[i] = s[i]
    BY AppendProperties, LenProperties
  <2>2. DOMAIN s = 1..n /\ DOMAIN t = 1..(n + 1)
    BY <2>1, LenProperties
  <2>3. \A i \in 1..n : i \in 1..(n + 1)
    BY <2>1
  <2>4. \A i \in 1..n : HasLabel(t, i) <=> HasLabel(s, i)
    BY <2>3, BehindKept
  <2> HIDE DEF n, t
  <2>5. Labelled(s)
    BY <2>1, <2>2, <2>3, <2>4 DEF Labelled
  <2>6. Redacting(s)
    BY <1>2, <2>5
  <2> QED BY <2>6, RedactingGoesOn DEF t
<1>3. text \in T
  <2> HIDE DEF T
  <2>1. text \in Seq(Words)
    BY TextsAssumption DEF TextsAssumption
  <2> QED BY <1>1, <1>2, <2>1, InductionOnSeq
<1>4. Redacting(text)
  BY <1>3, TextsAssumption DEF TextsAssumption, Labelled
<1>5. LineRun(text).out \in Seq(Words) /\ RedactLine(text) = LineRun(text).out
  BY <1>3, LineRunGoes DEF LineState
<1>6. Redacted(text) = WordRun(LineRun(text).out).out /\ Redacted(text) \in Seq(Words)
  BY <1>5, WordRunGoes DEF Redacted, WordState
<1>7. DOMAIN Redacted(text) = 1..Len(Redacted(text))
  BY <1>6, LenProperties
<1> QED BY <1>4, <1>6, <1>7 DEF Redacting, ToSet

(***************************************************************************)
(* What redaction finds no more in                                         *)
(***************************************************************************)
\* No line ends after a cookie's label.
CookieOnLastLine(s) ==
  \A i, j \in 1..Len(s) : i < j /\ s[i] = "Cookie:" => s[j] # LineEnd

\* After a cookie's label there is a mark, or nothing, and then the end.
Ended(c) ==
  \A i, j \in 1..Len(c) : i < j /\ c[i] = "Cookie:" => j = i + 1 /\ c[j] = "[REDACTED]"

\* How far the first pattern is: it found no label; the label came last; its mark did.
LineRedacting(s) ==
  LET a == LineRun(s)
      m == Len(a.out)
  IN /\ a.mode = "copy" => \A i \in 1..m : a.out[i] # "Cookie:"
     /\ a.mode = "seek" => /\ m >= 1 /\ a.out[m] = "Cookie:"
                           /\ \A i \in 1..(m - 1) : a.out[i] # "Cookie:"
     /\ a.mode = "drop" => /\ m >= 2 /\ a.out[m] = "[REDACTED]" /\ a.out[m - 1] = "Cookie:"
                           /\ \A i \in 1..(m - 2) : a.out[i] # "Cookie:"
     /\ a.mode # "copy" => \E i \in 1..Len(s) : s[i] = "Cookie:"

LEMMA LineEnded ==
  ASSUME NEW s \in Seq(Words), CookieOnLastLine(s)
  PROVE  Ended(RedactLine(s))
<1> DEFINE T == {r \in Seq(Words) : CookieOnLastLine(r) => LineRedacting(r)}
<1>1. <<>> \in T
  <2>1. LineRun(<<>>) = [out |-> <<>>, mode |-> "copy"] /\ <<>> \in Seq(Words) /\ Len(<<>>) = 0
    BY LineRunGoes, EmptySeq
  <2> QED BY <2>1 DEF LineRedacting
<1>2. ASSUME NEW r \in Seq(Words), NEW w \in Words, r \in T PROVE Append(r, w) \in T
  <2> DEFINE n == Len(r)
             t == Append(r, w)
             a == LineRun(r)
             c == LineRun(t)
             m == Len(a.out)
  <2> SUFFICES ASSUME CookieOnLastLine(t) PROVE LineRedacting(t)
    BY AppendProperties
  <2>1. t \in Seq(Words) /\ Len(t) = n + 1 /\ n \in Nat /\ t[n + 1] = w /\ \A i \in 1..n : t[i] = r[i]
    BY AppendProperties, LenProperties
  <2>2. /\ a \in LineState /\ LineGoes(a, w, c) /\ a.out \in Seq(Words) /\ m \in Nat
        /\ "[REDACTED]" \in Words
    BY LineRunGoes, LenProperties, TextsAssumption DEF LineState, TextsAssumption
  <2>3. LineRedacting(r)
    <3> HIDE DEF n, t, a, c
    <3>1. CookieOnLastLine(r)
      BY <2>1 DEF CookieOnLastLine, n, t
    <3> QED BY <1>2, <3>1
  <2>4. /\ a.mode = "copy" => \A i \in 1..m : a.out[i] # "Cookie:"
        /\ a.mode = "seek" => /\ m >= 1 /\ a.out[m] = "Cookie:"
                              /\ \A i \in 1..(m - 1) : a.out[i] # "Cookie:"
        /\ a.mode = "drop" => /\ m >= 2 /\ a.out[m] = "[REDACTED]" /\ a.out[m - 1] = "Cookie:"
                              /\ \A i \in 1..(m - 2) : a.out[i] # "Cookie:"
        /\ a.mode # "copy" => \E i \in 1..n : r[i] = "Cookie:"
    BY <2>3 DEF LineRedacting
  <2> HIDE DEF n, t, a, c, m
  <2>5. (\E i \in 1..n : r[i] = "Cookie:") => \E i \in 1..(n + 1) : t[i] = "Cookie:"
    BY <2>1
  <2>6. a.mode # "copy" => w # LineEnd
    <3> SUFFICES ASSUME NEW i \in 1..n, r[i] = "Cookie:" PROVE w # LineEnd
      BY <2>4
    <3>1. i \in 1..(n + 1) /\ n + 1 \in 1..(n + 1) /\ i < n + 1 /\ t[i] = "Cookie:"
      BY <2>1
    <3> QED BY <2>1, <3>1 DEF CookieOnLastLine
  <2>7. \A v \in Words : /\ Len(Append(a.out, v)) = m + 1
                         /\ Append(a.out, v)[m + 1] = v
                         /\ \A i \in 1..m : Append(a.out, v)[i] = a.out[i]
    BY <2>2, AppendProperties DEF m
  <2>8. CASE a.mode = "copy"
    <3>1. c.out = Append(a.out, w) /\ c.mode = IF w = "Cookie:" THEN "seek" ELSE "copy"
      BY <2>2, <2>8 DEF LineGoes
    <3>2. Len(c.out) = m + 1 /\ c.out[m + 1] = w /\ \A i \in 1..m : c.out[i] # "Cookie:"
      <4>1. \A i \in 1..m : a.out[i] # "Cookie:"
        BY <2>4, <2>8
      <4>2. /\ Len(c.out) = m + 1 /\ c.out[m + 1] = w
            /\ \A i \in 1..m : c.out[i] = a.out[i]
        <5> DEFINE longer == Append(a.out, w)
        <5>1. Len(longer) = m + 1 /\ longer[m + 1] = w /\ \A i \in 1..m : longer[i] = a.out[i]
          BY <2>7, Zenon
        <5>2. c.out = longer
          BY <3>1
        <5> HIDE DEF longer
        <5> QED BY <5>1, <5>2
      <4> QED BY <4>1, <4>2
    <3>3. w = "Cookie:" => \E i \in 1..(n + 1) : t[i] = "Cookie:"
      BY <2>1
    <3>4. \A i \in 1..(m + 1) : i \in 1..m \/ i = m + 1
      BY <2>2
    <3>5. m + 1 >= 1 /\ (m + 1) - 1 = m
      BY <2>2
    <3>6. CASE w = "Cookie:"
      <4>1. c.mode = "seek" /\ \E i \in 1..(n + 1) : t[i] = "Cookie:"
        BY <3>1, <3>3, <3>6
      <4>2. m + 1 >= 1 /\ c.out[m + 1] = "Cookie:" /\ \A i \in 1..((m + 1) - 1) : c.out[i] # "Cookie:"
        BY <3>2, <3>5, <3>6
      <4> QED BY <2>1, <3>2, <4>1, <4>2 DEF LineRedacting, c
    <3>7. CASE w # "Cookie:"
      <4>1. c.mode = "copy"
        BY <3>1, <3>7
      <4>2. \A i \in 1..(m + 1) : c.out[i] # "Cookie:"
        BY <3>2, <3>4, <3>7
      <4> QED BY <3>2, <4>1, <4>2 DEF LineRedacting, c
    <3> QED BY <3>6, <3>7
  <2>9. CASE a.mode = "seek"
    <3>1. c.out = Append(a.out, "[REDACTED]") /\ c.mode = "drop"
      BY <2>2, <2>6, <2>9 DEF LineGoes
    <3>2. /\ Len(c.out) = m + 1 /\ c.out[m + 1] = "[REDACTED]" /\ c.out[m] = "Cookie:" /\ m >= 1
          /\ \A i \in 1..(m - 1) : c.out[i] # "Cookie:"
      BY <2>2, <2>4, <2>7, <2>9, <3>1
    <3>3. m + 1 >= 2 /\ (m + 1) - 1 = m /\ (m + 1) - 2 = m - 1
      BY <2>2, <3>2
    <3>4. \E i \in 1..(n + 1) : t[i] = "Cookie:"
      BY <2>4, <2>5, <2>9
    <3> QED BY <2>1, <3>1, <3>2, <3>3, <3>4 DEF LineRedacting, c
  <2>10. CASE a.mode = "drop"
    <3>1. c = a
      BY <2>2, <2>6, <2>10 DEF LineGoes
    <3>2. \E i \in 1..(n + 1) : t[i] = "Cookie:"
      BY <2>4, <2>5, <2>10
    <3> QED BY <2>1, <2>4, <2>10, <3>1, <3>2 DEF LineRedacting, c, m
  <2> QED BY <2>2, <2>8, <2>9, <2>10 DEF LineState
<1>3. LineRedacting(s)
  <2> HIDE DEF T
  <2>1. s \in T
    BY <1>1, <1>2, InductionOnSeq
  <2> QED BY <2>1 DEF T
<1> DEFINE a == LineRun(s)
           m == Len(a.out)
<1>4. a \in LineState /\ RedactLine(s) = a.out /\ m \in Nat
  BY LineRunGoes, LenProperties DEF LineState
<1>5. /\ a.mode = "copy" => \A i \in 1..m : a.out[i] # "Cookie:"
      /\ a.mode = "seek" => /\ m >= 1 /\ a.out[m] = "Cookie:"
                            /\ \A i \in 1..(m - 1) : a.out[i] # "Cookie:"
      /\ a.mode = "drop" => /\ m >= 2 /\ a.out[m] = "[REDACTED]" /\ a.out[m - 1] = "Cookie:"
                            /\ \A i \in 1..(m - 2) : a.out[i] # "Cookie:"
  BY <1>3 DEF LineRedacting
<1> HIDE DEF a, m
<1> SUFFICES ASSUME NEW i \in 1..m, NEW j \in 1..m, i < j, a.out[i] = "Cookie:"
             PROVE  j = i + 1 /\ a.out[j] = "[REDACTED]"
  BY <1>4 DEF Ended, m
<1>6. a.mode = "drop" /\ i = m - 1
  <2>1. i \notin 1..(m - 2) \/ a.mode # "drop"
    BY <1>5
  <2>2. i \in 1..(m - 1) /\ i \in 1..m
    BY <1>4
  <2>3. a.mode \notin {"copy", "seek"}
    BY <1>5, <2>2
  <2>4. a.mode = "drop" /\ (i \in 1..(m - 2) \/ i = m - 1)
    BY <1>4, <2>2, <2>3 DEF LineState
  <2> QED BY <2>1, <2>4
<1>7. j = m /\ m = i + 1
  BY <1>4, <1>6
<1> QED BY <1>5, <1>6, <1>7

\* Redaction leaves something to read.
Says(s) == \E i \in 1..Len(s) : s[i] # LineEnd

LEMMA LineSays ==
  ASSUME NEW s \in Seq(Words), Says(s)
  PROVE  Says(RedactLine(s))
<1> DEFINE Speaks(r) == /\ Says(r) => Says(LineRun(r).out)
                        /\ LineRun(r).mode # "copy" => Says(LineRun(r).out)
           T == {r \in Seq(Words) : Speaks(r)}
<1>1. <<>> \in T
  <2>1. LineRun(<<>>) = [out |-> <<>>, mode |-> "copy"] /\ <<>> \in Seq(Words) /\ Len(<<>>) = 0
    BY LineRunGoes, EmptySeq
  <2> QED BY <2>1 DEF Says
<1>2. ASSUME NEW q \in Seq(Words), NEW v \in Words, v # LineEnd \/ Says(q)
      PROVE  Says(Append(q, v))
  <2>1. /\ Len(q) \in Nat /\ Len(Append(q, v)) = Len(q) + 1 /\ Append(q, v)[Len(q) + 1] = v
        /\ \A i \in 1..Len(q) : Append(q, v)[i] = q[i] /\ i \in 1..(Len(q) + 1)
    BY LenProperties, AppendProperties
  <2>2. Len(q) + 1 \in 1..(Len(q) + 1)
    BY <2>1
  <2> QED BY <1>2, <2>1, <2>2 DEF Says
<1>3. ASSUME NEW r \in Seq(Words), NEW w \in Words, Says(Append(r, w)), w = LineEnd
      PROVE  Says(r)
  <2>1. /\ Len(r) \in Nat /\ Len(Append(r, w)) = Len(r) + 1 /\ Append(r, w)[Len(r) + 1] = w
        /\ \A i \in 1..Len(r) : Append(r, w)[i] = r[i]
    BY LenProperties, AppendProperties
  <2>2. \A i \in 1..(Len(r) + 1) : i \in 1..Len(r) \/ i = Len(r) + 1
    BY <2>1
  <2> QED BY <1>3, <2>1, <2>2 DEF Says
<1>4. ASSUME NEW r \in Seq(Words), NEW w \in Words, r \in T PROVE Append(r, w) \in T
  <2> DEFINE a == LineRun(r)
             c == LineRun(Append(r, w))
  <2>1. /\ a \in LineState /\ LineGoes(a, w, c) /\ a.out \in Seq(Words)
        /\ "[REDACTED]" \in Words /\ "[REDACTED]" # LineEnd /\ Append(r, w) \in Seq(Words)
    BY LineRunGoes, AppendProperties, TextsAssumption DEF LineState, TextsAssumption, LineEnd
  <2>2. (Says(r) => Says(a.out)) /\ (a.mode # "copy" => Says(a.out))
    BY <1>4
  <2> HIDE DEF a, c
  <2>3. CASE w # LineEnd
    <3>1. Says(c.out)
      <4>1. CASE a.mode = "copy"
        BY <1>2, <2>1, <2>3, <4>1 DEF LineGoes
      <4>2. CASE a.mode = "seek"
        BY <1>2, <2>1, <2>3, <4>2 DEF LineGoes
      <4>3. CASE a.mode = "drop"
        BY <2>1, <2>2, <2>3, <4>3 DEF LineGoes
      <4> QED BY <2>1, <4>1, <4>2, <4>3 DEF LineState
    <3> QED BY <2>1, <3>1 DEF c
  <2>4. CASE w = LineEnd
    <3>1. c.out = Append(a.out, w) /\ (c.mode # "copy" => a.mode # "copy")
      BY <2>1, <2>4 DEF LineGoes, LineState, LineEnd
    <3>2. Says(a.out) => Says(c.out)
      BY <1>2, <2>1, <3>1
    <3>3. Says(Append(r, w)) => Says(r)
      BY <1>3, <2>4
    <3> QED BY <2>1, <2>2, <3>1, <3>2, <3>3 DEF c
  <2> QED BY <2>3, <2>4
<1>5. s \in T
  <2> HIDE DEF T
  <2> QED BY <1>1, <1>4, InductionOnSeq
<1> QED BY <1>5, LineRunGoes

\* A redacted text.
LEMMA RedactedText ==
  ASSUME NEW s \in Seq(Words)
  PROVE  /\ Redacted(s) \in Seq(Words) /\ Covered(Redacted(s))
         /\ CookieOnLastLine(s) => Ended(Redacted(s))
         /\ Says(s) => Says(Redacted(s))
<1> DEFINE x == RedactLine(s)
           out == WordRun(x).out
<1>1. x \in Seq(Words) /\ Redacted(s) = out
  BY LineRunGoes, WordRunGoes DEF LineState, Redacted
<1>2. /\ out \in Seq(Words) /\ Len(out) = Len(x)
      /\ \A i \in 1..Len(x) : out[i] \in {x[i], "[REDACTED]"}
                              /\ (out[i] = LineEnd <=> x[i] = LineEnd)
      /\ Covered(out)
  BY <1>1, WordsCovered
<1>3. (CookieOnLastLine(s) => Ended(x)) /\ (Says(s) => Says(x))
  BY LineEnded, LineSays
<1> HIDE DEF x, out
<1>4. Ended(x) => Ended(out)
  BY <1>2 DEF Ended
<1>5. Says(x) => Says(out)
  BY <1>2 DEF Says
<1> QED BY <1>1, <1>2, <1>3, <1>4, <1>5

\* A text on one line with its secrets redacted.
Plain(p) ==
  /\ Ended(p)
  /\ \A i \in 1..Len(p) : p[i] # LineEnd
  /\ \A i, j \in 1..Len(p) : j = i + 1 /\ p[i] = "session=" => p[j] = "[REDACTED]"

\* Redaction leaves it as it is.
LEMMA PlainFixed ==
  ASSUME NEW p \in Seq(Words), Plain(p)
  PROVE  Redacted(p) = p
<1> DEFINE Line(q) == LET a == LineRun(q)
                          n == Len(q)
                      IN /\ a.out = q
                         /\ a.mode = "seek" => n >= 1 /\ q[n] = "Cookie:"
                         /\ a.mode = "drop" => n >= 2 /\ q[n - 1] = "Cookie:"
           Word(q) == LET a == WordRun(q)
                          n == Len(q)
                      IN a.out = q /\ (a.seek => n >= 1 /\ q[n] = "session=")
           T == {q \in Seq(Words) : Plain(q) => Line(q) /\ Word(q)}
<1>1. <<>> \in T
  BY LineRunGoes, WordRunGoes, EmptySeq
<1>2. ASSUME NEW q \in Seq(Words), NEW w \in Words, q \in T PROVE Append(q, w) \in T
  <2> DEFINE n == Len(q)
             t == Append(q, w)
  <2> SUFFICES ASSUME Plain(t) PROVE Line(t) /\ Word(t)
    BY AppendProperties
  <2>1. t \in Seq(Words) /\ Len(t) = n + 1 /\ n \in Nat /\ t[n + 1] = w /\ \A i \in 1..n : t[i] = q[i]
    BY AppendProperties, LenProperties
  <2> DEFINE a == LineRun(q)
             b == LineRun(t)
             c == WordRun(q)
             d == WordRun(t)
  <2>2. a \in LineState /\ LineGoes(a, w, b) /\ c \in WordState /\ WordGoes(c, w, d)
    BY LineRunGoes, WordRunGoes
  <2>3. Line(q) /\ Word(q)
    <3>1. Plain(q)
      <4> HIDE DEF n, t
      <4>1. Ended(q)
        BY <2>1 DEF Plain, Ended, n
      <4>2. \A i \in 1..Len(q) : q[i] # LineEnd
        BY <2>1 DEF Plain, n
      <4>3. \A i, j \in 1..Len(q) : j = i + 1 /\ q[i] = "session=" => q[j] = "[REDACTED]"
        BY <2>1 DEF Plain, n
      <4> QED BY <4>1, <4>2, <4>3 DEF Plain
    <3> HIDE DEF Line, Word
    <3> QED BY <1>2, <3>1
  <2>4. /\ a.out = q
        /\ a.mode = "seek" => n >= 1 /\ q[n] = "Cookie:"
        /\ a.mode = "drop" => n >= 2 /\ q[n - 1] = "Cookie:"
        /\ c.out = q /\ (c.seek => n >= 1 /\ q[n] = "session=")
    BY <2>3
  <2> HIDE DEF n, a, b, c, d
  <2>5. w # LineEnd
    BY <2>1 DEF Plain
  <2>6. /\ b.out = t
        /\ b.mode = "seek" => n + 1 >= 1 /\ t[n + 1] = "Cookie:"
        /\ b.mode = "drop" => n + 1 >= 2 /\ t[n] = "Cookie:"
    <3> HIDE DEF t
    <3>1. CASE a.mode = "copy"
      <4>1. b.out = Append(a.out, w) /\ b.mode = IF w = "Cookie:" THEN "seek" ELSE "copy"
        BY <2>2, <3>1 DEF LineGoes
      <4> QED BY <2>1, <2>4, <4>1 DEF t
    <3>2. CASE a.mode = "seek"
      <4>1. b.out = Append(a.out, "[REDACTED]") /\ b.mode = "drop"
        BY <2>2, <2>5, <3>2 DEF LineGoes
      <4>2. n \in 1..(n + 1) /\ n + 1 \in 1..(n + 1) /\ n < n + 1 /\ t[n] = "Cookie:"
        BY <2>1, <2>4, <3>2
      <4>3. w = "[REDACTED]"
        BY <2>1, <4>2 DEF Plain, Ended
      <4> QED BY <2>1, <2>4, <3>2, <4>1, <4>2, <4>3 DEF t
    <3>3. CASE a.mode = "drop"
      <4>1. n - 1 \in 1..(n + 1) /\ n + 1 \in 1..(n + 1) /\ n - 1 < n + 1 /\ t[n - 1] = "Cookie:"
        BY <2>1, <2>4, <3>3
      <4>2. n + 1 = (n - 1) + 1
        BY <2>1, <4>1 DEF Plain, Ended
      <4> QED BY <2>1, <4>2
    <3> QED BY <2>2, <3>1, <3>2, <3>3 DEF LineState
  <2>7. d.out = t /\ (d.seek => n + 1 >= 1 /\ t[n + 1] = "session=")
    <3>1. CASE c.seek
      <4> HIDE DEF t
      <4>1. n \in 1..(n + 1) /\ n + 1 \in 1..(n + 1) /\ t[n] = "session="
        BY <2>1, <2>4, <3>1
      <4>2. w = "[REDACTED]"
        BY <2>1, <4>1 DEF Plain
      <4>3. d.out = Append(c.out, "[REDACTED]") /\ ~d.seek
        BY <2>2, <2>5, <3>1 DEF WordGoes
      <4> QED BY <2>4, <4>2, <4>3 DEF t
    <3>2. CASE ~c.seek
      <4>1. d.out = Append(c.out, w) /\ (d.seek => w = "session=")
        BY <2>2, <3>2 DEF WordGoes
      <4>2. d.out = t
        BY <2>4, <4>1
      <4>3. n + 1 >= 1 /\ t[n + 1] = w
        BY <2>1
      <4> HIDE DEF t
      <4> QED BY <4>1, <4>2, <4>3
    <3> QED BY <3>1, <3>2
  <2>8. (n + 1) - 1 = n
    BY <2>1
  <2> HIDE DEF t
  <2> QED BY <2>1, <2>6, <2>7, <2>8 DEF b, d
<1>3. p \in T
  <2> HIDE DEF T
  <2> QED BY <1>1, <1>2, InductionOnSeq
<1>4. LineRun(p).out = p /\ WordRun(p).out = p
  BY <1>3
<1> QED BY <1>4, LineRunGoes, WordRunGoes DEF Redacted

\* The text on one line says what it said on many, its secrets redacted where they were.
LEMMA NormalizedPlain ==
  ASSUME NEW c \in Seq(Words)
  PROVE  /\ Normalized(c) \in Seq(Words)
         /\ \A i \in 1..Len(Normalized(c)) : \E j \in 1..Len(c) : Normalized(c)[i] = c[j]
         /\ Says(c) => Normalized(c) # <<>>
         /\ Covered(c) /\ Ended(c) => Plain(Normalized(c))
<1> DEFINE \* the last word is the one before the line ends at the end
           Link(s) == LET out == Normalized(s)
                      IN IF out = <<>> THEN ~Says(s)
                         ELSE \E p \in 1..Len(s) : s[p] = out[Len(out)]
                                                   /\ \A k \in (p + 1)..Len(s) : s[k] = LineEnd
           \* a label before it is one in the text, not at its end
           Before(s) == LET out == Normalized(s)
                        IN \A i \in 1..(Len(out) - 1) :
                             out[i] = "Cookie:" => \E p \in 1..(Len(s) - 1) : s[p] = "Cookie:"
           From(s) == \A i \in 1..Len(Normalized(s)) : \E j \in 1..Len(s) : Normalized(s)[i] = s[j]
           Good(s) == /\ From(s) /\ Link(s)
                      /\ Covered(s) /\ Ended(s) => Before(s) /\ Plain(Normalized(s))
           T == {s \in Seq(Words) : Good(s)}
<1>1. <<>> \in T
  <2>1. Normalized(<<>>) = <<>> /\ <<>> \in Seq(Words) /\ Len(<<>>) = 0
    BY NormalizedGoes, EmptySeq
  <2> QED BY <2>1 DEF Says, Plain, Ended
<1>2. ASSUME NEW s \in Seq(Words), NEW w \in Words, s \in T PROVE Append(s, w) \in T
  <2> DEFINE n == Len(s)
             t == Append(s, w)
             q == Normalized(s)
             r == Normalized(t)
             m == Len(q)
  <2>1. t \in Seq(Words) /\ Len(t) = n + 1 /\ n \in Nat /\ t[n + 1] = w /\ \A i \in 1..n : t[i] = s[i]
    BY AppendProperties, LenProperties
  <2>2. q \in Seq(Words) /\ m \in Nat /\ (q # <<>> => m >= 1) /\ (q = <<>> => m = 0)
    BY NormalizedGoes, EmptySeq, LenProperties
  <2>3. r = IF w = LineEnd THEN q ELSE Append(q, w)
    BY NormalizedGoes
  <2>4. /\ \A i \in 1..m : \E j \in 1..n : q[i] = s[j]
        /\ q = <<>> => ~Says(s)
        /\ q # <<>> => \E p \in 1..n : s[p] = q[m] /\ \A k \in (p + 1)..n : s[k] = LineEnd
    BY <1>2
  <2>5. Covered(s) /\ Ended(s) =>
          /\ \A i \in 1..(m - 1) : q[i] = "Cookie:" => \E p \in 1..(n - 1) : s[p] = "Cookie:"
          /\ Plain(q)
    <3>1. Good(s)
      BY <1>2
    <3>2. Covered(s) /\ Ended(s) => Before(s) /\ Plain(q)
      <4> HIDE DEF Before, Link, From, q
      <4> QED BY <3>1 DEF q
    <3> QED BY <3>2
  <2> HIDE DEF n, t, q, r, m
  <2>6. Covered(t) /\ Ended(t) => Covered(s) /\ Ended(s)
    <3>1. \A i, j \in 1..n : i \in 1..(n + 1) /\ t[i] = s[i] /\ BehindWord(t, j, i) = BehindWord(s, j, i)
      <4>1. \A i \in 1..n : i \in 1..(n + 1)
        BY <2>1
      <4> QED BY <2>1, <4>1, BehindBefore DEF n, t
    <3> QED BY <2>1, <3>1 DEF Covered, Ended, n
  <2>7. CASE w = LineEnd
    <3>1. r = q
      BY <2>3, <2>7
    <3>2. From(t)
      BY <2>1, <2>4, <3>1 DEF m, r
    <3>3. Link(t)
      <4>1. CASE q = <<>>
        BY <2>1, <2>4, <2>7, <3>1, <4>1 DEF Says, n, r
      <4>2. CASE q # <<>>
        <5>1. PICK p \in 1..n : s[p] = q[m] /\ \A k \in (p + 1)..n : s[k] = LineEnd
          BY <2>4, <4>2
        <5>2. p \in 1..(n + 1) /\ t[p] = q[m] /\ \A k \in (p + 1)..(n + 1) : t[k] = LineEnd
          <6> HIDE DEF n, m
          <6>1. p \in 1..(n + 1) /\ t[p] = q[m]
            BY <2>1, <5>1
          <6>2. ASSUME NEW k \in (p + 1)..(n + 1) PROVE t[k] = LineEnd
            <7>1. k = n + 1 \/ (k \in (p + 1)..n /\ k \in 1..n)
              BY <2>1, <5>1
            <7> QED BY <2>1, <2>7, <5>1, <7>1
          <6> QED BY <6>1, <6>2
        <5>3. \E i \in 1..Len(t) : t[i] = q[m] /\ \A k \in (i + 1)..Len(t) : t[k] = LineEnd
          <6> HIDE DEF n, m
          <6> QED BY <2>1, <5>2
        <5> QED BY <3>1, <4>2, <5>3 DEF m, r
      <4> QED BY <4>1, <4>2
    <3>4. ASSUME Covered(t), Ended(t) PROVE Before(t) /\ Plain(r)
      <4>1. /\ \A i \in 1..(m - 1) : q[i] = "Cookie:" => \E p \in 1..(n - 1) : s[p] = "Cookie:"
            /\ Plain(q)
        BY <2>5, <2>6, <3>4
      <4>2. \A p \in 1..(n - 1) : p \in 1..((n + 1) - 1) /\ t[p] = s[p]
        BY <2>1
      <4> QED BY <2>1, <3>1, <4>1, <4>2 DEF m, r
    <3> HIDE DEF From, Link, Before
    <3> QED BY <2>1, <3>2, <3>3, <3>4 DEF r, t
  <2>8. CASE w # LineEnd
    <3>1. r = Append(q, w)
      BY <2>3, <2>8
    <3>2. Len(r) = m + 1 /\ r[m + 1] = w /\ (\A i \in 1..m : r[i] = q[i]) /\ r # <<>>
      BY <2>2, <3>1, AppendProperties DEF m
    <3>3. \A i \in 1..(m + 1) : i \in 1..m \/ i = m + 1
      BY <2>2
    <3>4. n + 1 \in 1..(n + 1) /\ \A j \in 1..n : j \in 1..(n + 1)
      BY <2>1
    <3>5. From(t)
      BY <2>1, <2>4, <3>2, <3>3, <3>4 DEF r
    <3>6. Link(t)
      <4>1. \A k \in ((n + 1) + 1)..(n + 1) : FALSE
        BY <2>1
      <4> QED BY <2>1, <3>2, <3>4, <4>1 DEF r
    <3>7. ASSUME Covered(t), Ended(t) PROVE Before(t) /\ Plain(r)
      <4>1. /\ \A i \in 1..(m - 1) : q[i] = "Cookie:" => \E p \in 1..(n - 1) : s[p] = "Cookie:"
            /\ Plain(q)
        BY <2>5, <2>6, <3>7
      \* no label is before the last word
      <4>2. ASSUME NEW p \in 1..(n - 1), s[p] = "Cookie:" PROVE FALSE
        <5>1. p \in 1..(n + 1) /\ p < n + 1 /\ t[p] = "Cookie:" /\ n + 1 # p + 1
          BY <2>1, <4>2
        <5> QED BY <2>1, <3>4, <3>7, <5>1 DEF Ended
      <4>3. \A i \in 1..(m - 1) : q[i] # "Cookie:"
        BY <4>1, <4>2
      \* the last word, if it is a label, and the next
      <4>4. ASSUME m >= 1
            PROVE  /\ q[m] = "Cookie:" => w = "[REDACTED]" /\ \E p \in 1..n : t[p] = "Cookie:"
                   /\ q[m] = "session=" => w = "[REDACTED]"
        <5>1. PICK p \in 1..n : s[p] = q[m] /\ \A k \in (p + 1)..n : s[k] = LineEnd
          BY <2>2, <2>4, <4>4
        <5>2. p \in 1..(n + 1) /\ p < n + 1 /\ t[p] = q[m]
          BY <2>1, <5>1
        <5>3. q[m] = "Cookie:" => w = "[REDACTED]"
          BY <2>1, <3>4, <3>7, <5>2 DEF Ended
        <5>4. q[m] = "session=" => BehindWord(t, p, n + 1)
          <6>1. (n + 1) - 1 = n /\ \A k \in (p + 1)..n : t[k] = LineEnd
            BY <2>1, <5>1
          <6> QED BY <2>1, <5>2, <6>1 DEF BehindWord
        <5>5. q[m] = "session=" => w = "[REDACTED]"
          BY <2>1, <2>8, <3>4, <3>7, <5>2, <5>4 DEF Covered
        <5> QED BY <5>2, <5>3, <5>5
      <4>5. Before(t)
        <5>1. ASSUME NEW i \in 1..m, r[i] = "Cookie:" PROVE \E p \in 1..n : t[p] = "Cookie:"
          <6>1. q[i] = "Cookie:" /\ (i \in 1..(m - 1) \/ i = m) /\ m >= 1
            BY <2>2, <3>2, <5>1
          <6> QED BY <4>3, <4>4, <6>1
        <5>2. (m + 1) - 1 = m /\ (n + 1) - 1 = n
          BY <2>1, <2>2
        <5> QED BY <2>1, <3>2, <5>1, <5>2 DEF r
      <4>6. Plain(r)
        <5>1. \A i \in 1..(m + 1) : r[i] # LineEnd
          BY <2>8, <3>2, <3>3, <4>1 DEF Plain, m
        <5>2. ASSUME NEW i \in 1..(m + 1), NEW j \in 1..(m + 1), i < j, r[i] = "Cookie:"
              PROVE  j = i + 1 /\ r[j] = "[REDACTED]"
          <6>1. i \in 1..m /\ q[i] = "Cookie:"
            BY <2>2, <3>2, <5>2
          <6>2. i = m
            BY <2>2, <4>3, <6>1
          <6>3. j = m + 1 /\ m >= 1
            BY <2>2, <5>2, <6>2
          <6> QED BY <3>2, <4>4, <6>1, <6>2, <6>3
        <5>3. ASSUME NEW i \in 1..(m + 1), NEW j \in 1..(m + 1), j = i + 1, r[i] = "session="
              PROVE  r[j] = "[REDACTED]"
          <6>1. i \in 1..m /\ q[i] = "session=" /\ m >= 1
            BY <2>2, <3>2, <5>3
          <6>2. CASE i = m
            BY <3>2, <4>4, <5>3, <6>1, <6>2
          <6>3. CASE i # m
            <7>1. j \in 1..m
              BY <2>2, <5>3, <6>1, <6>3
            <7> QED BY <3>2, <4>1, <5>3, <6>1, <7>1 DEF Plain, m
          <6> QED BY <6>2, <6>3
        <5> QED BY <3>2, <5>1, <5>2, <5>3 DEF Plain, Ended
      <4> QED BY <4>5, <4>6
    <3> HIDE DEF From, Link, Before
    <3> QED BY <2>1, <3>5, <3>6, <3>7 DEF r, t
  <2> QED BY <2>7, <2>8
<1>3. Good(c)
  <2> HIDE DEF T, Good
  <2>1. c \in T
    BY <1>1, <1>2, InductionOnSeq
  <2> QED BY <2>1 DEF T
<1> QED BY <1>3, NormalizedGoes

(***************************************************************************)
(* The parts of a draft                                                    *)
(***************************************************************************)
LEMMA LinesGo ==
  /\ Lines(<<>>) = << <<>> >>
  /\ \A s \in Seq(Words) :
       /\ Lines(s) \in Seq(Seq(Words)) /\ Lines(s) # <<>>
       /\ \A w \in Words :
            Lines(Append(s, w)) =
              IF w = LineEnd THEN Append(Lines(s), <<>>)
              ELSE [Lines(s) EXCEPT ![Len(Lines(s))] = Append(@, w)]
<1> DEFINE A == {lines \in Seq(Seq(Words)) : lines # <<>>}
           start == << <<>> >>
<1>1. start \in A
  <2> DEFINE none == <<>>
  <2>1. none \in Seq(Words)
    BY EmptySeq
  <2> HIDE DEF none
  <2>2. <<none>> \in Seq(Seq(Words)) /\ <<none>> # <<>>
    BY <2>1
  <2> QED BY <2>2 DEF none
<1>2. ASSUME NEW a \in A, NEW w \in Words
      PROVE  /\ SplitStep[a][w] \in A
             /\ SplitStep[a][w] = IF w = LineEnd THEN Append(a, <<>>)
                                  ELSE [a EXCEPT ![Len(a)] = Append(@, w)]
  <2>1. SplitStep[a][w] = IF w = LineEnd THEN Append(a, <<>>)
                          ELSE [a EXCEPT ![Len(a)] = Append(@, w)]
    BY DEF SplitStep
  <2>2. Append(a, <<>>) \in A
    <3> DEFINE none == <<>>
    <3>1. none \in Seq(Words) /\ a \in Seq(Seq(Words))
      BY EmptySeq
    <3> HIDE DEF none
    <3>2. Append(a, none) \in Seq(Seq(Words)) /\ Append(a, none) # <<>>
      BY <3>1, AppendProperties
    <3> QED BY <3>2 DEF none
  <2>3. [a EXCEPT ![Len(a)] = Append(@, w)] \in A
    <3>1. Len(a) \in 1..Len(a) /\ a \in Seq(Seq(Words))
      BY EmptySeq
    <3>2. a[Len(a)] \in Seq(Words)
      BY <3>1, ElementOfSeq
    <3>3. Append(a[Len(a)], w) \in Seq(Words)
      BY <3>2, AppendProperties
    <3> DEFINE e == Append(a[Len(a)], w)
               b == [a EXCEPT ![Len(a)] = e]
    <3> HIDE DEF e
    <3>4. b \in Seq(Seq(Words)) /\ Len(b) = Len(a)
      BY <3>1, <3>3, ExceptSeq DEF e
    <3>5. Len(b) \in Nat \ {0}
      BY <3>1, <3>4, EmptySeq
    <3> HIDE DEF b
    <3>6. b # <<>>
      BY <3>5, EmptySeq
    <3> QED BY <3>4, <3>6 DEF b, e
  <2> HIDE DEF A
  <2> QED BY <2>1, <2>2, <2>3
<1>3. Inside(A, Words, SplitStep)
  BY <1>2 DEF Inside
<1> HIDE DEF start
<1>4. /\ Run(SplitStep, start, <<>>) = start
      /\ \A s \in Seq(Words) :
           /\ Run(SplitStep, start, s) \in A
           /\ \A w \in Words :
                Run(SplitStep, start, Append(s, w)) = SplitStep[Run(SplitStep, start, s)][w]
  <2> HIDE DEF A
  <2> QED BY <1>1, <1>3, RunAppend
<1>5. \A s : Lines(s) = Run(SplitStep, start, s)
  BY DEF Lines, start
<1>6. \A s \in Seq(Words), w \in Words :
        Lines(Append(s, w)) = IF w = LineEnd THEN Append(Lines(s), <<>>)
                              ELSE [Lines(s) EXCEPT ![Len(Lines(s))] = Append(@, w)]
  <2> SUFFICES ASSUME NEW s \in Seq(Words), NEW w \in Words
               PROVE  Lines(Append(s, w)) =
                        IF w = LineEnd THEN Append(Lines(s), <<>>)
                        ELSE [Lines(s) EXCEPT ![Len(Lines(s))] = Append(@, w)]
    OBVIOUS
  <2> HIDE DEF A
  <2> DEFINE a == Lines(s)
  <2>1. a \in A /\ Lines(Append(s, w)) = SplitStep[a][w]
    BY <1>4, <1>5
  <2> HIDE DEF a
  <2>2. Lines(Append(s, w)) = IF w = LineEnd THEN Append(a, <<>>)
                              ELSE [a EXCEPT ![Len(a)] = Append(@, w)]
    BY <1>2, <2>1
  <2> QED BY <2>2 DEF a
<1> QED BY <1>4, <1>5, <1>6 DEF start

\* The words of l stand in c one after the other from m on, on one line.
From(l, c, m) ==
  m + Len(l) <= Len(c) /\ \A i \in 1..Len(l) : l[i] = c[m + i] /\ l[i] # LineEnd

PartsOf(c) == {l \in Seq(Words) : \E m \in Nat : From(l, c, m)}

LEMMA LinesParts ==
  ASSUME NEW c \in Seq(Words)
  PROVE  Lines(c) \in Seq(PartsOf(c))
<1> DEFINE Good(s) ==
             LET lines == Lines(s)
                 k == Len(lines)
             IN /\ \A i \in 1..k : lines[i] \in PartsOf(s)
                /\ Len(lines[k]) <= Len(s) /\ From(lines[k], s, Len(s) - Len(lines[k]))
           T == {s \in Seq(Words) : Good(s)}
<1>1. <<>> \in T
  <2> DEFINE none == <<>>
  <2>1. none \in Seq(Words) /\ Len(none) = 0
    BY EmptySeq
  <2>2. Lines(<<>>) = <<none>> /\ Len(<<none>>) = 1 /\ <<none>>[1] = none
    BY LinesGo
  <2>3. From(none, none, 0) /\ 0 \in Nat /\ 0 - 0 = 0
    BY <2>1 DEF From
  <2>4. none \in PartsOf(none)
    BY <2>1, <2>3 DEF PartsOf
  <2>5. \A i \in 1..1 : i = 1
    OBVIOUS
  <2>6. Lines(none) = <<none>>
    BY <2>2
  <2> HIDE DEF none
  <2>7. Good(none)
    BY <2>1, <2>2, <2>3, <2>4, <2>5, <2>6
  <2> QED BY <2>1, <2>7 DEF none
<1>2. ASSUME NEW s \in Seq(Words), NEW w \in Words, s \in T PROVE Append(s, w) \in T
  <2> DEFINE n == Len(s)
             t == Append(s, w)
             a == Lines(s)
             k == Len(a)
             b == Lines(t)
  <2>1. t \in Seq(Words) /\ Len(t) = n + 1 /\ n \in Nat /\ t[n + 1] = w /\ \A i \in 1..n : t[i] = s[i]
    BY AppendProperties, LenProperties
  <2>2. a \in Seq(Seq(Words)) /\ k \in Nat \ {0} /\ k \in 1..k /\ a[k] \in Seq(Words) /\ Len(a[k]) \in Nat
    <3>1. a \in Seq(Seq(Words)) /\ k \in Nat \ {0}
      BY LinesGo, EmptySeq
    <3>2. k \in 1..k
      BY <3>1
    <3>3. a[k] \in Seq(Words)
      BY <3>1, <3>2, ElementOfSeq
    <3> QED BY <3>1, <3>2, <3>3, LenProperties
  <2>3. b = IF w = LineEnd THEN Append(a, <<>>) ELSE [a EXCEPT ![k] = Append(a[k], w)]
    BY LinesGo
  <2>4. /\ \A i \in 1..k : a[i] \in PartsOf(s)
        /\ Len(a[k]) <= n /\ From(a[k], s, n - Len(a[k]))
    BY <1>2
  <2> HIDE DEF n, t, a, k, b
  <2>5. ASSUME NEW l \in PartsOf(s) PROVE l \in PartsOf(t)
    <3>1. PICK m \in Nat : From(l, s, m)
      BY DEF PartsOf
    <3>2. l \in Seq(Words) /\ Len(l) \in Nat
      BY LenProperties DEF PartsOf
    <3>3. m + Len(l) <= n /\ \A i \in 1..Len(l) : l[i] = s[m + i] /\ l[i] # LineEnd
      BY <3>1 DEF From, n
    <3>4. \A i \in 1..Len(l) : m + i \in 1..n
      BY <2>1, <3>2, <3>3
    <3>5. m + Len(l) <= n + 1
      BY <2>1, <3>2, <3>3
    <3>6. \A i \in 1..Len(l) : l[i] = t[m + i]
      BY <2>1, <3>3, <3>4
    <3>7. From(l, t, m)
      BY <2>1, <3>3, <3>5, <3>6 DEF From
    <3> QED BY <3>2, <3>7 DEF PartsOf
  <2>6. ASSUME NEW e \in Seq(Words), Len(e) <= n + 1, From(e, t, (n + 1) - Len(e)), Len(b) \in Nat \ {0},
               b[Len(b)] = e, \A i \in 1..(Len(b) - 1) : b[i] \in PartsOf(s)
        PROVE  Good(t)
    <3>1. (n + 1) - Len(e) \in Nat
      BY <2>1, <2>6, LenProperties
    <3>2. e \in PartsOf(t)
      BY <2>6, <3>1 DEF PartsOf
    <3>3. \A i \in 1..Len(b) : i \in 1..(Len(b) - 1) \/ i = Len(b)
      BY <2>6
    <3> QED BY <2>1, <2>5, <2>6, <3>2, <3>3 DEF b
  <2>7. CASE w = LineEnd
    <3> DEFINE e == <<>>
    <3>1. e \in Seq(Words) /\ Len(e) = 0
      BY EmptySeq
    <3> HIDE DEF e
    <3>2. b = Append(a, e)
      BY <2>3, <2>7 DEF e
    <3>3. Len(b) = k + 1 /\ b[k + 1] = e /\ \A i \in 1..k : b[i] = a[i]
      BY <2>2, <3>1, <3>2, AppendProperties DEF k
    <3>4. (n + 1) - Len(e) = n + 1 /\ (k + 1) - 1 = k /\ k + 1 \in Nat \ {0}
      BY <2>1, <2>2, <3>1
    <3>5. From(e, t, n + 1) /\ Len(e) <= n + 1
      BY <2>1, <3>1 DEF From
    <3>6. Good(t)
      BY <2>4, <2>6, <3>1, <3>3, <3>4, <3>5
    <3> QED BY <2>1, <3>6 DEF t
  <2>8. CASE w # LineEnd
    <3> DEFINE l == a[k]
               e == Append(l, w)
    <3>1. /\ e \in Seq(Words) /\ Len(e) = Len(l) + 1 /\ e[Len(l) + 1] = w
          /\ \A i \in 1..Len(l) : e[i] = l[i]
      BY <2>2, AppendProperties
    <3>2. Len(l) \in Nat /\ Len(l) <= n /\ From(l, s, n - Len(l))
      BY <2>2, <2>4
    <3> HIDE DEF e
    <3>3. b = [a EXCEPT ![k] = e]
      BY <2>3, <2>8 DEF e
    <3>4. Len(b) = k /\ b[k] = e /\ \A i \in 1..k : i # k => b[i] = a[i]
      BY <2>2, <3>1, <3>3, ExceptSeq DEF k
    <3> HIDE DEF l
    <3>5. From(e, t, n - Len(l))
      <4>1. \A i \in 1..Len(l) : l[i] = s[(n - Len(l)) + i] /\ l[i] # LineEnd
        BY <3>2 DEF From
      <4>2. \A i \in 1..Len(l) : (n - Len(l)) + i \in 1..n
        BY <2>1, <3>2
      <4>3. \A i \in 1..Len(l) : e[i] = t[(n - Len(l)) + i] /\ e[i] # LineEnd
        BY <2>1, <3>1, <4>1, <4>2
      <4>4. (n - Len(l)) + (Len(l) + 1) = n + 1
        BY <2>1, <3>2
      <4>5. \A i \in 1..(Len(l) + 1) : i \in 1..Len(l) \/ i = Len(l) + 1
        BY <3>2
      <4>6. \A i \in 1..(Len(l) + 1) : e[i] = t[(n - Len(l)) + i] /\ e[i] # LineEnd
        BY <2>1, <2>8, <3>1, <4>3, <4>4, <4>5
      <4>7. n + 1 <= n + 1
        BY <2>1
      <4> QED BY <2>1, <3>1, <4>4, <4>6, <4>7 DEF From
    <3>6. (n + 1) - (Len(l) + 1) = n - Len(l) /\ Len(l) + 1 <= n + 1
      BY <2>1, <3>2
    <3>7. \A i \in 1..(k - 1) : i \in 1..k /\ i # k
      BY <2>2
    <3>8. Good(t)
      BY <2>2, <2>4, <2>6, <3>1, <3>4, <3>5, <3>6, <3>7
    <3> QED BY <2>1, <3>8 DEF t
  <2> QED BY <2>7, <2>8
<1>3. Good(c)
  <2> HIDE DEF T, Good
  <2>1. c \in T
    BY <1>1, <1>2, InductionOnSeq
  <2> QED BY <2>1 DEF T
<1> DEFINE lines == Lines(c)
           n == Len(lines)
<1>4. lines \in Seq(Seq(Words)) /\ n \in Nat /\ lines \in [1..n -> Seq(Words)]
  BY LinesGo, LenProperties
<1>5. \A i \in 1..n : lines[i] \in PartsOf(c)
  BY <1>3
<1> HIDE DEF lines, n
<1>6. lines \in [1..n -> PartsOf(c)]
  BY <1>4, <1>5
<1>7. lines \in Seq(PartsOf(c))
  BY <1>4, <1>6, SeqDef
<1> QED BY <1>7 DEF lines

\* What the loop over the lines reads are parts of the text, and no step is empty.
LEMMA FieldsParts ==
  ASSUME NEW c \in Seq(Words)
  PROVE  ReadFields(c) \in [summary : PartsOf(c), steps : Seq(PartsOf(c) \ {<<>>}),
                            actual : PartsOf(c), collecting : BOOLEAN]
<1> DEFINE P == PartsOf(c)
           Q == P \ {<<>>}
           A == [summary : P, steps : Seq(Q), actual : P, collecting : BOOLEAN]
           none == <<>>
           start == [summary |-> none, steps |-> <<>>, actual |-> none, collecting |-> FALSE]
<1>1. none \in P
  <2>1. none \in Seq(Words) /\ Len(none) = 0 /\ Len(c) \in Nat
    BY EmptySeq, LenProperties
  <2>2. From(none, c, 0)
    BY <2>1 DEF From
  <2> HIDE DEF none
  <2> QED BY <2>1, <2>2 DEF PartsOf
<1>2. P \subseteq Seq(Words)
  BY DEF PartsOf
<1>3. A \subseteq Fields
  <2>1. Seq(Q) \subseteq Seq(Seq(Words))
    <3> HIDE DEF P
    <3>1. Q \subseteq Seq(Words)
      BY <1>2
    <3> HIDE DEF Q
    <3> QED BY <3>1, SeqMonotonic
  <2> HIDE DEF P, Q
  <2> QED BY <1>2, <2>1 DEF Fields
<1>4. ASSUME NEW l \in P, l # <<>> PROVE Tail(l) \in P
  <2>1. l \in Seq(Words) /\ Len(l) \in Nat
    BY LenProperties DEF PartsOf
  <2>2. PICK m \in Nat : From(l, c, m)
    BY DEF PartsOf
  <2>3. m + Len(l) <= Len(c) /\ \A i \in 1..Len(l) : l[i] = c[m + i] /\ l[i] # LineEnd
    BY <2>2 DEF From
  <2> DEFINE k == Tail(l)
  <2>4. k \in Seq(Words) /\ Len(k) = Len(l) - 1 /\ \A i \in 1..Len(k) : k[i] = l[i + 1]
    BY <1>4, <2>1, HeadTailProperties
  <2> HIDE DEF k
  <2>5. \A i \in 1..Len(k) : i + 1 \in 1..Len(l) /\ m + (i + 1) = (m + 1) + i
    BY <2>1, <2>4
  <2>6. \A i \in 1..Len(k) : k[i] = c[(m + 1) + i] /\ k[i] # LineEnd
    <3> SUFFICES ASSUME NEW i \in 1..Len(k) PROVE k[i] = c[(m + 1) + i] /\ k[i] # LineEnd
      OBVIOUS
    <3>1. k[i] = l[i + 1] /\ l[i + 1] = c[m + (i + 1)] /\ l[i + 1] # LineEnd
      BY <2>3, <2>4, <2>5
    <3> QED BY <2>5, <3>1
  <2>7. (m + 1) + Len(k) <= Len(c) /\ m + 1 \in Nat
    BY <2>1, <2>3, <2>4, LenProperties
  <2>8. From(k, c, m + 1)
    BY <2>6, <2>7 DEF From
  <2>9. k \in PartsOf(c)
    BY <2>4, <2>7, <2>8 DEF PartsOf
  <2> QED BY <2>9 DEF k
<1> HIDE DEF P
<1>5. start \in A
  <2> HIDE DEF none
  <2>1. <<>> \in Seq(Q)
    BY EmptySeq
  <2> QED BY <1>1, <2>1
<1>6. ASSUME NEW a \in A, NEW l \in P PROVE ReadLine[a][l] \in A
  <2>1. a \in Fields /\ l \in Seq(Words)
    BY <1>2, <1>3
  <2> DEFINE summary == [a EXCEPT !.summary = Tail(l), !.collecting = FALSE]
             actual == [a EXCEPT !.actual = Tail(l), !.collecting = FALSE]
             first == [a EXCEPT !.collecting = TRUE,
                                !.steps = IF Tail(l) = <<>> THEN @ ELSE <<Tail(l)>>]
             more == [a EXCEPT !.steps = Append(@, l)]
  <2>2. ReadLine[a][l] =
          IF l = <<>> THEN a
          ELSE CASE Head(l) = "summary:" -> summary
                 [] Head(l) = "actual:" -> actual
                 [] Head(l) = "steps:" -> first
                 [] Head(l) \notin Field -> IF a.collecting THEN more ELSE a
    BY <2>1 DEF ReadLine
  <2> HIDE DEF summary, actual, first, more
  <2>3. a.summary \in P /\ a.steps \in Seq(Q) /\ a.actual \in P /\ a.collecting \in BOOLEAN
    OBVIOUS
  <2>4. CASE l = <<>>
    BY <2>2, <2>4
  <2>5. CASE l # <<>> /\ Head(l) = "summary:"
    <3>1. ReadLine[a][l] = summary
      BY <2>2, <2>5 DEF Field
    <3> DEFINE k == Tail(l)
    <3>2. k \in P
      BY <1>4, <2>5
    <3>3. summary = [a EXCEPT !.summary = k, !.collecting = FALSE]
      BY DEF summary
    <3> HIDE DEF k, Q
    <3> QED BY <3>1, <3>2, <3>3
  <2>6. CASE l # <<>> /\ Head(l) = "actual:"
    <3>1. ReadLine[a][l] = actual
      BY <2>2, <2>6 DEF Field
    <3> DEFINE k == Tail(l)
    <3>2. k \in P
      BY <1>4, <2>6
    <3>3. actual = [a EXCEPT !.actual = k, !.collecting = FALSE]
      BY DEF actual
    <3> HIDE DEF k, Q
    <3> QED BY <3>1, <3>2, <3>3
  <2>7. CASE l # <<>> /\ Head(l) = "steps:"
    <3> DEFINE k == Tail(l)
               steps == IF k = <<>> THEN a.steps ELSE <<k>>
    <3>1. ReadLine[a][l] = first
      BY <2>2, <2>7 DEF Field
    <3>2. k \in P
      BY <1>4, <2>7
    <3> HIDE DEF k
    <3>3. k # <<>> => <<k>> \in Seq(Q)
      BY <3>2
    <3>4. steps \in Seq(Q)
      BY <2>3, <3>3
    <3>5. first = [a EXCEPT !.collecting = TRUE, !.steps = steps]
      BY DEF first, k
    <3> HIDE DEF steps, Q
    <3> QED BY <3>1, <3>4, <3>5
  <2>8. CASE l # <<>> /\ Head(l) \notin Field
    <3>1. ReadLine[a][l] = IF a.collecting THEN more ELSE a
      BY <2>2, <2>8 DEF Field
    <3> DEFINE steps == Append(a.steps, l)
    <3>2. steps \in Seq(Q)
      BY <2>3, <2>8, AppendProperties
    <3>3. more = [a EXCEPT !.steps = steps]
      BY DEF more
    <3> HIDE DEF steps, Q
    <3> QED BY <3>1, <3>2, <3>3
  <2> QED BY <2>4, <2>5, <2>6, <2>7, <2>8 DEF Field
<1>7. Inside(A, P, ReadLine)
  <2> HIDE DEF A
  <2> QED BY <1>6 DEF Inside
<1>8. Lines(c) \in Seq(P)
  BY LinesParts DEF P
<1>9. Run(ReadLine, start, Lines(c)) \in A
  <2> HIDE DEF A, start
  <2> QED BY <1>5, <1>7, <1>8, RunAppend
<1>10. ReadFields(c) = Run(ReadLine, start, Lines(c))
  BY DEF ReadFields
<1> HIDE DEF start
<1>11. ReadFields(c) \in A
  BY <1>9, <1>10
<1> QED BY <1>11 DEF P

\* Every part of a draft is a part of the text, the text on one line or the default step.
LEMMA DraftParts ==
  ASSUME NEW c \in Seq(Words), NEW part \in Parts(ReportFields(c))
  PROVE  \/ part \in PartsOf(c) /\ part # <<>>
         \/ part = Normalized(c)
         \/ part = <<"as described">>
<1> DEFINE read == ReadFields(c)
           default == <<"as described">>
           steps == IF read.steps = <<>> THEN <<default>> ELSE read.steps
<1>1. /\ read.summary \in PartsOf(c) /\ read.actual \in PartsOf(c)
      /\ read.steps \in Seq(PartsOf(c) \ {<<>>})
  BY FieldsParts
<1>2. \/ part = (IF read.summary = <<>> THEN Normalized(c) ELSE read.summary)
      \/ part = (IF read.actual = <<>> THEN Normalized(c) ELSE read.actual)
      \/ part \in ToSet(steps)
  BY DEF Parts, ReportFields
<1> HIDE DEF read
<1>3. CASE part \in ToSet(steps)
  <2>1. CASE read.steps = <<>>
    <3> HIDE DEF default
    <3>1. steps = <<default>>
      BY <2>1
    <3>2. ToSet(<<default>>) = {default}
      BY DEF ToSet
    <3>3. part = default
      BY <1>3, <3>1, <3>2
    <3> QED BY <3>3 DEF default
  <2>2. CASE read.steps # <<>>
    <3>1. PICK i \in 1..Len(read.steps) : part = read.steps[i]
      <4>1. DOMAIN read.steps = 1..Len(read.steps)
        BY <1>1, LenProperties
      <4> QED BY <1>3, <2>2, <4>1 DEF ToSet
    <3>2. part \in PartsOf(c) \ {<<>>}
      BY <1>1, <3>1, ElementOfSeq
    <3> QED BY <3>2
  <2> QED BY <2>1, <2>2
<1>4. CASE part \notin ToSet(steps)
  BY <1>1, <1>2, <1>4
<1> QED BY <1>3, <1>4

\* Of a redacted text whose cookies are on its last line every part is valid.
LEMMA PartsPlain ==
  ASSUME NEW c \in Seq(Words), Covered(c), Ended(c), NEW l \in PartsOf(c)
  PROVE  Plain(l)
<1>1. l \in Seq(Words) /\ Len(l) \in Nat /\ Len(c) \in Nat
  BY LenProperties DEF PartsOf
<1>2. PICK m \in Nat : From(l, c, m)
  BY DEF PartsOf
<1>3. m + Len(l) <= Len(c) /\ \A i \in 1..Len(l) : l[i] = c[m + i] /\ l[i] # LineEnd
  BY <1>2 DEF From
<1>4. \A i \in 1..Len(l) : m + i \in 1..Len(c)
  BY <1>1, <1>3
<1>5. ASSUME NEW i \in 1..Len(l), NEW j \in 1..Len(l), i < j, l[i] = "Cookie:"
      PROVE  j = i + 1 /\ l[j] = "[REDACTED]"
  <2>1. m + i < m + j /\ c[m + i] = "Cookie:" /\ m + i \in 1..Len(c) /\ m + j \in 1..Len(c)
    BY <1>3, <1>4, <1>5
  <2>2. m + j = (m + i) + 1 /\ c[m + j] = "[REDACTED]"
    BY <2>1 DEF Ended
  <2> QED BY <1>3, <2>2
<1>6. ASSUME NEW i \in 1..Len(l), NEW j \in 1..Len(l), j = i + 1, l[i] = "session="
      PROVE  l[j] = "[REDACTED]"
  <2> DEFINE p == m + i
             q == m + j
  <2>1. /\ p \in 1..Len(c) /\ q \in 1..Len(c) /\ p < q /\ c[p] = "session="
        /\ \A k \in (p + 1)..(q - 1) : FALSE
    BY <1>3, <1>4, <1>6
  <2>2. c[q] = l[j] /\ c[q] # LineEnd
    BY <1>3
  <2> HIDE DEF p, q
  <2>3. BehindWord(c, p, q)
    BY <2>1 DEF BehindWord
  <2> QED BY <2>1, <2>2, <2>3 DEF Covered
<1> QED BY <1>3, <1>5, <1>6 DEF Plain, Ended

LEMMA DraftValid ==
  ASSUME NEW text \in Texts, CookieOnLastLine(text)
  PROVE  Valid(ReportFields(Redacted(text)))
<1> DEFINE c == Redacted(text)
<1>1. text \in Seq(Words) /\ Says(text)
  BY TextsAssumption, LenProperties DEF TextsAssumption, Says
<1>2. c \in Seq(Words) /\ Covered(c) /\ Ended(c) /\ Says(c)
  BY <1>1, RedactedText
<1> HIDE DEF c
<1> SUFFICES ASSUME NEW part \in Parts(ReportFields(c))
             PROVE  part # <<>> /\ Redacted(part) = part
  BY DEF Valid, c
<1>3. CASE part \in PartsOf(c) /\ part # <<>>
  <2>1. Plain(part) /\ part \in Seq(Words)
    BY <1>2, <1>3, PartsPlain DEF PartsOf
  <2> QED BY <1>3, <2>1, PlainFixed
<1>4. CASE part = Normalized(c)
  <2>1. part \in Seq(Words) /\ part # <<>> /\ Plain(part)
    BY <1>2, <1>4, NormalizedPlain
  <2> QED BY <2>1, PlainFixed
<1>5. CASE part = <<"as described">>
  <2>1. "as described" \in Words /\ "as described" # LineEnd
    BY TextsAssumption DEF TextsAssumption, LineEnd
  <2>2. part \in Seq(Words) /\ Len(part) = 1 /\ part[1] = "as described" /\ part # <<>>
    <3>1. ASSUME NEW w \in Words
          PROVE  <<w>> \in Seq(Words) /\ Len(<<w>>) = 1 /\ <<w>>[1] = w /\ <<w>> # <<>>
      OBVIOUS
    <3> QED BY <1>5, <2>1, <3>1
  <2>3. \A i \in 1..1 : i = 1
    OBVIOUS
  <2>4. Plain(part)
    BY <2>1, <2>2, <2>3 DEF Plain, Ended
  <2> QED BY <2>2, <2>4, PlainFixed
<1> QED BY <1>2, <1>3, <1>4, <1>5, DraftParts

LEMMA DraftHasNoSecret ==
  ASSUME NEW text \in Texts, NEW part \in Parts(ReportFields(Redacted(text)))
  PROVE  "secret" \notin ToSet(part)
<1> DEFINE c == Redacted(text)
<1>1. c \in Seq(Words) /\ "secret" \notin ToSet(c) /\ part \in Parts(ReportFields(c))
  BY SecretsRedacted
<1> HIDE DEF c
<1>2. \A j \in 1..Len(c) : c[j] # "secret"
  BY <1>1, LenProperties DEF ToSet
<1>3. CASE part \in PartsOf(c)
  <2>1. part \in Seq(Words) /\ DOMAIN part = 1..Len(part) /\ Len(part) \in Nat /\ Len(c) \in Nat
    BY <1>1, <1>3, LenProperties DEF PartsOf
  <2>2. PICK m \in Nat : From(part, c, m)
    BY <1>3 DEF PartsOf
  <2>3. m + Len(part) <= Len(c) /\ \A i \in 1..Len(part) : part[i] = c[m + i]
    BY <2>2 DEF From
  <2>4. \A i \in 1..Len(part) : m + i \in 1..Len(c)
    BY <2>1, <2>3
  <2> QED BY <1>2, <2>1, <2>3, <2>4 DEF ToSet
<1>4. CASE part = Normalized(c)
  <2>1. part \in Seq(Words) /\ \A i \in 1..Len(part) : \E j \in 1..Len(c) : part[i] = c[j]
    BY <1>1, <1>4, NormalizedPlain
  <2>2. DOMAIN part = 1..Len(part)
    BY <2>1, LenProperties
  <2> QED BY <1>2, <2>1, <2>2 DEF ToSet
<1>5. CASE part = <<"as described">>
  <2>1. ASSUME NEW w PROVE ToSet(<<w>>) = {w}
    BY DEF ToSet
  <2>2. ToSet(part) = {"as described"}
    BY <1>5, <2>1
  <2> QED BY <2>2
<1> QED BY <1>1, <1>3, <1>4, <1>5, DraftParts

(***************************************************************************)
(* The drafts                                                              *)
(***************************************************************************)
\* The rows are drafts of texts, made as they would be again.
Origins ==
  \A key \in DOMAIN reports :
    \E reporter \in Callers, text \in Texts :
      /\ Accepts(text)
      /\ key = Key(reporter, Redacted(text))
      /\ reports[key] = ReportFields(Redacted(text))

\* A row that is there stays, and the one of the key is there.
LEMMA KeptRows ==
  ASSUME NEW reporter, NEW text, NEW draft
  PROVE  LET rows == Kept(reporter, text, draft)
         IN /\ DOMAIN rows = DOMAIN reports \cup {Key(reporter, text)}
            /\ \A key \in DOMAIN reports : rows[key] = reports[key]
            /\ Key(reporter, text) \notin DOMAIN reports => rows[Key(reporter, text)] = draft
<1> DEFINE key == Key(reporter, text)
<1> HIDE DEF key
<1>1. Kept(reporter, text, draft) =
        [k \in DOMAIN reports \cup {key} |-> IF k \in DOMAIN reports THEN reports[k] ELSE draft]
  BY DEF Kept, key
<1> QED BY <1>1 DEF key

LEMMA OriginsStep == Origins /\ [SupportNext]_supportVars => Origins'
<1> SUFFICES ASSUME Origins, [SupportNext]_supportVars PROVE Origins'
  OBVIOUS
<1>1. CASE reports' = reports
  BY <1>1 DEF Origins
<1>2. ASSUME NEW reporter \in Callers, NEW text \in Texts, Accepts(text),
             reports' = Kept(reporter, Redacted(text), ReportFields(Redacted(text)))
      PROVE  Origins'
  <2> DEFINE clean == Redacted(text)
             draft == ReportFields(clean)
             own == Key(reporter, clean)
  <2>1. /\ DOMAIN reports' = DOMAIN reports \cup {own}
        /\ \A key \in DOMAIN reports : reports'[key] = reports[key]
        /\ own \notin DOMAIN reports => reports'[own] = draft
    BY <1>2, KeptRows
  <2> SUFFICES ASSUME NEW key \in DOMAIN reports'
               PROVE  \E r \in Callers, u \in Texts :
                        /\ Accepts(u) /\ key = Key(r, Redacted(u))
                        /\ reports'[key] = ReportFields(Redacted(u))
    BY DEF Origins
  <2>2. CASE key \in DOMAIN reports
    BY <2>1, <2>2 DEF Origins
  <2>3. CASE key \notin DOMAIN reports
    <3>1. key = own /\ reports'[key] = draft
      BY <2>1, <2>3
    <3> QED BY <1>2, <3>1
  <2> QED BY <2>2, <2>3
<1>3. \/ reports' = reports
      \/ \E reporter \in Callers, text \in Texts :
           /\ Accepts(text)
           /\ reports' = Kept(reporter, Redacted(text), ReportFields(Redacted(text)))
  <2>1. CASE SupportElapse \/ UNCHANGED supportVars
    BY <2>1 DEF SupportElapse, supportVars
  <2>2. ASSUME NEW reporter \in Callers, TooMany(reporter) PROVE reports' = reports
    BY <2>2 DEF TooMany
  <2>3. ASSUME NEW reporter \in Callers, NEW text \in Texts, RefuseText(reporter, text)
        PROVE  reports' = reports
    BY <2>3 DEF RefuseText
  <2>4. ASSUME NEW reporter \in Callers, NEW text \in Texts,
               Draft(reporter, text) \/ FailDraft(reporter, text)
        PROVE  /\ Accepts(text)
               /\ \/ reports' = reports
                  \/ reports' = Kept(reporter, Redacted(text), ReportFields(Redacted(text)))
    BY <2>4 DEF Draft, FailDraft
  <2> QED BY <2>1, <2>2, <2>3, <2>4 DEF SupportNext
<1> QED BY <1>1, <1>2, <1>3

LEMMA OriginsInit == SupportInit => Origins
BY DEF SupportInit, Origins

\* Whoever else reports what, and however often a call is tried again, what a player was
\* shown as the draft is the draft on record (get_or_save,
\* postgres_support_report_repository.py:18-73).
THEOREM DraftsAreKept == SupportSpec => []AnsweredDraftsKept
<1>1. SupportInit => AnsweredDraftsKept
  BY DEF SupportInit, AnsweredDraftsKept
<1>2. AnsweredDraftsKept /\ [SupportNext]_supportVars => AnsweredDraftsKept'
  <2> SUFFICES ASSUME AnsweredDraftsKept, [SupportNext]_supportVars PROVE AnsweredDraftsKept'
    OBVIOUS
  <2>1. CASE SupportElapse \/ UNCHANGED supportVars
    BY <2>1 DEF SupportElapse, supportVars, AnsweredDraftsKept
  <2>2. ASSUME NEW reporter \in Callers, TooMany(reporter) PROVE AnsweredDraftsKept'
    BY <2>2 DEF TooMany, AnsweredDraftsKept
  <2>3. ASSUME NEW reporter \in Callers, NEW text \in Texts, RefuseText(reporter, text)
        PROVE  AnsweredDraftsKept'
    BY <2>3 DEF RefuseText, AnsweredDraftsKept
  <2>4. ASSUME NEW reporter \in Callers, NEW text \in Texts,
               Draft(reporter, text) \/ FailDraft(reporter, text)
        PROVE  AnsweredDraftsKept'
    <3> DEFINE clean == Redacted(text)
               draft == ReportFields(clean)
               own == Key(reporter, clean)
    <3>1. \/ reports' = reports
          \/ /\ DOMAIN reports' = DOMAIN reports \cup {own}
             /\ \A key \in DOMAIN reports : reports'[key] = reports[key]
      BY <2>4, KeptRows DEF Draft, FailDraft
    <3>2. \A key \in DOMAIN reports : key \in DOMAIN reports' /\ reports'[key] = reports[key]
      BY <3>1
    <3>3. own[1] = reporter
      BY DEF Key
    <3>4. ASSUME NEW a \in answered', a \notin answered
          PROVE  own \in DOMAIN reports' /\ a = <<reporter, draft>> /\ reports'[own] = draft
      <4>1. Draft(reporter, text)
        BY <2>4, <3>4 DEF FailDraft
      <4>2. /\ a = <<reporter, draft>> /\ Kept(reporter, clean, draft)[own] = draft
            /\ reports' = Kept(reporter, clean, draft)
        BY <3>4, <4>1 DEF Draft
      <4>3. own \in DOMAIN Kept(reporter, clean, draft)
        BY KeptRows
      <4> HIDE DEF own, draft, clean
      <4> QED BY <4>2, <4>3
    <3> SUFFICES ASSUME NEW a \in answered'
                 PROVE  \E key \in DOMAIN reports' : key[1] = a[1] /\ reports'[key] = a[2]
      BY DEF AnsweredDraftsKept
    <3>5. CASE a \in answered
      BY <3>2, <3>5 DEF AnsweredDraftsKept
    <3>6. CASE a \notin answered
      BY <3>3, <3>4, <3>6
    <3> QED BY <3>5, <3>6
  <2> QED BY <2>1, <2>2, <2>3, <2>4 DEF SupportNext
<1> QED BY <1>1, <1>2, PTL DEF SupportSpec

\* Of every description in which the secrets have their labels, however its lines are laid
\* out, no secret reaches the table, and every row would pass its validation again
\* (support_agent.py:298-304, 397-401).
THEOREM SecretsAreNotKept == SupportSpec => []NoSecretKept
<1>1. Origins => NoSecretKept
  BY DraftHasNoSecret DEF Origins, NoSecretKept, Accepts
<1> QED BY <1>1, OriginsInit, OriginsStep, PTL DEF SupportSpec

\* Whatever the texts, a draft is refused only for what is said in it: an instruction, a
\* cookie that is not on the last line, or the words of an earlier report of the same
\* player on other lines (support_agent.py:214, 344-350, 400).
THEOREM RefusalsAreExplained == SupportSpec => []RefusalsExplained
<1>1. SupportInit => RefusalsExplained
  BY DEF SupportInit, RefusalsExplained
<1>2. Origins /\ RefusalsExplained /\ [SupportNext]_supportVars => RefusalsExplained'
  <2> SUFFICES ASSUME Origins, RefusalsExplained, [SupportNext]_supportVars
               PROVE  RefusalsExplained'
    OBVIOUS
  <2>1. CASE SupportElapse \/ UNCHANGED supportVars
    BY <2>1 DEF SupportElapse, supportVars, RefusalsExplained
  <2>2. CASE refused' = None
    BY <2>2 DEF RefusalsExplained
  <2>3. ASSUME NEW reporter \in Callers, NEW text \in Texts, RefuseText(reporter, text)
        PROVE  RefusalsExplained'
    <3>1. ~Accepts(text) /\ refused' = [reporter |-> reporter, text |-> text,
                                        code |-> "REQUEST_VALIDATION_FAILED"]
      BY <2>3 DEF RefuseText
    <3>2. Unsafe(text) \/ ~CookieOnLastLine(text)
      BY <3>1, DraftValid DEF Accepts
    <3>3. /\ refused'.code = "REQUEST_VALIDATION_FAILED"
          /\ \/ Unsafe(refused'.text)
             \/ \E i, j \in 1..Len(refused'.text) :
                  i < j /\ refused'.text[i] = "Cookie:" /\ refused'.text[j] = LineEnd
      BY <3>1, <3>2 DEF CookieOnLastLine
    <3> QED BY <3>3 DEF RefusalsExplained
  <2>4. ASSUME NEW reporter \in Callers, NEW text \in Texts, Draft(reporter, text),
               refused' # None
        PROVE  RefusalsExplained'
    <3> DEFINE clean == Redacted(text)
               draft == ReportFields(clean)
               own == Key(reporter, clean)
               rows == Kept(reporter, clean, draft)
    <3>1. /\ reports' = rows /\ rows[own] # draft
          /\ refused' = [reporter |-> reporter, text |-> text, code |-> "SUPPORT_REPORT_CONFLICT"]
      BY <2>4 DEF Draft
    <3>2. own \in DOMAIN reports /\ reports'[own] = reports[own] /\ own \in DOMAIN reports'
      <4>1. /\ DOMAIN rows = DOMAIN reports \cup {own}
            /\ \A key \in DOMAIN reports : rows[key] = reports[key]
            /\ own \notin DOMAIN reports => rows[own] = draft
        BY KeptRows
      <4> HIDE DEF own, draft, rows
      <4> QED BY <3>1, <4>1
    <3>3. PICK r \in Callers, u \in Texts : /\ own = Key(r, Redacted(u))
                                            /\ reports[own] = ReportFields(Redacted(u))
      BY <3>2 DEF Origins
    <3>4. Normalized(Redacted(u)) = Normalized(clean) /\ own[1] = reporter
      BY <3>3 DEF Key
    <3>5. Lines(Redacted(u)) # Lines(clean)
      <4> SUFFICES ASSUME Lines(Redacted(u)) = Lines(clean) PROVE FALSE
        OBVIOUS
      <4>1. ReadFields(Redacted(u)) = ReadFields(clean)
        BY DEF ReadFields
      <4>2. ReportFields(Redacted(u)) = ReportFields(clean)
        BY <3>4, <4>1 DEF ReportFields
      <4> QED BY <3>1, <3>2, <3>3, <4>2
    <3>6. refused'.code = "SUPPORT_REPORT_CONFLICT" /\ refused'.text = text
          /\ refused'.reporter = reporter
      BY <3>1
    <3> QED BY <3>2, <3>3, <3>4, <3>5, <3>6 DEF RefusalsExplained
  <2> QED BY <2>1, <2>2, <2>3, <2>4 DEF SupportNext, TooMany, FailDraft
<1> QED BY <1>1, <1>2, OriginsInit, OriginsStep, PTL DEF SupportSpec

=============================================================================
