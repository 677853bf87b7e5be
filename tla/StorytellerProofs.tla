-------------------------- MODULE StorytellerProofs --------------------------
(***************************************************************************)
(* What the model's answers become: texts that fit and speak of every      *)
(* player, and a story that keeps step with the rounds, however the calls  *)
(* fail or are cut off: an implementation of Chronicle.  That a round ends *)
(* at all is left to TLC.                                                  *)
(***************************************************************************)
EXTENDS Storyteller, Recursions, SequenceTheorems, TLAPS

(***************************************************************************)
(* Texts                                                                   *)
(***************************************************************************)
\* The text fits the limit, but for one mark behind it.
Fits(text) ==
  /\ text # <<>>
  /\ Len(text) <= NarrativeLimit \/ (Len(text) = NarrativeLimit + 1 /\ Last(text) = ".")

\* A text that was cut fits.
LEMMA CompactedFits ==
  ASSUME NEW text \in Text, text # <<>>
  PROVE  Compacted(text, NarrativeLimit) \in Text /\ Fits(Compacted(text, NarrativeLimit))
<1> DEFINE limit == NarrativeLimit
           marks == {i \in 1..Len(text) : i <= limit + 1 /\ text[i] = "." /\ i - 1 >= limit \div 2}
<1>1. limit \in Nat \ {0} /\ "..." \in Words
  BY StorytellerAssumption
<1>2. Len(text) \in Nat \ {0} /\ \A i \in 1..Len(text) : text[i] \in Words
  BY EmptySeq, ElementOfSeq DEF Text
<1>3. CASE Len(text) <= limit
  BY <1>3 DEF Compacted, Fits
<1>4. CASE ~(Len(text) <= limit) /\ marks # {}
  <2>1. Max(marks) \in marks
    <3>1. \A s \in SUBSET (1..Len(text)) : s # {} => Max(s) \in s
      BY <1>2, Positions
    <3>2. marks \in SUBSET (1..Len(text))
      OBVIOUS
    <3> HIDE DEF marks
    <3> QED BY <1>4, <3>1, <3>2
  <2>2. PICK m \in 1..Len(text) : m = Max(marks) /\ m <= limit + 1 /\ text[m] = "."
    BY <2>1
  <2>3. Compacted(text, NarrativeLimit) = SubSeq(text, 1, m)
    BY <1>4, <2>2 DEF Compacted
  <2>4. /\ SubSeq(text, 1, m) \in Text /\ Len(SubSeq(text, 1, m)) = m
        /\ SubSeq(text, 1, m)[m] = text[m]
    <3>1. \A i \in 1..m : text[i] \in Words
      BY <1>2
    <3>2. m \in Int /\ 1 <= m /\ m - 1 + 1 = m /\ 1 + m - 1 = m
      OBVIOUS
    <3> QED BY <3>1, <3>2, SubSeqProperties DEF Text
  <2>5. SubSeq(text, 1, m) # <<>>
    BY <2>4
  <2> QED BY <1>1, <2>2, <2>3, <2>4, <2>5 DEF Fits, Last
<1>5. CASE ~(Len(text) <= limit) /\ marks = {}
  <2>1. Compacted(text, NarrativeLimit) = Append(SubSeq(text, 1, limit - 1), "...")
    BY <1>5 DEF Compacted
  <2>2. SubSeq(text, 1, limit - 1) \in Text /\ Len(SubSeq(text, 1, limit - 1)) = limit - 1
    <3>1. \A i \in 1..(limit - 1) : text[i] \in Words
      BY <1>1, <1>2, <1>5
    <3>2. limit - 1 \in Int
      BY <1>1
    <3> QED BY <1>1, <3>1, <3>2, SubSeqProperties DEF Text
  <2>3. /\ Append(SubSeq(text, 1, limit - 1), "...") \in Text
        /\ Append(SubSeq(text, 1, limit - 1), "...") # <<>>
        /\ Len(Append(SubSeq(text, 1, limit - 1), "...")) = limit
    BY <1>1, <2>2, AppendProperties DEF Text
  <2> QED BY <1>1, <2>1, <2>3 DEF Fits
<1> QED BY <1>3, <1>4, <1>5

\* So does what is left of it behind the opening.
LEMMA ContinuedFits ==
  ASSUME NEW text \in Text, Fits(text)
  PROVE  Continued(text) \in Text /\ Fits(Continued(text))
<1> DEFINE n == Len(text)
           k == Len(Opening)
<1>1. /\ n \in Nat \ {0} /\ k \in Nat /\ NarrativeLimit \in Nat
      /\ \A i \in 1..n : text[i] \in Words
  BY StorytellerAssumption, EmptySeq, ElementOfSeq, LenProperties DEF Text, Fits
<1>2. CASE ~(IsPrefix(Opening, text) /\ text # Opening)
  BY <1>2 DEF Continued
<1>3. CASE IsPrefix(Opening, text) /\ text # Opening
  <2>1. Continued(text) = SubSeq(text, k + 1, n)
    BY <1>3 DEF Continued
  <2>2. k < n
    <3>1. k <= n /\ SubSeq(Opening, 1, k) = SubSeq(text, 1, k)
      BY <1>3 DEF IsPrefix
    <3>2. SubSeq(Opening, 1, k) = Opening /\ SubSeq(text, 1, n) = text
      BY StorytellerAssumption, SubSeqFull DEF Text
    <3>3. k # n
      BY <1>3, <3>1, <3>2
    <3> QED BY <1>1, <3>1, <3>3
  <2>3. /\ SubSeq(text, k + 1, n) \in Text /\ Len(SubSeq(text, k + 1, n)) = n - k
        /\ SubSeq(text, k + 1, n)[n - k] = text[n]
    <3>1. \A i \in (k + 1)..n : text[i] \in Words
      BY <1>1
    <3>2. k + 1 \in Int /\ n \in Int /\ k + 1 <= n /\ n - (k + 1) + 1 = n - k /\ n - k \in 1..(n - k)
          /\ (k + 1) + (n - k) - 1 = n
      BY <1>1, <2>2
    <3> HIDE DEF n, k
    <3>3. /\ SubSeq(text, k + 1, n) \in Seq(Words)
          /\ Len(SubSeq(text, k + 1, n)) = n - (k + 1) + 1
          /\ \A i \in 1..(n - (k + 1) + 1) : SubSeq(text, k + 1, n)[i] = text[(k + 1) + i - 1]
      BY <3>1, <3>2, SubSeqProperties
    <3> QED BY <3>2, <3>3 DEF Text
  <2>4. SubSeq(text, k + 1, n) # <<>>
    <3>1. Len(SubSeq(text, k + 1, n)) # 0
      BY <1>1, <2>2, <2>3
    <3>2. \A s : Len(s) # 0 => s # <<>>
      BY EmptySeq
    <3> QED BY <3>1, <3>2
  <2>5. CASE n <= NarrativeLimit
    BY <1>1, <2>1, <2>3, <2>4, <2>5 DEF Fits
  <2>6. CASE n = NarrativeLimit + 1 /\ text[n] = "."
    <3>1. Len(Continued(text)) = n - k /\ Continued(text)[n - k] = "."
      BY <2>1, <2>3, <2>6
    <3>2. n - k <= NarrativeLimit \/ n - k = NarrativeLimit + 1
      BY <1>1, <2>6
    <3> QED BY <2>1, <2>3, <2>4, <3>1, <3>2 DEF Fits, Last
  <2> QED BY <2>5, <2>6 DEF Fits, Last
<1> QED BY <1>2, <1>3

\* What a text has within it, it says.
LEMMA WithinSays ==
  ASSUME NEW part \in Text, NEW text \in Text, Within(part, text)
  PROVE  ToSet(part) \subseteq ToSet(text)
<1> DEFINE n == Len(text)
           k == Len(part)
<1>1. n \in Nat /\ k \in Nat /\ DOMAIN text = 1..n /\ DOMAIN part = 1..k
  BY LenProperties DEF Text
<1>2. PICK i \in 1..(n - k + 1) : SubSeq(text, i, i + k - 1) = part
  BY DEF Within
<1>3. ASSUME NEW j \in 1..k PROVE part[j] = text[i + j - 1] /\ i + j - 1 \in 1..n
  <2>1. \A m \in i..(i + k - 1) : text[m] \in Words
    <3>1. \A m \in 1..n : text[m] \in Words
      BY ElementOfSeq DEF Text
    <3> QED BY <1>1, <3>1
  <2>2. i \in Int /\ i + k - 1 \in Int /\ j \in 1..((i + k - 1) - i + 1) /\ i + j - 1 \in 1..n
    BY <1>1
  <2> HIDE DEF n, k
  <2>3. \A m \in 1..((i + k - 1) - i + 1) : SubSeq(text, i, i + k - 1)[m] = text[i + m - 1]
    BY <2>1, <2>2, SubSeqProperties
  <2> QED BY <1>2, <2>2, <2>3
<1> QED BY <1>1, <1>3 DEF ToSet

\* An element more in the sequence is one more in its set.
LEMMA AppendedSet ==
  ASSUME NEW S, NEW s \in Seq(S), NEW e \in S
  PROVE  ToSet(Append(s, e)) = ToSet(s) \cup {e}
<1>1. Len(s) \in Nat /\ DOMAIN s = 1..Len(s)
  BY LenProperties
<1>2. /\ Append(s, e) \in Seq(S) /\ Len(Append(s, e)) = Len(s) + 1
      /\ \A i \in 1..Len(s) : Append(s, e)[i] = s[i]
      /\ Append(s, e)[Len(s) + 1] = e
  BY AppendProperties
<1>3. DOMAIN Append(s, e) = 1..(Len(s) + 1)
  BY <1>2, LenProperties
<1> QED BY <1>1, <1>2, <1>3 DEF ToSet

(***************************************************************************)
(* The narrative of a round                                                *)
(***************************************************************************)
\* The lines of an answer: the narrative first, and each player finds what came of his
\* action, in a line of his own or because the narrative says it.
LEMMA ComposedTells ==
  ASSUME NEW answer \in Answers, answer.narrative # <<>>, TellsAll(answer.consequences)
  PROVE  /\ Composed(answer) \in Seq(Text) /\ Composed(answer) # <<>>
         /\ Fits(Head(Composed(answer)))
         /\ \A p \in ToSet(Expected) : \E line \in ToSet(Composed(answer)) : p \in ToSet(line)
<1> DEFINE narrative == Continued(Compacted(answer.narrative, NarrativeLimit))
           candidates == [i \in DOMAIN Expected |-> Says(answer, Expected[i])] \o << <<"next scene">> >>
           m == Len(Expected)
           n == Len(candidates)
           After(lines, part) == IF Within(part, narrative) THEN lines ELSE Append(lines, part)
           A == {lines \in Seq(Text) : lines # <<>> /\ Head(lines) = narrative}
<1>1. narrative \in Text /\ Fits(narrative)
  <2>1. answer.narrative \in Text
    BY StorytellerAssumption DEF Text
  <2> QED BY <2>1, CompactedFits, ContinuedFits
<1>2. m \in 1..5 /\ DOMAIN Expected = 1..m
  BY StorytellerAssumption, LenProperties
<1>3. ASSUME NEW i \in 1..m
      PROVE  Says(answer, Expected[i]) \in Text /\ Expected[i] \in ToSet(Says(answer, Expected[i]))
  <2> DEFINE c == answer.consequences
             p == Expected[i]
             j == CHOOSE j \in DOMAIN c : c[j].player = p
  <2>1. c \in Seq([player : Words, says : Seq(Words)])
    BY StorytellerAssumption
  <2>2. \E k \in DOMAIN c : c[k].player = p
    BY <1>2, <1>3 DEF TellsAll, ToSet
  <2>3. j \in DOMAIN c /\ c[j].player = p
    BY <2>2
  <2>4. Says(answer, Expected[i]) = c[j].says
    BY DEF Says
  <2> HIDE DEF j
  <2>5. c[j].says # <<>>
    BY <2>3 DEF TellsAll
  <2>6. c[j].player \in ToSet(c[j].says)
    BY <2>3, <2>5, StorytellerAssumption
  <2>7. c[j] \in [player : Words, says : Seq(Words)]
    BY <2>1, <2>3, ElementOfSeq, LenProperties
  <2> QED BY <2>3, <2>4, <2>6, <2>7 DEF Text
<1>4. /\ n = m + 1 /\ \A i \in 1..n : candidates[i] \in Text
      /\ \A i \in 1..m : candidates[i] = Says(answer, Expected[i])
      /\ DOMAIN candidates = 1..n
  <2> DEFINE s == [i \in 1..m |-> Says(answer, Expected[i])]
             t == << <<"next scene">> >>
  <2>1. s \in Seq(Text) /\ Len(s) = m /\ \A i \in 1..m : s[i] = Says(answer, Expected[i])
    <3>1. \A i \in 1..m : s[i] = Says(answer, Expected[i]) /\ s[i] \in Text
      BY <1>3
    <3>2. s \in [1..m -> Text] /\ m \in Nat
      BY <1>2, <3>1
    <3>3. s \in Seq(Text)
      BY <3>2, SeqDef
    <3>4. DOMAIN s = 1..m /\ Len(s) \in Nat /\ DOMAIN s = 1..Len(s)
      BY <3>3, LenProperties
    <3> QED BY <1>2, <3>1, <3>3, <3>4
  <2>2. t \in Seq(Text) /\ Len(t) = 1
    <3>1. <<"next scene">> \in Text
      <4>1. "next scene" \in Words
        BY StorytellerAssumption
      <4>2. \A word \in Words : <<word>> \in Seq(Words)
        OBVIOUS
      <4> QED BY <4>1, <4>2 DEF Text
    <3> DEFINE w == <<"next scene">>
    <3> HIDE DEF w
    <3>2. w \in Text => <<w>> \in Seq(Text) /\ Len(<<w>>) = 1
      OBVIOUS
    <3> QED BY <3>1, <3>2 DEF w
  <2>3. candidates = s \o t
    BY <1>2
  <2> HIDE DEF s, t, candidates
  <2>4. /\ s \o t \in Seq(Text) /\ Len(s \o t) = Len(s) + Len(t)
        /\ \A i \in 1..(Len(s) + Len(t)) : (s \o t)[i] = IF i <= Len(s) THEN s[i] ELSE t[i - Len(s)]
    BY <2>1, <2>2, ConcatProperties
  <2>5. n = m + 1 /\ DOMAIN candidates = 1..n /\ \A i \in 1..n : candidates[i] \in Text
    BY <2>1, <2>2, <2>3, <2>4, LenProperties, ElementOfSeq
  <2>6. \A i \in 1..m : candidates[i] = s[i]
    BY <1>2, <2>1, <2>2, <2>3, <2>4
  <2> QED BY <2>1, <2>5, <2>6
<1> DEFINE Solves(g) ==
             g = [s \in SUBSET (1..n) |-> IF s = {} THEN <<narrative>>
                                          ELSE After(g[s \ {Max(s)}], candidates[Max(s)])]
           lines == CHOOSE g : Solves(g)
<1>5. Composed(answer) = lines[1..n]
  BY <1>4 DEF Composed, FoldLeft, MapThenFoldSet
<1> HIDE DEF narrative, candidates, n
<1>6. n \in Nat /\ n = m + 1
  BY <1>2, <1>4
<1>7. <<narrative>> \in A
  BY <1>1
<1>8. \A a \in A, i \in 1..n : After(a, candidates[i]) \in A
  <2> SUFFICES ASSUME NEW a \in A, NEW i \in 1..n PROVE Append(a, candidates[i]) \in A
    OBVIOUS
  <2>1. a \in Seq(Text) /\ candidates[i] \in Text
    BY <1>4
  <2>2. Append(a, candidates[i]) \in Seq(Text) /\ Append(a, candidates[i]) # <<>>
    BY <2>1, AppendProperties
  <2>3. Head(Append(a, candidates[i])) = Head(a)
    BY <2>1, HeadTailAppend
  <2> QED BY <2>2, <2>3
<1>9. \E g : Solves(g)
  <2> DEFINE step == [x \in A \X (1..n) |-> After(x[1], candidates[x[2]])]
  <2>1. step \in [A \X (1..n) -> A]
    BY <1>8
  <2> HIDE DEF A
  <2>2. PICK g \in [SUBSET (1..n) -> A] :
          g = [s \in SUBSET (1..n) |-> IF s = {} THEN <<narrative>> ELSE step[<<g[s \ {Max(s)}], Max(s)>>]]
    <3> DEFINE base == <<narrative>>
    <3> HIDE DEF step, base
    <3>1. base \in A
      BY <1>7 DEF base
    <3>2. \E g \in [SUBSET (1..n) -> A] : IsFold(n, base, step, g)
      BY <1>6, <2>1, <3>1, SomeFold
    <3> QED BY <3>2 DEF IsFold, base
  <2>3. \A s \in SUBSET (1..n) : s # {} =>
          step[<<g[s \ {Max(s)}], Max(s)>>] = After(g[s \ {Max(s)}], candidates[Max(s)])
    <3>1. \A s \in SUBSET (1..n) : s # {} => Max(s) \in 1..n
      BY <1>6, Positions
    <3>2. \A s \in SUBSET (1..n) : s # {} => <<g[s \ {Max(s)}], Max(s)>> \in A \X (1..n)
      BY <3>1
    <3> QED BY <3>2
  <2>4. Solves(g)
    <3> DEFINE h == [s \in SUBSET (1..n) |-> IF s = {} THEN <<narrative>>
                                             ELSE After(g[s \ {Max(s)}], candidates[Max(s)])]
    <3> HIDE DEF After, step
    <3>1. \A s \in SUBSET (1..n) : g[s] = h[s]
      BY <2>2, <2>3
    <3> QED BY <2>2, <3>1
  <2> QED BY <2>4
<1>10. Solves(lines)
  <2> HIDE DEF Solves
  <2> QED BY <1>9
<1> HIDE DEF lines
<1> DEFINE state == [i \in 0..n |-> lines[1..i]]
<1>11. /\ state[0] = <<narrative>>
       /\ \A i \in 1..n : state[i] = After(state[i - 1], candidates[i])
  <2> HIDE DEF After
  <2>1. lines[{}] = <<narrative>>
    BY <1>10
  <2>2. ASSUME NEW i \in 1..n PROVE lines[1..i] = After(lines[1..(i - 1)], candidates[i])
    <3>1. Max(1..i) = i /\ (1..i) \ {i} = 1..(i - 1) /\ 1..i # {} /\ 1..i \in SUBSET (1..n)
      BY <1>6, Positions
    <3> QED BY <1>10, <3>1
  <2>3. 1..0 = {} /\ \A i \in 1..n : i \in 0..n /\ i - 1 \in 0..n
    BY <1>6
  <2> QED BY <1>6, <2>1, <2>2, <2>3
<1> HIDE DEF state
<1> DEFINE Upto(i) == /\ state[i] \in A
                      /\ \A j \in 1..i : Within(candidates[j], narrative)
                                         \/ candidates[j] \in ToSet(state[i])
           N == {i \in Nat : i <= n => Upto(i)}
<1>12. 0 \in N
  <2> HIDE DEF After, A
  <2>1. Upto(0)
    BY <1>7, <1>11
  <2> QED BY <2>1
<1>13. ASSUME NEW i \in Nat, i \in N PROVE i + 1 \in N
  <2> SUFFICES ASSUME i + 1 <= n PROVE Upto(i + 1)
    OBVIOUS
  <2>1. Upto(i) /\ i + 1 \in 1..n
    BY <1>6, <1>13
  <2>2. state[i + 1] = After(state[i], candidates[i + 1])
    BY <1>11, <2>1
  <2>3. state[i + 1] \in A
    BY <1>8, <2>1, <2>2
  <2>4. CASE Within(candidates[i + 1], narrative)
    <3>1. state[i + 1] = state[i]
      BY <2>2, <2>4
    <3> QED BY <2>1, <2>3, <2>4, <3>1
  <2>5. CASE ~Within(candidates[i + 1], narrative)
    <3>1. state[i + 1] = Append(state[i], candidates[i + 1])
      BY <2>2, <2>5
    <3>2. ToSet(state[i + 1]) = ToSet(state[i]) \cup {candidates[i + 1]}
      <4>1. state[i] \in Seq(Text) /\ candidates[i + 1] \in Text
        BY <1>4, <2>1
      <4> HIDE DEF A, Upto, N
      <4> QED BY <3>1, <4>1, AppendedSet
    <3>3. \A j \in 1..(i + 1) : j \in 1..i \/ j = i + 1
      OBVIOUS
    <3> QED BY <2>1, <2>3, <3>2, <3>3
  <2> QED BY <2>4, <2>5
<1>14. Upto(n)
  <2>1. Nat \subseteq N
    <3> HIDE DEF N
    <3> QED BY <1>12, <1>13, InductionOnNat
  <2> QED BY <1>6, <2>1
<1>15. Composed(answer) = state[n]
  BY <1>5, <1>6 DEF state
<1>16. ASSUME NEW p \in ToSet(Expected)
       PROVE  \E line \in ToSet(Composed(answer)) : p \in ToSet(line)
  <2>1. PICK i \in 1..m : p = Expected[i]
    BY <1>2 DEF ToSet
  <2>2. candidates[i] \in Text /\ p \in ToSet(candidates[i]) /\ i \in 1..n
    BY <1>2, <1>3, <1>4, <1>6, <2>1
  <2>3. CASE Within(candidates[i], narrative)
    <3>1. p \in ToSet(narrative)
      BY <1>1, <2>2, <2>3, WithinSays
    <3>2. narrative \in ToSet(state[n])
      <4>1. state[n] \in Seq(Text) /\ state[n] # <<>> /\ Head(state[n]) = narrative
        BY <1>14
      <4>2. Len(state[n]) \in Nat \ {0} /\ DOMAIN state[n] = 1..Len(state[n])
        BY <4>1, EmptySeq, LenProperties
      <4>3. state[n][1] = narrative /\ 1 \in DOMAIN state[n]
        BY <4>1, <4>2
      <4> QED BY <4>3 DEF ToSet
    <3> QED BY <1>15, <3>1, <3>2
  <2>4. CASE candidates[i] \in ToSet(state[n])
    BY <1>15, <2>2, <2>4
  <2> QED BY <1>14, <2>2, <2>3, <2>4
<1> QED BY <1>1, <1>14, <1>15, <1>16

(***************************************************************************)
(* The room                                                                *)
(***************************************************************************)
\* What is told of kind k in these lines fits and, if it is the model's, tells every player.
Tells(kind, lines) ==
  /\ lines # <<>> /\ Fits(Head(lines))
  /\ kind = "storyteller" =>
       \A p \in ToSet(Expected) : \E line \in ToSet(lines) : p \in ToSet(line)

\* One tale for each round, in their order.
Tales(entries) ==
  \A i \in DOMAIN entries :
    Tells(entries[i].kind, entries[i].lines) /\ entries[i].round = i /\ entries[i].kind # "ending"

\* A room whose game goes on, and one whose ending is still to be told.
GoesOn(rm) ==
  /\ rm \in Rooms /\ rm.status # "COMPLETED"
  /\ Tales(rm.entries) /\ Len(rm.entries) = rm.round - 1

Ends(rm) ==
  /\ rm \in Rooms /\ rm.status = "COMPLETED"
  /\ Tales(rm.entries) /\ Len(rm.entries) \in {rm.round - 1, rm.round}

\* The tales and their ending.
Ended(rm) ==
  /\ rm \in Rooms /\ rm.status = "COMPLETED" /\ rm.entries # <<>>
  /\ Tales(Front(rm.entries)) /\ Len(Front(rm.entries)) \in {rm.round - 1, rm.round}
  /\ Last(rm.entries).kind = "ending"
  /\ Tells("ending", Last(rm.entries).lines)

\* The inductive invariant: who waits for a round has the room as it is stored, and who
\* waits for an ending a room that lacks nothing else.
Kept ==
  /\ GoesOn(room) \/ Ended(room)
  /\ room.status = "RESOLUTION_FAILED" => room.failure # None
  /\ call # None =>
       /\ call \in Calls
       /\ call.tool = Round => call.room = room /\ GoesOn(room)
       /\ call.tool = Ending => Ends(call.room)
  /\ crashes \in 0..MaxCrashes

\* All but the last element.
LEMMA FrontProperties ==
  ASSUME NEW S, NEW s \in Seq(S), Len(s) > 0
  PROVE  /\ DOMAIN Front(s) = 1..(Len(s) - 1) /\ Len(Front(s)) = Len(s) - 1
         /\ \A i \in 1..(Len(s) - 1) : Front(s)[i] = s[i]
         /\ Front(s) \in Seq(S)
<1> DEFINE n == Len(s)
<1>1. n \in Nat /\ \A i \in 1..n : s[i] \in S
  BY LenProperties, ElementOfSeq
<1>2. 1 \in Int /\ n - 1 \in Int /\ \A i \in 1..(n - 1) : s[i] \in S
  BY <1>1
<1>3. /\ SubSeq(s, 1, n - 1) \in Seq(S)
      /\ Len(SubSeq(s, 1, n - 1)) = IF 1 <= n - 1 THEN (n - 1) - 1 + 1 ELSE 0
      /\ \A i \in 1..((n - 1) - 1 + 1) : SubSeq(s, 1, n - 1)[i] = s[1 + i - 1]
  BY <1>2, SubSeqProperties
<1>4. Front(s) = SubSeq(s, 1, n - 1)
  BY DEF Front
<1> HIDE DEF n
<1>5. n > 0
  BY DEF n
<1>6. Len(Front(s)) = n - 1 /\ \A i \in 1..(n - 1) : Front(s)[i] = s[i]
  BY <1>1, <1>3, <1>4, <1>5
<1> QED BY <1>3, <1>4, <1>6, LenProperties DEF n

LEMMA FrontOfAppend ==
  ASSUME NEW S, NEW s \in Seq(S), NEW e \in S
  PROVE  Front(Append(s, e)) = s
<1> DEFINE t == Append(s, e)
<1>1. Len(s) \in Nat
  BY LenProperties
<1>2. t \in Seq(S) /\ Len(t) = Len(s) + 1 /\ \A i \in 1..Len(s) : t[i] = s[i]
  BY AppendProperties
<1> HIDE DEF t
<1>3. Front(t) \in Seq(S) /\ Len(Front(t)) = Len(s) /\ \A i \in 1..Len(s) : Front(t)[i] = t[i]
  BY <1>1, <1>2, FrontProperties
<1>4. Front(t) = s
  BY <1>2, <1>3, SeqEqual
<1> QED BY <1>4 DEF t

LEMMA OneElement ==
  ASSUME NEW S, NEW e \in S
  PROVE  <<e>> \in Seq(S) /\ Len(<<e>>) = 1 /\ <<e>> # <<>> /\ Head(<<e>>) = e
OBVIOUS

LEMMA KeptImplies ==
  Kept => TypeOK /\ StoryMatchesRounds /\ EveryPlayerTold
<1> SUFFICES ASSUME Kept PROVE TypeOK /\ StoryMatchesRounds /\ EveryPlayerTold
  OBVIOUS
<1> DEFINE es == room.entries
           tales == IF room.status = "COMPLETED" THEN Front(es) ELSE es
           n == Len(es)
<1>1. room \in Rooms /\ es \in Seq(Entries)
  BY DEF Kept, GoesOn, Ended, Rooms
<1>2. n \in Nat /\ DOMAIN es = 1..n /\ \A i \in 1..n : es[i] \in Entries
  BY <1>1, LenProperties, ElementOfSeq
<1>3. n > 0 => DOMAIN Front(es) = 1..(n - 1) /\ Len(Front(es)) = n - 1
               /\ \A i \in 1..(n - 1) : Front(es)[i] = es[i]
  BY <1>1, <1>2, FrontProperties
<1>4. es # <<>> => n > 0
  BY <1>1, <1>2, EmptySeq
<1>5. ASSUME NEW i \in 1..n PROVE Tells(es[i].kind, es[i].lines)
  <2>1. CASE GoesOn(room)
    BY <1>2, <2>1 DEF GoesOn, Tales
  <2>2. CASE Ended(room)
    <3>1. n > 0
      BY <1>4, <2>2 DEF Ended
    <3>2. CASE i = n
      BY <2>2, <3>2 DEF Ended, Last
    <3>3. CASE i # n
      <4>1. i \in 1..(n - 1)
        BY <1>2, <3>3
      <4> QED BY <1>3, <2>2, <3>1, <4>1 DEF Ended, Tales
    <3> QED BY <3>2, <3>3
  <2> QED BY <2>1, <2>2 DEF Kept
<1>6. TypeOK
  <2>1. /\ room.status \in Statuses /\ room.round \in 1..MaxRounds
        /\ room.attempts \in 0..2 /\ room.failure \in FailureCodes \cup {None}
    BY <1>1 DEF Rooms
  <2>2. ASSUME NEW i \in DOMAIN es
        PROVE  LET entry == es[i]
                   text  == Head(entry.lines)
               IN /\ entry.kind \in Kinds /\ entry.round \in 1..MaxRounds
                  /\ text # <<>>
                  /\ Len(text) <= NarrativeLimit \/ (Len(text) = NarrativeLimit + 1 /\ Last(text) = ".")
    BY <1>2, <1>5, <2>2 DEF Tells, Fits, Entries
  <2>3. call # None => /\ call.op \in {"resolve_round", "fallback_round", "finish_game"}
                       /\ call.tool \in {Round, Ending} /\ call.attempts \in 1..2
    BY DEF Kept, Calls
  <2> QED BY <2>1, <2>2, <2>3 DEF TypeOK, Kept
<1>7. StoryMatchesRounds
  <2>1. CASE GoesOn(room)
    BY <2>1 DEF StoryMatchesRounds, TalesOf, GoesOn, Tales
  <2>2. CASE Ended(room)
    BY <2>2 DEF StoryMatchesRounds, TalesOf, Ended, Tales
  <2> QED BY <2>1, <2>2 DEF Kept
<1>8. EveryPlayerTold
  BY <1>2, <1>5 DEF EveryPlayerTold, Tells
<1> QED BY <1>6, <1>7, <1>8

\* A round told keeps the story in step, and if it was the last only the ending is missing.
LEMMA ToldGoesOn ==
  ASSUME NEW rm, GoesOn(rm), NEW failure \in FailureCodes \cup {None}, NEW attempts \in 0..2,
         NEW kind \in {"storyteller", "fallback"}, NEW lines \in Seq(Text), Tells(kind, lines),
         NEW told \in Told([rm EXCEPT !.attempts = attempts, !.failure = failure], kind, lines)
  PROVE  /\ told.status = "COMPLETED" => Ends(told)
         /\ told.status # "COMPLETED" => GoesOn(told)
         /\ told.status # "RESOLUTION_FAILED"
<1> DEFINE entry == Entry(kind, rm.round, lines)
           es == Append(rm.entries, entry)
           base == [rm EXCEPT !.attempts = attempts, !.failure = failure, !.entries = es]
           n == Len(rm.entries)
<1>1. /\ rm.round \in 1..MaxRounds /\ rm.entries \in Seq(Entries) /\ rm \in Rooms
      /\ MaxRounds \in Nat
  BY StorytellerAssumption DEF GoesOn, Rooms
<1>2. entry \in Entries /\ entry.kind = kind /\ entry.round = rm.round /\ entry.lines = lines
  BY <1>1 DEF Entry, Entries, Kinds
<1>3. n \in Nat /\ DOMAIN rm.entries = 1..n /\ n = rm.round - 1
  BY <1>1, LenProperties DEF GoesOn
<1> HIDE DEF entry
<1>4. /\ es \in Seq(Entries) /\ Len(es) = n + 1 /\ DOMAIN es = 1..(n + 1)
      /\ \A i \in 1..n : es[i] = rm.entries[i]
      /\ es[n + 1] = entry
  BY <1>1, <1>2, AppendProperties, LenProperties
<1>5. Tales(es) /\ Len(es) = rm.round
  <2>1. ASSUME NEW i \in 1..(n + 1)
        PROVE  Tells(es[i].kind, es[i].lines) /\ es[i].round = i /\ es[i].kind # "ending"
    <3>1. CASE i = n + 1
      BY <1>1, <1>2, <1>3, <1>4, <3>1
    <3>2. CASE i # n + 1
      <4>1. i \in 1..n
        BY <1>3, <3>2
      <4> QED BY <1>3, <1>4, <4>1 DEF GoesOn, Tales
    <3> QED BY <3>1, <3>2
  <2> QED BY <1>1, <1>3, <1>4, <2>1 DEF Tales
<1> HIDE DEF es
<1>6. base \in Rooms /\ base.round = rm.round /\ base.entries = es /\ base.status = rm.status
  BY <1>1, <1>4 DEF Rooms
<1>7. told \in IF rm.round >= MaxRounds THEN {[base EXCEPT !.status = "COMPLETED"]}
               ELSE {[base EXCEPT !.round = @ + 1, !.status = status] :
                       status \in {"COLLECTING_ACTIONS", "COMPLETION_AVAILABLE"}}
  <2>1. base = [[rm EXCEPT !.attempts = attempts, !.failure = failure]
                  EXCEPT !.entries = Append(@, Entry(kind, rm.round, lines))]
    BY <1>1 DEF es, entry, Rooms
  <2> QED BY <1>1, <2>1 DEF Told, Rooms
<1> HIDE DEF base
<1>8. CASE rm.round >= MaxRounds
  <2>1. told = [base EXCEPT !.status = "COMPLETED"]
    BY <1>7, <1>8
  <2>2. told \in Rooms /\ told.status = "COMPLETED" /\ told.round = rm.round /\ told.entries = es
    BY <1>6, <2>1 DEF Rooms, Statuses
  <2> QED BY <1>5, <2>2 DEF Ends
<1>9. CASE ~(rm.round >= MaxRounds)
  <2>1. PICK status \in {"COLLECTING_ACTIONS", "COMPLETION_AVAILABLE"} :
          told = [base EXCEPT !.round = @ + 1, !.status = status]
    BY <1>7, <1>9
  <2>2. rm.round + 1 \in 1..MaxRounds
    BY <1>1, <1>9
  <2>3. told \in Rooms /\ told.status = status /\ told.round = rm.round + 1 /\ told.entries = es
    BY <1>6, <2>1, <2>2 DEF Rooms, Statuses
  <2>4. Len(told.entries) = told.round - 1
    BY <1>1, <1>5, <2>3
  <2> QED BY <1>5, <2>3, <2>4 DEF GoesOn
<1> QED BY <1>8, <1>9

\* Saved or passed on to the ending, the room is as it has to be.
LEMMA SaveOrAskKeeps ==
  ASSUME Kept, NEW op \in {"resolve_round", "fallback_round", "finish_game"}, NEW rm,
         NEW attempts \in 1..2, SaveOrAsk(op, rm, attempts), UNCHANGED crashes,
         rm.status = "COMPLETED" => Ends(rm),
         rm.status # "COMPLETED" => GoesOn(rm) /\ rm.status # "RESOLUTION_FAILED"
  PROVE  Kept'
<1>1. CASE rm.status # "COMPLETED"
  BY <1>1 DEF SaveOrAsk, Kept
<1>2. CASE rm.status = "COMPLETED"
  <2>1. /\ room' = room
        /\ call' = [op |-> op, tool |-> Ending, attempts |-> attempts, room |-> rm]
    BY <1>2 DEF SaveOrAsk
  <2>2. call' \in Calls /\ call'.tool = Ending /\ call'.room = rm /\ Ending # Round
    BY <1>2, <2>1 DEF Calls, Ends, Ending, Round
  <2>3. (GoesOn(room) \/ Ended(room))' /\ (room.status = "RESOLUTION_FAILED" => room.failure # None)'
    BY <2>1 DEF Kept
  <2> QED BY <1>2, <2>2, <2>3 DEF Kept
<1> QED BY <1>1, <1>2

\* A failure has its code.
LEMMA FailureType ==
  ASSUME NEW answer, NEW tool PROVE Failure(answer, tool) \in FailureCodes \cup {None}
BY DEF Failure, FailureCode, FailureCodes

LEMMA KeptIsInvariant == Spec => []Kept
<1>0. /\ MaxRounds \in Nat \ {0} /\ NarrativeLimit \in Nat \ {0} /\ MaxCrashes \in Nat
      /\ "template" \in Words
      /\ \A answer \in Answers : answer.narrative \in Text
  BY StorytellerAssumption DEF Text
<1>1. Init => Kept
  <2> SUFFICES ASSUME Init PROVE Kept
    OBVIOUS
  <2>1. /\ room.status = "COLLECTING_ACTIONS" /\ room.round = 1 /\ room.entries = <<>>
        /\ call = None /\ crashes = 0
    BY DEF Init
  <2>2. room \in Rooms
    <3>1. <<>> \in Seq(Entries) /\ 1 \in 1..MaxRounds
      BY <1>0
    <3> QED BY <3>1 DEF Init, Rooms, Statuses
  <2>3. Tales(room.entries) /\ Len(room.entries) = 0
    BY <2>1 DEF Tales
  <2>4. GoesOn(room)
    BY <2>1, <2>2, <2>3 DEF GoesOn
  <2> QED BY <1>0, <2>1, <2>4 DEF Kept
<1>2. Kept /\ [Next]_vars => Kept'
  <2> SUFFICES ASSUME Kept, [Next]_vars PROVE Kept'
    OBVIOUS
  <2>1. CASE Play
    <3>1. /\ room' = [room EXCEPT !.status = "AWAITING_SPARK"] /\ call' = None
          /\ room.status = "COLLECTING_ACTIONS" /\ UNCHANGED crashes
      BY <2>1 DEF Play
    <3>2. GoesOn(room)
      BY <3>1 DEF Kept, Ended
    <3>3. GoesOn(room)' /\ room'.status # "RESOLUTION_FAILED"
      BY <3>1, <3>2 DEF GoesOn, Rooms, Statuses
    <3> QED BY <3>1, <3>3 DEF Kept
  <2>2. CASE ResolveRound
    <3>1. /\ call' = [op |-> "resolve_round", tool |-> Round, attempts |-> 1, room |-> room]
          /\ room.status # "COMPLETED" /\ UNCHANGED <<room, crashes>>
      BY <2>2 DEF ResolveRound
    <3>2. GoesOn(room)
      BY <3>1 DEF Kept, Ended
    <3>3. call' \in Calls /\ call'.tool = Round /\ call'.room = room'
      BY <3>1, <3>2 DEF Calls, GoesOn
    <3> QED BY <3>1, <3>2, <3>3 DEF Kept, Round, Ending, GoesOn, Ended
  <2>3. CASE FallbackRound
    <3> DEFINE lines == << <<"template">> >>
    <3>1. PICK rm \in Told(room, "fallback", lines) : SaveOrAsk("fallback_round", rm, 1)
      BY <2>3 DEF FallbackRound
    <3>2. room.status # "COMPLETED" /\ UNCHANGED crashes
      BY <2>3 DEF FallbackRound
    <3>3. GoesOn(room) /\ room \in Rooms
      BY <3>2 DEF Kept, Ended, GoesOn
    <3>4. lines \in Seq(Text) /\ Tells("fallback", lines)
      <4> DEFINE t == <<"template">>
      <4>1. t \in Text /\ Len(t) = 1 /\ t # <<>>
        BY <1>0, OneElement DEF Text
      <4> HIDE DEF t
      <4>2. <<t>> \in Seq(Text) /\ <<t>> # <<>> /\ Head(<<t>>) = t
        BY <4>1, OneElement
      <4>3. Len(t) <= NarrativeLimit
        BY <1>0, <4>1
      <4> QED BY <4>1, <4>2, <4>3 DEF Tells, Fits, t
    <3>5. PICK attempts \in 0..2, failure \in FailureCodes \cup {None} :
            room = [room EXCEPT !.attempts = attempts, !.failure = failure]
      <4>1. room = [room EXCEPT !.attempts = room.attempts, !.failure = room.failure]
            /\ room.attempts \in 0..2 /\ room.failure \in FailureCodes \cup {None}
        BY <3>3 DEF Rooms
      <4> QED BY <4>1
    <3> HIDE DEF lines
    <3>6. rm \in Told([room EXCEPT !.attempts = attempts, !.failure = failure], "fallback", lines)
      BY <3>1, <3>5
    <3>7. /\ rm.status = "COMPLETED" => Ends(rm)
          /\ rm.status # "COMPLETED" => GoesOn(rm)
          /\ rm.status # "RESOLUTION_FAILED"
      <4>1. attempts \in 0..2 /\ failure \in FailureCodes \cup {None}
        OBVIOUS
      <4> QED BY <3>3, <3>4, <3>6, <4>1, ToldGoesOn
    <3> QED BY <3>1, <3>2, <3>7, SaveOrAskKeeps
  <2>4. CASE FinishGame
    <3>1. PICK status \in {"COLLECTING_ACTIONS", "COMPLETED"} :
            SaveOrAsk("finish_game", [room EXCEPT !.status = status], 1)
      BY <2>4 DEF FinishGame
    <3> DEFINE rm == [room EXCEPT !.status = status]
    <3>2. room.status # "COMPLETED" /\ UNCHANGED crashes
      BY <2>4 DEF FinishGame
    <3>3. GoesOn(room)
      BY <3>2 DEF Kept, Ended
    <3>4. rm \in Rooms /\ rm.status = status /\ rm.entries = room.entries /\ rm.round = room.round
      BY <3>3 DEF GoesOn, Rooms, Statuses
    <3>5. /\ rm.status = "COMPLETED" => Ends(rm)
          /\ rm.status # "COMPLETED" => GoesOn(rm) /\ rm.status # "RESOLUTION_FAILED"
      BY <3>3, <3>4 DEF Ends, GoesOn
    <3> HIDE DEF rm
    <3>6. SaveOrAsk("finish_game", rm, 1)
      BY <3>1 DEF rm
    <3> QED BY <3>2, <3>5, <3>6, SaveOrAskKeeps
  <2>5. ASSUME NEW answer \in Answers, Narrated(answer) PROVE Kept'
    <3>1. /\ call # None /\ call.tool = Round /\ Failure(answer, Round) = None
          /\ UNCHANGED crashes
      BY <2>5 DEF Narrated, Asked
    <3>2. call \in Calls /\ call.room = room /\ GoesOn(room)
      BY <3>1 DEF Kept
    <3>3. answer.narrative # <<>> /\ TellsAll(answer.consequences)
      BY <3>1, NoneAssumption DEF Failure, FailureCode, FailureCodes
    <3> DEFINE lines == Composed(answer)
    <3>4. lines \in Seq(Text) /\ Tells("storyteller", lines)
      BY <3>3, ComposedTells DEF Tells
    <3> HIDE DEF lines
    <3>5. PICK rm \in Told([room EXCEPT !.attempts = call.attempts, !.failure = None],
                           "storyteller", lines) : SaveOrAsk(call.op, rm, call.attempts)
      BY <2>5, <3>2 DEF Narrated, lines
    <3>6. call.attempts \in 1..2 /\ call.attempts \in 0..2
          /\ call.op \in {"resolve_round", "fallback_round", "finish_game"}
      BY <3>2 DEF Calls
    <3>7. /\ rm.status = "COMPLETED" => Ends(rm)
          /\ rm.status # "COMPLETED" => GoesOn(rm)
          /\ rm.status # "RESOLUTION_FAILED"
      BY <3>2, <3>4, <3>5, <3>6, ToldGoesOn
    <3> QED BY <3>1, <3>5, <3>6, <3>7, SaveOrAskKeeps
  <2>6. ASSUME NEW answer \in Answers, AskAgain(answer) PROVE Kept'
    <3>1. /\ call # None /\ call.tool = Round /\ call.attempts < 2
          /\ call' = [call EXCEPT !.attempts = @ + 1] /\ UNCHANGED <<room, crashes>>
      BY <2>6 DEF AskAgain, Asked
    <3>2. call \in Calls /\ call.room = room /\ GoesOn(room)
      BY <3>1 DEF Kept
    <3>3. call' \in Calls /\ call'.tool = Round /\ call'.room = room'
      BY <3>1, <3>2 DEF Calls
    <3> QED BY <3>1, <3>2, <3>3 DEF Kept, Round, Ending, GoesOn, Ended
  <2>7. ASSUME NEW answer \in Answers, RoundFails(answer) PROVE Kept'
    <3> DEFINE failure == Failure(answer, Round)
    <3>1. /\ call # None /\ call.tool = Round /\ failure # None
          /\ room' = [call.room EXCEPT !.status = "RESOLUTION_FAILED", !.attempts = call.attempts,
                                       !.failure = failure]
          /\ call' = None /\ UNCHANGED crashes
      BY <2>7 DEF RoundFails, Asked
    <3>2. call \in Calls /\ call.room = room /\ GoesOn(room)
      BY <3>1 DEF Kept
    <3>3. failure \in FailureCodes \cup {None}
      BY FailureType
    <3> HIDE DEF failure
    <3>4. GoesOn(room)' /\ room'.failure # None
      <4>1. room' = [room EXCEPT !.status = "RESOLUTION_FAILED", !.attempts = call.attempts,
                                 !.failure = failure]
        BY <3>1, <3>2
      <4>2. call.attempts \in 0..2 /\ room \in Rooms
        BY <3>2 DEF Calls, GoesOn
      <4>3. /\ room' \in Rooms /\ room'.status = "RESOLUTION_FAILED" /\ room'.failure = failure
            /\ room'.entries = room.entries /\ room'.round = room.round
        BY <3>3, <4>1, <4>2 DEF Rooms, Statuses
      <4> QED BY <3>1, <3>2, <4>3 DEF GoesOn
    <3> QED BY <3>1, <3>4 DEF Kept
  <2>8. ASSUME NEW answer \in Answers, EndingTold(answer) PROVE Kept'
    <3> DEFINE text  == Compacted(answer.narrative, NarrativeLimit)
               rm    == call.room
               entry == Entry("ending", rm.round, <<text>>)
               n     == Len(rm.entries)
    <3>1. /\ call # None /\ call.tool = Ending /\ Failure(answer, Ending) = None
          /\ room' = [rm EXCEPT !.entries = Append(@, entry)]
          /\ call' = None /\ UNCHANGED crashes
      BY <2>8 DEF EndingTold, Asked
    <3>2. Ends(rm) /\ rm \in Rooms
      BY <3>1 DEF Kept, Ends
    <3>3. answer.narrative # <<>> /\ answer.narrative \in Text
      BY <1>0, <3>1, NoneAssumption DEF Failure, FailureCode, FailureCodes
    <3>4. text \in Text /\ Fits(text)
      BY <3>3, CompactedFits
    <3> HIDE DEF text
    <3>5. entry \in Entries /\ entry.kind = "ending" /\ Tells("ending", entry.lines)
      <4>1. <<text>> \in Seq(Text) /\ <<text>> # <<>> /\ Head(<<text>>) = text
        BY <3>4, OneElement
      <4>2. rm.round \in 1..MaxRounds
        BY <3>2 DEF Rooms
      <4> QED BY <3>4, <4>1, <4>2 DEF Entry, Entries, Kinds, Tells
    <3> HIDE DEF entry
    <3>6. rm.entries \in Seq(Entries) /\ n \in Nat /\ DOMAIN rm.entries = 1..n
      BY <3>2, LenProperties DEF Rooms
    <3> HIDE DEF rm
    <3> DEFINE es == Append(rm.entries, entry)
    <3>7. /\ es \in Seq(Entries) /\ es # <<>> /\ Len(es) = n + 1 /\ Last(es) = entry
      BY <3>5, <3>6, AppendProperties DEF Last
    <3>8. Front(es) = rm.entries
      BY <3>5, <3>6, FrontOfAppend
    <3> HIDE DEF es
    <3>9. room' \in Rooms /\ room'.status = "COMPLETED" /\ room'.round = rm.round /\ room'.entries = es
      BY <3>1, <3>2, <3>7 DEF Rooms, Ends, es
    <3>10. Ended(room)'
      BY <3>2, <3>5, <3>7, <3>8, <3>9 DEF Ended, Ends
    <3> QED BY <3>1, <3>9, <3>10 DEF Kept
  <2>9. CASE Crash \/ \E answer \in Answers : EndingFails(answer)
    <3>1. room' = room /\ call' = None
      BY <2>9 DEF Crash, EndingFails
    <3>2. crashes' \in 0..MaxCrashes
      BY <1>0, <2>9 DEF Crash, EndingFails, Kept
    <3> QED BY <3>1, <3>2 DEF Kept, GoesOn, Ended
  <2>10. CASE UNCHANGED vars
    BY <2>10 DEF vars, Kept, GoesOn, Ended
  <2> QED BY <2>1, <2>2, <2>3, <2>4, <2>5, <2>6, <2>7, <2>8, <2>9, <2>10 DEF Next, Answered
<1> QED BY <1>1, <1>2, PTL DEF Spec

\* A text that was told fits its column, however the model's answer was cut, and a failed
\* round has its reason (bedrock_storyteller.py:773-804, story_resolution.py:33-44).
THEOREM StorytellerTypeOK == Spec => []TypeOK
BY KeptIsInvariant, KeptImplies, PTL

\* Whichever call fails or is cut off: every round that is over is told once, in its order,
\* and a game is completed if and only if its ending is told (room_service.py:967-979,
\* 1110-1142, 1188-1200).
THEOREM StoryKeepsStep == Spec => []StoryMatchesRounds
BY KeptIsInvariant, KeptImplies, PTL

\* Whatever narrative the model was trusted with, each player of the round reads in it what
\* came of his action (bedrock_storyteller.py:709-739, 844-866).
THEOREM PlayersAreTold == Spec => []EveryPlayerTold
BY KeptIsInvariant, KeptImplies, PTL

(***************************************************************************)
(* The rooms implement Chronicle                                           *)
(***************************************************************************)
Teller(op) == IF op = "resolve_round" THEN "storyteller" ELSE "fallback"

\* An open call was made of a room that waits for it, and the ending it waits for lacks
\* the round that was just told, or the game was finished before its last round.
Opened ==
  /\ room.status = "COMPLETION_AVAILABLE" => room.entries # <<>>
  /\ call # None =>
       /\ call.op = "resolve_round" => room.status \in {"AWAITING_SPARK", "RESOLUTION_FAILED"}
       /\ call.op = "fallback_round" => room.status = "RESOLUTION_FAILED"
       /\ call.op = "finish_game" => room.status = "COMPLETION_AVAILABLE"
       /\ call.tool = Round => call.op = "resolve_round"
       /\ (call.tool = Ending /\ call.op = "finish_game") => call.room.entries = room.entries
       /\ (call.tool = Ending /\ call.op # "finish_game") =>
            /\ room.round = MaxRounds
            /\ \E lines \in Seq(Text) :
                 call.room.entries = Append(room.entries, Entry(Teller(call.op), room.round, lines))

Phase ==
  IF room.status = "COMPLETED" THEN "ended"
  ELSE IF room.status = "AWAITING_SPARK" \/ Resolving THEN "resolving"
  ELSE IF room.status = "RESOLUTION_FAILED" THEN "failed" ELSE "acting"

TellersOf(entries) == [i \in DOMAIN entries |-> entries[i].kind]

Tellers == TellersOf(TalesOf(room))

\* What a step of Chronicle is of the phase and of those who told.
LEMMA GameSteps ==
  /\ UNCHANGED <<Phase, Tellers>> => UNCHANGED Game!vars
  /\ Phase \in {"acting", "failed"} /\ Phase' = "resolving" /\ Tellers' = Tellers => Game!Next
  /\ Phase = "resolving" /\ Phase' = "failed" /\ Tellers' = Tellers => Game!Next
  /\ Phase = "acting" /\ Phase' = "ended" /\ Tellers # <<>> /\ Tellers' = Tellers => Game!Next
  /\ \A teller \in {"storyteller", "fallback"} :
       /\ Phase = IF teller = "fallback" THEN "failed" ELSE "resolving"
       /\ Tellers' = Append(Tellers, teller)
       /\ Phase' = IF Len(Tellers') = MaxRounds THEN "ended" ELSE "acting"
       => Game!Next
BY DEF Phase, Tellers, TellersOf, Game!vars, Game!Next, Game!Ask, Game!GiveUp, Game!Tell, Game!Finish

LEMMA TellersAppended ==
  ASSUME NEW es \in Seq(Entries), NEW kind \in Kinds, NEW round \in 1..MaxRounds,
         NEW lines \in Seq(Text)
  PROVE  LET longer == Append(es, Entry(kind, round, lines))
         IN /\ longer \in Seq(Entries) /\ Len(longer) = Len(es) + 1
            /\ TellersOf(longer) = Append(TellersOf(es), kind)
            /\ Len(TellersOf(longer)) = Len(es) + 1
<1> DEFINE entry == Entry(kind, round, lines)
           longer == Append(es, entry)
           t == TellersOf(longer)
           u == Append(TellersOf(es), kind)
           n == Len(es)
<1>1. entry \in Entries /\ entry.kind = kind
  BY DEF Entry, Entries
<1> HIDE DEF entry
<1>2. n \in Nat /\ DOMAIN es = 1..n /\ \A i \in 1..n : es[i] \in Entries
  BY LenProperties, ElementOfSeq
<1>3. /\ longer \in Seq(Entries) /\ Len(longer) = n + 1 /\ DOMAIN longer = 1..(n + 1)
      /\ longer[n + 1] = entry /\ \A i \in 1..n : longer[i] = es[i]
  BY <1>1, AppendProperties, LenProperties
<1>4. /\ TellersOf(es) \in [1..n -> Kinds] /\ \A i \in 1..n : TellersOf(es)[i] = es[i].kind
  BY <1>2 DEF TellersOf, Entries
<1>5. TellersOf(es) \in Seq(Kinds) /\ Len(TellersOf(es)) = n
  BY <1>2, <1>4, LenProperties
<1>6. u \in Seq(Kinds) /\ Len(u) = n + 1 /\ u[n + 1] = kind /\ \A i \in 1..n : u[i] = TellersOf(es)[i]
  BY <1>5, AppendProperties
<1> HIDE DEF longer, u
<1>7. /\ t \in [1..(n + 1) -> Kinds] /\ \A i \in 1..(n + 1) : t[i] = longer[i].kind
  <2>1. \A i \in 1..(n + 1) : longer[i] \in Entries
    BY <1>3, ElementOfSeq
  <2> QED BY <1>3, <2>1 DEF TellersOf, Entries
<1>8. t \in Seq(Kinds) /\ Len(t) = n + 1
  BY <1>2, <1>7, LenProperties
<1> HIDE DEF t
<1>9. \A i \in 1..(n + 1) : t[i] = u[i]
  <2>1. \A i \in 1..(n + 1) : i \in 1..n \/ i = n + 1
    BY <1>2
  <2>2. t[n + 1] = u[n + 1]
    BY <1>1, <1>2, <1>3, <1>6, <1>7
  <2>3. ASSUME NEW i \in 1..n PROVE t[i] = u[i]
    <3>1. i \in 1..(n + 1)
      BY <1>2
    <3> QED BY <1>3, <1>4, <1>6, <1>7, <3>1
  <2> QED BY <2>1, <2>2, <2>3
<1>10. t = u
  BY <1>6, <1>8, <1>9, SeqEqual
<1> QED BY <1>3, <1>8, <1>10 DEF longer, entry, t, u

\* A round told is one more entry, and the last one is told in the last round.
LEMMA ToldTells ==
  ASSUME GoesOn(room), NEW failure \in FailureCodes \cup {None}, NEW attempts \in 0..2,
         NEW kind \in Kinds, NEW lines \in Seq(Text),
         NEW told \in Told([room EXCEPT !.attempts = attempts, !.failure = failure], kind, lines)
  PROVE  /\ told.entries = Append(room.entries, Entry(kind, room.round, lines))
         /\ told.entries # <<>>
         /\ TellersOf(told.entries) = Append(Tellers, kind)
         /\ Len(TellersOf(told.entries)) = room.round
         /\ told.status # "COMPLETED" => /\ told.status \in {"COLLECTING_ACTIONS", "COMPLETION_AVAILABLE"}
                                         /\ room.round # MaxRounds
         /\ told.status = "COMPLETED" => room.round = MaxRounds /\ told \in Rooms
<1> DEFINE es == Append(room.entries, Entry(kind, room.round, lines))
           base == [room EXCEPT !.attempts = attempts, !.failure = failure]
<1>1. /\ room \in Rooms /\ room.round \in 1..MaxRounds /\ room.entries \in Seq(Entries)
      /\ room.status # "COMPLETED" /\ Len(room.entries) = room.round - 1
      /\ MaxRounds \in Nat
  BY StorytellerAssumption DEF GoesOn, Rooms
<1>2. /\ es \in Seq(Entries) /\ Len(es) = Len(room.entries) + 1
      /\ TellersOf(es) = Append(TellersOf(room.entries), kind)
      /\ Len(TellersOf(es)) = Len(room.entries) + 1
  BY <1>1, TellersAppended
<1>3. es # <<>> /\ Len(TellersOf(es)) = room.round
  BY <1>1, <1>2
<1>4. Tellers = TellersOf(room.entries)
  BY <1>1 DEF Tellers, TalesOf
<1>5. base \in Rooms /\ base.round = room.round /\ base.entries = room.entries
  BY <1>1 DEF Rooms
<1>6. base.entries = room.entries
      /\ Entry(kind, base.round, lines) = Entry(kind, room.round, lines)
  BY <1>5
<1> HIDE DEF base
<1>7. CASE room.round >= MaxRounds
  <2>1. told = [[base EXCEPT !.entries = Append(@, Entry(kind, base.round, lines))]
                  EXCEPT !.status = "COMPLETED"]
    BY <1>5, <1>7 DEF Told, base
  <2>2. told.status = "COMPLETED" /\ told.entries = es
    BY <1>5, <1>6, <2>1 DEF Rooms
  <2>4. told \in Rooms
    BY <1>2, <1>5, <1>6, <2>1 DEF Rooms, Statuses
  <2>3. room.round = MaxRounds
    BY <1>1, <1>7
  <2> HIDE DEF es
  <2> QED BY <1>2, <1>3, <1>4, <2>2, <2>3, <2>4 DEF es
<1>8. CASE ~(room.round >= MaxRounds)
  <2>1. PICK status \in {"COLLECTING_ACTIONS", "COMPLETION_AVAILABLE"} :
          told = [[base EXCEPT !.entries = Append(@, Entry(kind, base.round, lines))]
                    EXCEPT !.round = @ + 1, !.status = status]
    BY <1>5, <1>8 DEF Told, base
  <2>2. told.status = status /\ told.entries = es
    BY <1>5, <1>6, <2>1 DEF Rooms
  <2>3. room.round # MaxRounds
    BY <1>1, <1>8
  <2> HIDE DEF es
  <2> QED BY <1>2, <1>3, <1>4, <2>2, <2>3 DEF es
<1> QED BY <1>7, <1>8

\* A round that is told and saved is told in Chronicle; one that waits for its ending is not.
LEMMA ToldRefines ==
  ASSUME Kept, GoesOn(room), NEW op \in {"resolve_round", "fallback_round"},
         NEW failure \in FailureCodes \cup {None}, NEW attempts \in 0..2, NEW lines \in Seq(Text),
         NEW told \in Told([room EXCEPT !.attempts = attempts, !.failure = failure],
                           Teller(op), lines),
         NEW n \in 1..2, SaveOrAsk(op, told, n),
         op = "resolve_round" =>
           room.status \in {"AWAITING_SPARK", "RESOLUTION_FAILED"} /\ Phase = "resolving",
         op = "fallback_round" => room.status = "RESOLUTION_FAILED" /\ Phase = "failed"
  PROVE  Opened' /\ (Game!Next \/ UNCHANGED Game!vars)
<1>1. Teller(op) \in {"storyteller", "fallback"} /\ Teller(op) \in Kinds
  BY DEF Teller, Kinds
<1>2. /\ told.entries = Append(room.entries, Entry(Teller(op), room.round, lines))
      /\ told.entries # <<>>
      /\ TellersOf(told.entries) = Append(Tellers, Teller(op))
      /\ Len(TellersOf(told.entries)) = room.round
      /\ told.status # "COMPLETED" => /\ told.status \in {"COLLECTING_ACTIONS", "COMPLETION_AVAILABLE"}
                                      /\ room.round # MaxRounds
      /\ told.status = "COMPLETED" => room.round = MaxRounds /\ told \in Rooms
  BY <1>1, ToldTells
<1>3. CASE told.status # "COMPLETED"
  <2>1. room' = told /\ call' = None
    BY <1>3 DEF SaveOrAsk
  <2>2. Tellers' = Append(Tellers, Teller(op)) /\ Len(Tellers') = room.round
    BY <1>2, <1>3, <2>1 DEF Tellers, TalesOf
  <2>3. Phase' = "acting"
    BY <1>2, <1>3, <2>1 DEF Phase, Resolving
  <2>4. Game!Next
    BY <1>1, <1>2, <1>3, <2>2, <2>3, GameSteps DEF Teller
  <2>5. Opened'
    BY <1>2, <2>1 DEF Opened
  <2> QED BY <2>4, <2>5
<1>4. CASE told.status = "COMPLETED"
  <2>1. /\ room' = room
        /\ call' = [op |-> op, tool |-> Ending, attempts |-> n, room |-> told]
    BY <1>4 DEF SaveOrAsk
  <2>2. call'.op = op /\ call'.tool = Ending /\ call'.room = told
    BY <2>1
  <2>3. room.status # "COMPLETED" /\ Tellers' = Tellers
    BY <2>1 DEF GoesOn, Tellers, TalesOf
  <2>4. Phase' = Phase
    <3>1. call' # None
      <4>1. call' \in Calls
        BY <1>2, <1>4, <2>1 DEF Calls
      <4> QED BY <4>1, CallAssumption
    <3> QED BY <2>1, <2>2, <2>3, <3>1 DEF Phase, Resolving
  <2>5. Opened'
    BY <1>2, <1>4, <2>1, <2>2 DEF Opened, Ending, Round
  <2> QED BY <2>3, <2>4, <2>5, GameSteps
<1> QED BY <1>3, <1>4

\* The ending is told: with it the last round, or a game that was finished before.
LEMMA EndingRefines ==
  ASSUME Kept, Opened, NEW answer, EndingTold(answer)
  PROVE  Opened' /\ (Game!Next \/ UNCHANGED Game!vars)
<1> DEFINE rm == call.room
           entry == Entry("ending", rm.round, <<Compacted(answer.narrative, NarrativeLimit)>>)
<1>1. /\ call # None /\ call.tool = Ending /\ call \in Calls /\ Ends(rm) /\ call' = None
      /\ room' = [rm EXCEPT !.entries = Append(@, entry)]
  BY DEF EndingTold, Asked, Kept
<1> HIDE DEF entry
<1>2. rm \in Rooms /\ rm.status = "COMPLETED" /\ rm.entries \in Seq(Entries)
  BY <1>1 DEF Ends, Rooms
<1>3. room'.status = "COMPLETED" /\ room'.entries = Append(rm.entries, entry)
  BY <1>1, <1>2 DEF Rooms
<1>4. Front(room'.entries) = rm.entries
  <2> DEFINE S == Entries \cup {entry}
  <2>1. rm.entries \in Seq(S) /\ entry \in S
    BY <1>2
  <2> HIDE DEF S
  <2> QED BY <1>3, <2>1, FrontOfAppend
<1>5. Tellers' = TellersOf(rm.entries) /\ Phase' = "ended"
  BY <1>3, <1>4 DEF Tellers, TalesOf, Phase
<1>6. Opened'
  BY <1>1, <1>3 DEF Opened
<1>7. call.op \in {"resolve_round", "fallback_round", "finish_game"}
  BY <1>1 DEF Calls
<1>8. GoesOn(room) /\ Tellers = TellersOf(room.entries)
  <2>1. room.status # "COMPLETED"
    BY <1>1, <1>7 DEF Opened
  <2> QED BY <2>1 DEF Kept, Ended, Tellers, TalesOf
<1>9. CASE call.op = "finish_game"
  <2>1. /\ room.status = "COMPLETION_AVAILABLE" /\ room.entries # <<>>
        /\ rm.entries = room.entries
    BY <1>1, <1>9 DEF Opened
  <2>2. Phase = "acting"
    BY <1>9, <2>1 DEF Phase, Resolving
  <2>3. Tellers # <<>>
    <3>1. room.entries \in Seq(Entries) /\ Len(room.entries) # 0
      BY <1>8, <2>1, EmptySeq DEF GoesOn, Rooms
    <3>2. 1 \in DOMAIN room.entries /\ DOMAIN Tellers = DOMAIN room.entries
      BY <1>8, <3>1, LenProperties DEF TellersOf
    <3> QED BY <3>2
  <2> QED BY <1>5, <1>6, <1>8, <2>1, <2>2, <2>3, GameSteps
<1>10. CASE call.op # "finish_game"
  <2>1. PICK lines \in Seq(Text) :
          rm.entries = Append(room.entries, Entry(Teller(call.op), room.round, lines))
    BY <1>1, <1>10 DEF Opened
  <2>2. room.round = MaxRounds /\ Teller(call.op) \in {"storyteller", "fallback"}
    BY <1>1, <1>10 DEF Opened, Teller
  <2>3. /\ room.entries \in Seq(Entries) /\ room.round \in 1..MaxRounds
        /\ Len(room.entries) = room.round - 1
    BY <1>8 DEF GoesOn, Rooms
  <2>4. /\ TellersOf(rm.entries) = Append(TellersOf(room.entries), Teller(call.op))
        /\ Len(TellersOf(rm.entries)) = Len(room.entries) + 1
    <3>1. Teller(call.op) \in Kinds
      BY DEF Teller, Kinds
    <3> QED BY <2>1, <2>3, <3>1, TellersAppended
  <2>5. Len(TellersOf(rm.entries)) = MaxRounds
    BY <2>2, <2>3, <2>4
  <2>6. Phase = IF Teller(call.op) = "fallback" THEN "failed" ELSE "resolving"
    <3>1. CASE call.op = "resolve_round"
      BY <1>1, <3>1 DEF Opened, Phase, Resolving, Teller
    <3>2. CASE call.op = "fallback_round"
      BY <1>1, <3>2 DEF Opened, Phase, Resolving, Teller
    <3> QED BY <1>7, <1>10, <3>1, <3>2
  <2> QED BY <1>5, <1>6, <1>8, <2>2, <2>4, <2>5, <2>6, GameSteps
<1> QED BY <1>9, <1>10

\* An open call that comes to nothing: a round that had failed has failed again.
LEMMA GivenUpRefines ==
  ASSUME Opened, room' = room, call' = None
  PROVE  Opened' /\ (Game!Next \/ UNCHANGED Game!vars)
<1>1. Tellers' = Tellers /\ Opened'
  BY DEF Tellers, TalesOf, Opened
<1>2. CASE Phase' = Phase
  BY <1>1, <1>2, GameSteps
<1>3. CASE Phase' # Phase
  <2>1. Phase = "resolving" /\ Phase' = "failed"
    BY <1>3 DEF Phase, Resolving, Opened
  <2> QED BY <1>1, <2>1, GameSteps
<1> QED BY <1>2, <1>3

LEMMA StepRefines ==
  Kept /\ Opened /\ [Next]_vars => Opened' /\ (Game!Next \/ UNCHANGED Game!vars)
<1> SUFFICES ASSUME Kept, Opened, [Next]_vars
             PROVE  Opened' /\ (Game!Next \/ UNCHANGED Game!vars)
  OBVIOUS
<1>1. CASE Play
  <2>1. /\ call = None /\ call' = None /\ room.status = "COLLECTING_ACTIONS"
        /\ room' = [room EXCEPT !.status = "AWAITING_SPARK"]
    BY <1>1 DEF Play
  <2>2. room \in Rooms
    BY DEF Kept, GoesOn, Ended
  <2>3. room'.status = "AWAITING_SPARK" /\ room'.entries = room.entries
    BY <2>1, <2>2 DEF Rooms
  <2>4. Tellers' = Tellers /\ Phase = "acting" /\ Phase' = "resolving"
    BY <2>1, <2>3 DEF Tellers, TalesOf, Phase, Resolving
  <2>5. Opened'
    BY <2>1, <2>3 DEF Opened
  <2> QED BY <2>4, <2>5, GameSteps
<1>2. CASE ResolveRound
  <2>1. /\ call = None /\ room' = room /\ room.status \in {"AWAITING_SPARK", "RESOLUTION_FAILED"}
        /\ call' = [op |-> "resolve_round", tool |-> Round, attempts |-> 1, room |-> room]
    BY <1>2 DEF ResolveRound
  <2>2. room \in Rooms
    BY DEF Kept, GoesOn, Ended
  <2>3. call' \in Calls /\ call'.op = "resolve_round" /\ call'.tool = Round
    BY <2>1, <2>2 DEF Calls
  <2>4. Resolving' /\ ~Resolving
    BY <2>1, <2>3, CallAssumption DEF Resolving
  <2>5. Tellers' = Tellers /\ Phase' = "resolving" /\ Phase \in {"resolving", "failed"}
    BY <2>1, <2>4 DEF Tellers, TalesOf, Phase
  <2>6. Opened'
    BY <2>1, <2>3 DEF Opened, Round, Ending
  <2> QED BY <2>5, <2>6, GameSteps
<1>3. CASE FallbackRound
  <2> DEFINE lines == << <<"template">> >>
  <2>1. PICK told \in Told(room, Teller("fallback_round"), lines) :
          SaveOrAsk("fallback_round", told, 1)
    BY <1>3 DEF FallbackRound, Teller
  <2>2. call = None /\ room.status = "RESOLUTION_FAILED"
    BY <1>3 DEF FallbackRound
  <2>3. GoesOn(room) /\ room \in Rooms
    BY <2>2 DEF Kept, Ended, GoesOn
  <2>4. lines \in Seq(Text)
    <3>1. <<"template">> \in Text
      BY StorytellerAssumption, OneElement DEF Text
    <3> QED BY <3>1, OneElement
  <2> HIDE DEF lines
  <2>5. PICK attempts \in 0..2, failure \in FailureCodes \cup {None} :
          room = [room EXCEPT !.attempts = attempts, !.failure = failure]
    <3>1. room = [room EXCEPT !.attempts = room.attempts, !.failure = room.failure]
          /\ room.attempts \in 0..2 /\ room.failure \in FailureCodes \cup {None}
      BY <2>3 DEF Rooms
    <3> QED BY <3>1
  <2>6. told \in Told([room EXCEPT !.attempts = attempts, !.failure = failure],
                      Teller("fallback_round"), lines)
    BY <2>1, <2>5
  <2>7. Phase = "failed"
    BY <2>2 DEF Phase, Resolving
  <2> DEFINE op == "fallback_round"
  <2>8. op \in {"resolve_round", "fallback_round"} /\ op # "resolve_round" /\ 1 \in 1..2
    OBVIOUS
  <2>9. SaveOrAsk(op, told, 1) /\ told \in Told([room EXCEPT !.attempts = attempts, !.failure = failure],
                                                Teller(op), lines)
    BY <2>1, <2>6
  <2> HIDE DEF op
  <2> QED BY <2>2, <2>3, <2>4, <2>7, <2>8, <2>9, ToldRefines
<1>4. CASE FinishGame
  <2>1. PICK status \in {"COLLECTING_ACTIONS", "COMPLETED"} :
          SaveOrAsk("finish_game", [room EXCEPT !.status = status], 1)
    BY <1>4 DEF FinishGame
  <2> DEFINE rm == [room EXCEPT !.status = status]
  <2>2. call = None /\ room.status = "COMPLETION_AVAILABLE" /\ room \in Rooms
    BY <1>4 DEF FinishGame, Kept, GoesOn, Ended
  <2>3. rm \in Rooms /\ rm.status = status /\ rm.entries = room.entries
    BY <2>2 DEF Rooms, Statuses
  <2> HIDE DEF rm
  <2>4. SaveOrAsk("finish_game", rm, 1)
    BY <2>1 DEF rm
  <2>5. CASE status = "COLLECTING_ACTIONS"
    <3>1. room' = rm /\ call' = None
      BY <2>3, <2>4, <2>5 DEF SaveOrAsk
    <3>2. Tellers' = Tellers /\ Phase' = Phase
      BY <2>2, <2>3, <2>5, <3>1 DEF Tellers, TalesOf, Phase, Resolving
    <3>3. Opened'
      BY <2>3, <2>5, <3>1 DEF Opened
    <3> QED BY <3>2, <3>3, GameSteps
  <2>6. CASE status = "COMPLETED"
    <3>1. /\ room' = room
          /\ call' = [op |-> "finish_game", tool |-> Ending, attempts |-> 1, room |-> rm]
      BY <2>3, <2>4, <2>6 DEF SaveOrAsk
    <3>2. call'.op = "finish_game" /\ call'.tool = Ending /\ call'.room = rm
      BY <3>1
    <3>3. Tellers' = Tellers /\ Phase' = Phase
      BY <2>2, <3>1, <3>2 DEF Tellers, TalesOf, Phase, Resolving
    <3>4. Opened'
      BY <2>2, <2>3, <3>1, <3>2 DEF Opened, Ending, Round
    <3> QED BY <3>3, <3>4, GameSteps
  <2> QED BY <2>5, <2>6
<1>5. ASSUME NEW answer \in Answers, Narrated(answer)
      PROVE  Opened' /\ (Game!Next \/ UNCHANGED Game!vars)
  <2>1. /\ call # None /\ call.tool = Round /\ Failure(answer, Round) = None
        /\ call \in Calls /\ call.room = room /\ GoesOn(room)
    BY <1>5 DEF Narrated, Asked, Kept
  <2>2. call.op = "resolve_round" /\ room.status \in {"AWAITING_SPARK", "RESOLUTION_FAILED"}
    BY <2>1 DEF Opened
  <2>3. answer.narrative # <<>> /\ TellsAll(answer.consequences)
    BY <2>1, NoneAssumption DEF Failure, FailureCode, FailureCodes
  <2> DEFINE lines == Composed(answer)
  <2>4. lines \in Seq(Text)
    BY <1>5, <2>3, ComposedTells
  <2> HIDE DEF lines
  <2>5. PICK told \in Told([room EXCEPT !.attempts = call.attempts, !.failure = None],
                           Teller(call.op), lines) : SaveOrAsk(call.op, told, call.attempts)
    BY <1>5, <2>1, <2>2 DEF Narrated, lines, Teller
  <2>6. call.attempts \in 1..2 /\ call.attempts \in 0..2
    BY <2>1 DEF Calls
  <2>7. Phase = "resolving"
    BY <2>1, <2>2 DEF Phase, Resolving
  <2>8. None \in FailureCodes \cup {None} /\ call.op \in {"resolve_round", "fallback_round"}
        /\ call.op # "fallback_round"
    BY <2>2
  <2> QED BY <2>1, <2>2, <2>4, <2>5, <2>6, <2>7, <2>8, ToldRefines
<1>6. ASSUME NEW answer \in Answers, AskAgain(answer)
      PROVE  Opened' /\ (Game!Next \/ UNCHANGED Game!vars)
  <2>1. /\ call # None /\ call.tool = Round /\ room' = room /\ call \in Calls
        /\ call.attempts < 2 /\ call' = [call EXCEPT !.attempts = @ + 1]
    BY <1>6 DEF AskAgain, Asked, Kept
  <2>2. call' \in Calls /\ call'.op = call.op /\ call'.tool = Round
    BY <2>1 DEF Calls
  <2>3. Tellers' = Tellers /\ Phase' = Phase
    BY <2>1, <2>2, CallAssumption DEF Tellers, TalesOf, Phase, Resolving
  <2>4. Opened'
    BY <2>1, <2>2 DEF Opened, Round, Ending
  <2> QED BY <2>3, <2>4, GameSteps
<1>7. ASSUME NEW answer \in Answers, RoundFails(answer)
      PROVE  Opened' /\ (Game!Next \/ UNCHANGED Game!vars)
  <2>1. /\ call # None /\ call.tool = Round /\ call.room = room /\ GoesOn(room) /\ call' = None
        /\ room' = [room EXCEPT !.status = "RESOLUTION_FAILED", !.attempts = call.attempts,
                                !.failure = Failure(answer, Round)]
    BY <1>7 DEF RoundFails, Asked, Kept
  <2>2. room'.status = "RESOLUTION_FAILED" /\ room'.entries = room.entries
    BY <2>1 DEF GoesOn, Rooms
  <2>3. call.op = "resolve_round" /\ room.status \in {"AWAITING_SPARK", "RESOLUTION_FAILED"}
    BY <2>1 DEF Opened
  <2>4. Tellers' = Tellers /\ Phase = "resolving" /\ Phase' = "failed"
    BY <2>1, <2>2, <2>3 DEF Tellers, TalesOf, Phase, Resolving
  <2>5. Opened'
    BY <2>1, <2>2 DEF Opened
  <2> QED BY <2>4, <2>5, GameSteps
<1>8. ASSUME NEW answer \in Answers, EndingTold(answer)
      PROVE  Opened' /\ (Game!Next \/ UNCHANGED Game!vars)
  BY <1>8, EndingRefines
<1>9. CASE Crash \/ \E answer \in Answers : EndingFails(answer)
  BY <1>9, GivenUpRefines DEF Crash, EndingFails
<1>10. CASE UNCHANGED vars
  <2>1. room' = room /\ call' = call
    BY <1>10 DEF vars
  <2>2. Phase' = Phase /\ Tellers' = Tellers
    BY <2>1 DEF Phase, Resolving, Tellers, TalesOf
  <2>3. Opened'
    BY <2>1 DEF Opened
  <2> QED BY <2>2, <2>3, GameSteps
<1> QED BY <1>1, <1>2, <1>3, <1>4, <1>5, <1>6, <1>7, <1>8, <1>9, <1>10 DEF Next, Answered

\* The synchronous mode keeps the promises of the asynchronous one: whichever call of the
\* model fails or is cut off, rounds are told once and in order, by the fallback only after
\* the storyteller failed, and what was told stays told (room_service.py:928-1200).
THEOREM StorytellerImplementsChronicle == Spec => ToldAsChronicle
<1>1. Init => Opened /\ Game!Init
  <2> SUFFICES ASSUME Init PROVE Opened /\ Phase = "acting" /\ Tellers = <<>>
    BY DEF Game!Init, Phase, Tellers, TellersOf
  <2>1. room.status = "COLLECTING_ACTIONS" /\ room.entries = <<>> /\ call = None
    BY DEF Init
  <2>2. Phase = "acting" /\ Opened
    BY <2>1 DEF Phase, Resolving, Opened
  <2>3. Tellers = <<>>
    BY <2>1 DEF Tellers, TalesOf, TellersOf
  <2> QED BY <2>2, <2>3
<1>2. Kept /\ Opened /\ [Next]_vars => Opened' /\ [Game!Next]_(Game!vars)
  BY StepRefines
<1> QED BY <1>1, <1>2, KeptIsInvariant, PTL DEF Spec, ToldAsChronicle, Game!Spec

==============================================================================
