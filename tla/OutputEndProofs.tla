--------------------------- MODULE OutputEndProofs ---------------------------
(***************************************************************************)
(* Proofs about OutputEnd, for any stop strings, stop tokens and limits:   *)
(* the engine's limits, what the client was streamed, the agreement of the *)
(* two followers of the grammar, and where a caller's stop ends an answer, *)
(* however far the engine runs ahead of the client.                        *)
(*                                                                         *)
(* A fold over a text is used through the function that defines it: one    *)
(* exists for texts of every length, shown at the least length without     *)
(* one, and two of them agree, shown at the least set on which they do not.*)
(***************************************************************************)
EXTENDS OutputEnd, FiniteSetTheorems, SequenceTheorems, TLAPS

\* A set of numbers has a least one.
LEMMA Least ==
    ASSUME NEW T \in SUBSET Nat, T # {}
    PROVE  \E n \in T : \A m \in T : n <= m
<1> DEFINE F == {0..n : n \in T}
<1>1. F \subseteq FiniteSubsetsOf(Nat) /\ F # {}
  <2>1. \A n \in T : IsFiniteSet(0..n) /\ 0..n \in SUBSET Nat
    BY FS_Interval
  <2> QED
    BY <2>1 DEF FiniteSubsetsOf
<1>2. PICK X \in F : \A Y \in F : <<Y, X>> \notin StrictSubsetOrdering(Nat)
  BY <1>1, WFMin, FS_StrictSubsetOrderingWellFounded
<1>3. PICK n \in T : X = 0..n
  OBVIOUS
<1>4. ASSUME NEW m \in T, m < n PROVE FALSE
  <2>1. 0..m \in F /\ 0..m \subseteq 0..n /\ n \notin 0..m /\ n \in 0..n
    BY <1>4
  <2>2. <<0..m, X>> \in StrictSubsetOrdering(Nat)
    BY <1>3, <2>1 DEF StrictSubsetOrdering
  <2> QED
    BY <1>2, <2>1, <2>2
<1> QED
  BY <1>4

-----------------------------------------------------------------------------
(* The limits of the engine.                                               *)

Closers == {i \in DOMAIN out : out[i] = "close"}

\* The engine counts a final response from its first explicit closer on, and
\* runs on only below both limits.
Counted ==
    /\ ask \in Asks /\ out \in Seq(Token)
    /\ final \in Nat \union {None}
    /\ final # None <=> ask.budget # None /\ Closers # {}
    /\ final # None => final \in Closers /\ \A j \in Closers : final <= j
    /\ Len(out) <= MaxTokens
    /\ status = "running" => Len(out) < MaxTokens
    /\ final # None => Len(out) - final <= ask.budget
    /\ final # None /\ status = "running" => Len(out) - final < ask.budget
    /\ status = "budget" => final # None /\ Len(out) - final = ask.budget

LEMMA AskTypes ==
    ASSUME ask \in Asks
    PROVE  ask.min \in Nat /\ ask.min <= MaxTokens /\ (ask.budget # None => ask.budget \in Nat \ {0})
<1>1. ask.min \in Minima /\ ask.budget \in Budgets
  BY DEF Asks
<1>2. MaxTokens \in Nat /\ ask.min \in 0..MaxTokens
  BY <1>1, SizesAssumption
<1>3. ask.budget \in (Nat \ {0}) \cup {None}
  BY <1>1, SizesAssumption
<1> QED
  BY <1>2, <1>3

LEMMA CountedInitially == Init => Counted
<1> SUFFICES ASSUME Init PROVE Counted
  OBVIOUS
<1>1. out \in Seq(Token) /\ Len(out) = 0 /\ Closers = {}
  BY DEF Init, Closers
<1> QED
  BY <1>1, SizesAssumption DEF Init, Counted

\* The token that reaches a limit ends the request, whatever else it does.
LEMMA CountedStep ==
    ASSUME Counted, NEW tok \in Token, Step(tok)
    PROVE  Counted'
<1> DEFINE n == Len(out)
<1>1. n \in Nat /\ DOMAIN out = 1..n /\ status = "running" /\ n < MaxTokens /\ MaxTokens \in Nat /\ None \notin Nat
  BY SizesAssumption DEF Counted, Step
<1>2. /\ out' = Append(out, tok) /\ out' \in Seq(Token) /\ Len(out') = n + 1 /\ DOMAIN out' = 1..(n + 1)
      /\ \A i \in 1..n : out'[i] = out[i]
      /\ out'[n + 1] = tok
  BY DEF Counted, Step
<1>3. ask' = ask /\ final' = FinalStart(tok) /\ status' = CheckStop(tok)
  BY DEF Step
<1>4. Closers' = IF tok = "close" THEN Closers \union {n + 1} ELSE Closers
  BY <1>1, <1>2 DEF Closers
<1>5. Closers \subseteq 1..n
  BY <1>1 DEF Closers
<1>6. final' = IF ask.budget # None /\ final = None /\ tok = "close" THEN n + 1 ELSE final
  BY <1>3 DEF FinalStart
<1>7. /\ final' \in Nat \union {None}
      /\ final' # None <=> ask.budget # None /\ Closers' # {}
      /\ final' # None => final' \in Closers' /\ \A j \in Closers' : final' <= j
  <2>1. CASE final # None
    BY <2>1, <1>1, <1>4, <1>5, <1>6 DEF Counted
  <2>2. CASE final = None
    BY <2>2, <1>1, <1>4, <1>5, <1>6 DEF Counted
  <2> QED
    BY <2>1, <2>2
<1>8. ask.min \in Nat /\ ask.min <= MaxTokens /\ (ask.budget # None => ask.budget \in Nat \ {0})
  BY AskTypes DEF Counted
<1>9. FinalBudgetReached <=> final # None /\ n + 1 - final >= ask.budget
  BY DEF FinalBudgetReached, Counted
<1>10. status' = "running" => n + 1 < MaxTokens /\ ~FinalBudgetReached
  BY <1>1, <1>3, <1>8 DEF CheckStop
<1>11. status' = "budget" => FinalBudgetReached
  BY <1>3 DEF CheckStop
<1>12. /\ final' # None => n + 1 - final' <= ask.budget
       /\ final' # None /\ status' = "running" => n + 1 - final' < ask.budget
       /\ status' = "budget" => final' # None /\ n + 1 - final' = ask.budget
  <2>1. CASE final # None
    <3>1. final \in Nat /\ final' = final /\ ask.budget \in Nat /\ n - final < ask.budget
      BY <2>1, <1>1, <1>6, <1>8 DEF Counted
    <3> HIDE DEF n
    <3> QED
      BY <2>1, <3>1, <1>1, <1>9, <1>10, <1>11
  <2>2. CASE final = None
    <3>1. final' # None => final' = n + 1 /\ ask.budget \in Nat \ {0}
      BY <2>2, <1>6, <1>8
    <3>2. status' # "budget"
      BY <2>2, <1>9, <1>11
    <3> HIDE DEF n
    <3> QED
      BY <3>1, <3>2, <1>1
  <2> QED
    BY <2>1, <2>2
<1> QED
  BY <1>1, <1>2, <1>3, <1>7, <1>10, <1>12 DEF Counted

LEMMA CountedInductive == Counted /\ [Next]_vars => Counted'
<1> SUFFICES ASSUME Counted, [Next]_vars PROVE Counted'
  OBVIOUS
<1>1. CASE \E tok \in Token : Step(tok)
  BY <1>1, CountedStep
<1>2. CASE Abort
  BY <1>2 DEF Abort, Counted, Closers
<1>3. CASE Receive \/ Over \/ UNCHANGED vars
  BY <1>3 DEF Receive, Over, vars, engine, Counted, Closers
<1> QED
  BY <1>1, <1>2, <1>3 DEF Next

\* max_tokens and the final response's budget are exact, min_tokens
\* notwithstanding: no output is longer, and a request that has used either up
\* is over.
THEOREM LimitsHold == Spec => []LimitsAreExact
<1>1. Counted => LimitsAreExact
  <2> SUFFICES ASSUME Counted PROVE LimitsAreExact
    OBVIOUS
  <2> DEFINE used == IF Closers = {} THEN 0
                     ELSE Len(out) - CHOOSE i \in Closers : \A j \in Closers : i <= j
  <2>1. Len(out) \in Nat /\ MaxTokens \in Nat /\ Closers \subseteq Nat /\ None \notin Nat
    BY SizesAssumption DEF Counted, Closers
  <2>2. ask.budget # None => ask.budget \in Nat \ {0}
    BY AskTypes DEF Counted
  <2>3. ASSUME ask.budget # None
        PROVE  /\ used <= ask.budget
               /\ used = ask.budget => status # "running"
               /\ status = "budget" => used = ask.budget
    <3>1. CASE Closers = {}
      BY <2>2, <2>3, <3>1 DEF Counted
    <3>2. CASE Closers # {}
      <4>1. final # None /\ final \in Nat
        BY <2>3, <3>2, <2>1 DEF Counted
      <4>2. (CHOOSE i \in Closers : \A j \in Closers : i <= j) = final
        <5> DEFINE c == CHOOSE i \in Closers : \A j \in Closers : i <= j
        <5>1. final \in Closers /\ \A j \in Closers : final <= j
          BY <4>1 DEF Counted
        <5>2. c \in Closers /\ \A j \in Closers : c <= j
          BY <5>1
        <5> HIDE DEF c
        <5>3. c = final
          BY <5>1, <5>2, <2>1
        <5> QED
          BY <5>3 DEF c
      <4>3. used = Len(out) - final
        BY <3>2, <4>2
      <4> HIDE DEF used
      <4> QED
        BY <4>1, <4>3, <2>1, <2>2, <2>3 DEF Counted
    <3> QED
      BY <3>1, <3>2
  <2> QED
    BY <2>1, <2>3 DEF Counted, LimitsAreExact, Closers
<1> QED
  BY <1>1, CountedInitially, CountedInductive, PTL DEF Spec

-----------------------------------------------------------------------------
(* What the client was sent.                                               *)

Chars == {"a", "<", ">", "/"}
Message == [tok : Token, end : {"running", "eos", "token", "budget", "length"}]

\* While the answer goes on, the stream stays behind the text by the buffer.
HeldBack ==
    /\ text \in Seq(Chars) /\ wire \in Seq(Message)
    /\ sent \in Nat /\ sent <= Len(text)
    /\ result = None => sent = 0 \/ sent <= Len(text) - StopBufferLength

\* No stop is empty, and none is longer than the longest.
LEMMA StopsAreWords ==
    /\ Len(Stops) \in Nat \ {0} /\ DOMAIN Stops = 1..Len(Stops)
    /\ \A k \in DOMAIN Stops : Stops[k] \in Seq(Chars) /\ Len(Stops[k]) \in Nat \ {0}
<1>1. Stops \in Seq(Seq(Chars) \ {<<>>}) /\ Stops # <<>>
  BY StopsAssumption DEF Chars
<1>2. \A s \in Seq(Chars) \ {<<>>} : Len(s) \in Nat \ {0}
  BY EmptySeq
<1> QED
  BY <1>1, <1>2, EmptySeq, LenProperties, ElementOfSeq

\* One of some numbers is the greatest.
LEMMA Greatest ==
    ASSUME NEW n \in Nat \ {0}, NEW f \in [1..n -> Nat]
    PROVE  \E k \in 1..n : \A j \in 1..n : f[j] <= f[k]
<1> DEFINE Below(m) == \E k \in 1..m : \A j \in 1..m : f[j] <= f[k]
           T == {m \in 1..n : ~Below(m)}
<1>1. ASSUME T # {} PROVE FALSE
  <2>1. PICK m \in T : \A l \in T : m <= l
    <3>1. T \in SUBSET Nat
      OBVIOUS
    <3> HIDE DEF T
    <3> QED
      BY <1>1, <3>1, Least
  <2>2. m \in 1..n /\ ~Below(m) /\ \A l \in 1..n : l < m => Below(l)
    BY <2>1
  <2>3. m # 1
    BY <2>2
  <2>4. m - 1 \in 1..n /\ m - 1 < m
    BY <2>2, <2>3
  <2>5. PICK k \in 1..(m - 1) : \A j \in 1..(m - 1) : f[j] <= f[k]
    BY <2>2, <2>4
  <2>6. f[k] \in Nat /\ f[m] \in Nat /\ k \in 1..m /\ m \in 1..m /\ \A j \in 1..m : j = m \/ j \in 1..(m - 1)
    BY <2>2, <2>4, <2>5
  <2>7. \A j \in 1..m : f[j] \in Nat
    BY <2>2
  <2>8. CASE f[m] <= f[k]
    BY <2>2, <2>5, <2>6, <2>8
  <2>9. CASE f[k] <= f[m]
    <3>1. \A j \in 1..m : f[j] <= f[m]
      BY <2>5, <2>6, <2>7, <2>9
    <3> QED
      BY <2>2, <2>6, <3>1
  <2> QED
    BY <2>6, <2>8, <2>9
<1>2. n \in 1..n
  OBVIOUS
<1> QED
  BY <1>1, <1>2

LEMMA LongestIs == Longest \in Nat \ {0} /\ \A k \in DOMAIN Stops : Len(Stops[k]) <= Longest
<1> DEFINE f == [i \in 1..Len(Stops) |-> Len(Stops[i])]
           L == {Len(Stops[i]) : i \in DOMAIN Stops}
<1>1. Len(Stops) \in Nat \ {0} /\ DOMAIN Stops = 1..Len(Stops)
      /\ \A k \in 1..Len(Stops) : Len(Stops[k]) \in Nat \ {0}
  BY StopsAreWords
<1>2. f \in [1..Len(Stops) -> Nat]
  BY <1>1
<1>3. PICK k \in 1..Len(Stops) : \A j \in 1..Len(Stops) : f[j] <= f[k]
  <2> HIDE DEF f
  <2> QED
    BY <1>1, <1>2, Greatest
<1>4. Len(Stops[k]) \in L /\ \A j \in DOMAIN Stops : Len(Stops[j]) <= Len(Stops[k])
  BY <1>1, <1>3
<1>5. Longest \in L /\ \A j \in DOMAIN Stops : Len(Stops[j]) <= Longest
  BY <1>4 DEF Longest
<1> QED
  BY <1>1, <1>5

\* Place i of the text holds s: it uses one of the last new characters, and
\* none that is protected.
Hit(chars, new, s, spans, i) ==
    /\ i \in Nat /\ i + Len(s) <= Len(chars) /\ i >= Len(chars) + 1 - new - Len(s)
    /\ SubSeq(chars, i + 1, i + Len(s)) = s
    /\ ~Overlaps(spans, i, i + Len(s))

\* The first such place is found, ...
LEMMA FindFinds ==
    ASSUME NEW chars \in Seq(Chars), NEW new \in Nat, NEW s \in Seq(Chars), NEW spans
    PROVE  /\ Find(chars, new, s, spans) = None => \A i \in Nat : ~Hit(chars, new, s, spans, i)
           /\ Find(chars, new, s, spans) # None =>
                 /\ Hit(chars, new, s, spans, Find(chars, new, s, spans))
                 /\ \A i \in Nat : Hit(chars, new, s, spans, i) => Find(chars, new, s, spans) <= i
<1> DEFINE from  == Len(chars) + 1 - new - Len(s)
           Here(i) == /\ i >= from
                      /\ SubSeq(chars, i + 1, i + Len(s)) = s
                      /\ ~Overlaps(spans, i, i + Len(s))
           hits  == {i \in 0..(Len(chars) - Len(s)) : Here(i)}
<1>1. Find(chars, new, s, spans) = IF hits = {} THEN None ELSE CHOOSE i \in hits : \A j \in hits : i <= j
  BY DEF Find
<1>2. Len(chars) \in Nat /\ Len(s) \in Nat
  BY LenProperties
<1>3. \A i : i \in hits <=> Hit(chars, new, s, spans, i)
  <2>1. \A i : i \in 0..(Len(chars) - Len(s)) <=> i \in Nat /\ i + Len(s) <= Len(chars)
    BY <1>2
  <2>2. \A i : i \in hits <=> i \in 0..(Len(chars) - Len(s)) /\ Here(i)
    OBVIOUS
  <2> HIDE DEF hits
  <2> QED
    BY <2>1, <2>2 DEF Hit
<1>4. hits \in SUBSET Nat
  <2> HIDE DEF hits
  <2> QED
    BY <1>3 DEF Hit
<1> HIDE DEF hits
<1>5. CASE hits = {}
  BY <1>1, <1>3, <1>5
<1>6. CASE hits # {}
  <2>1. \E i \in hits : \A j \in hits : i <= j
    BY <1>4, <1>6, Least
  <2>2. Find(chars, new, s, spans) \in hits /\ \A j \in hits : Find(chars, new, s, spans) <= j
    BY <1>1, <1>6, <2>1
  <2>3. Find(chars, new, s, spans) # None
    BY <1>4, <2>2, SizesAssumption
  <2> QED
    BY <1>3, <2>2, <2>3
<1> QED
  BY <1>5, <1>6

\* ... and of the stops so found, the one that completes first.
LEMMA StopIsFound ==
    ASSUME NEW chars \in Seq(Chars), NEW new \in Nat, NEW spans
    PROVE  /\ CheckStopStrings(chars, new, spans) # None =>
                 \E k \in DOMAIN Stops, i \in Nat :
                    /\ CheckStopStrings(chars, new, spans) = <<k, i>>
                    /\ Hit(chars, new, Stops[k], spans, i)
                    /\ \A l \in DOMAIN Stops, j \in Nat : Hit(chars, new, Stops[l], spans, j) =>
                          i + Len(Stops[k]) <= j + Len(Stops[l])
           /\ CheckStopStrings(chars, new, spans) = None =>
                 \A k \in DOMAIN Stops, i \in Nat : ~Hit(chars, new, Stops[k], spans, i)
<1> DEFINE place == [k \in DOMAIN Stops |-> Find(chars, new, Stops[k], spans)]
           hits  == {k \in DOMAIN Stops : new > 0 /\ place[k] # None}
           End(k) == place[k] + Len(Stops[k])
           best == CHOOSE k \in hits : \A l \in hits : End(k) <= End(l)
<1>1. CheckStopStrings(chars, new, spans) = IF hits = {} THEN None ELSE <<best, place[best]>>
  BY DEF CheckStopStrings
<1>2. \A k \in DOMAIN Stops : Stops[k] \in Seq(Chars) /\ Len(Stops[k]) \in Nat \ {0}
  BY StopsAreWords
<1>3. Len(chars) \in Nat
  BY LenProperties
<1>4. \A k \in DOMAIN Stops :
         /\ place[k] = None => \A i \in Nat : ~Hit(chars, new, Stops[k], spans, i)
         /\ place[k] # None => /\ Hit(chars, new, Stops[k], spans, place[k])
                               /\ \A i \in Nat : Hit(chars, new, Stops[k], spans, i) => place[k] <= i
  BY <1>2, FindFinds
<1>5. \A k \in hits : k \in DOMAIN Stops /\ place[k] # None /\ place[k] \in Nat /\ Len(Stops[k]) \in Nat
  <2>1. \A k \in hits : k \in DOMAIN Stops /\ place[k] # None
    OBVIOUS
  <2> HIDE DEF hits, place
  <2> QED
    BY <1>2, <1>4, <2>1 DEF Hit
\* Without new characters no place uses one.
<1>6. ASSUME NEW k \in DOMAIN Stops, NEW i \in Nat, Hit(chars, new, Stops[k], spans, i)
      PROVE  k \in hits /\ place[k] <= i
  <2>1. place[k] # None /\ place[k] <= i
    BY <1>4, <1>6
  <2>2. new > 0
    <3>1. i + Len(Stops[k]) <= Len(chars) /\ i >= Len(chars) + 1 - new - Len(Stops[k]) /\ Len(Stops[k]) \in Nat
      BY <1>2, <1>6 DEF Hit
    <3> QED
      BY <1>3, <3>1
  <2> QED
    BY <2>1, <2>2
<1> HIDE DEF hits, place
<1>7. CASE hits = {}
  BY <1>1, <1>6, <1>7
<1>8. CASE hits # {}
  <2>1. \E k \in hits : \A l \in hits : End(k) <= End(l)
    <3> DEFINE T == {End(k) : k \in hits}
    <3>1. T \in SUBSET Nat /\ T # {}
      <4>1. ASSUME NEW k \in hits PROVE End(k) \in Nat
        <5>1. place[k] \in Nat /\ Len(Stops[k]) \in Nat
          BY <1>5
        <5> QED
          BY <5>1
      <4> HIDE DEF End
      <4> QED
        BY <1>8, <4>1
    <3>2. PICK e \in T : \A d \in T : e <= d
      <4> HIDE DEF T
      <4> QED
        BY <3>1, Least
    <3>3. PICK k \in hits : e = End(k)
      BY <3>2
    <3> QED
      BY <3>2, <3>3
  <2>2. best \in hits /\ \A l \in hits : End(best) <= End(l)
    BY <2>1
  <2> HIDE DEF best
  <2>3. best \in DOMAIN Stops /\ place[best] \in Nat /\ Hit(chars, new, Stops[best], spans, place[best])
    BY <1>4, <1>5, <2>2
  <2>4. ASSUME NEW l \in DOMAIN Stops, NEW j \in Nat, Hit(chars, new, Stops[l], spans, j)
        PROVE  place[best] + Len(Stops[best]) <= j + Len(Stops[l])
    <3>1. l \in hits /\ place[l] <= j
      BY <1>6, <2>4
    <3>2. place[best] + Len(Stops[best]) <= place[l] + Len(Stops[l])
      BY <2>2, <3>1
    <3>3. place[l] \in Nat /\ Len(Stops[l]) \in Nat /\ place[best] \in Nat /\ Len(Stops[best]) \in Nat
      BY <1>5, <2>2, <3>1
    <3> QED
      BY <3>1, <3>2, <3>3
  <2>5. CheckStopStrings(chars, new, spans) = <<best, place[best]>>
    BY <1>1, <1>8
  <2>6. <<best, place[best]>> # None
    <3>1. best \in Nat
      BY <2>3, StopsAreWords
    <3> QED
      BY <2>3, <3>1, SizesAssumption
  <2> QED
    BY <2>3, <2>4, <2>5, <2>6
<1> QED
  BY <1>7, <1>8

LEMMA TextsAreTexts == \A tok \in Token : TextOf[tok] \in Seq(Chars)
<1>1. /\ <<"a">> \in Seq(Chars) /\ <<"<">> \in Seq(Chars) /\ <<">">> \in Seq(Chars)
      /\ <<">", "a">> \in Seq(Chars) /\ <<"/">> \in Seq(Chars) /\ <<>> \in Seq(Chars)
  BY DEF Chars
<1>2. Token = {"plain", "open", "shut", "tail", "close", "eos"}
  BY DEF Token, TextOf
<1>3. /\ TextOf["plain"] = <<"a">> /\ TextOf["open"] = <<"<">> /\ TextOf["shut"] = <<">">>
      /\ TextOf["tail"] = <<">", "a">> /\ TextOf["close"] = <<"/">> /\ TextOf["eos"] = <<>>
  BY DEF TextOf
<1> QED
  BY <1>1, <1>2, <1>3

\* The buffer is as long as what a stop found later may still take back.
LEMMA HeldBackUpdate ==
    ASSUME HeldBack, result = None, NEW m \in Message, Update(m)
    PROVE  /\ text' \in Seq(Chars) /\ sent' \in Nat /\ sent' <= Len(text')
           /\ result' = None => sent' = 0 \/ sent' <= Len(text') - StopBufferLength
<1> DEFINE skipped == m.end \in {"eos", "token"} /\ ~ask.include
           fed     == IF skipped THEN checker ELSE Feed(m.tok)
           new     == IF skipped THEN <<>> ELSE TextOf[m.tok]
           chars   == text \o new
           stop    == IF seen + 1 > ask.min
                      THEN CheckStopStrings(chars, Len(new), fed.spans) ELSE None
           cut     == IF stop = None THEN Len(chars)
                      ELSE IF ask.include THEN stop[2] + Len(Stops[stop[1]])
                      ELSE stop[2]
           end     == IF stop # None THEN "string"
                      ELSE IF m.end # "running" THEN m.end ELSE None
           ready   == IF end # None THEN cut ELSE cut - StopBufferLength
<1>1. text' = SubSeq(chars, 1, cut) /\ result' = end /\ sent' = IF sent < ready THEN ready ELSE sent
  BY DEF Update
<1>2. new \in Seq(Chars)
  BY TextsAreTexts DEF Message
<1>3. stop # None => stop = CheckStopStrings(chars, Len(new), fed.spans)
  OBVIOUS
<1>4. stop # None => end = "string" /\ end # None
  <2> HIDE DEF stop
  <2> QED
    BY SizesAssumption
<1> HIDE DEF new, fed, stop
<1>5. /\ text \in Seq(Chars) /\ Len(text) \in Nat /\ Len(new) \in Nat
      /\ chars \in Seq(Chars) /\ Len(chars) = Len(text) + Len(new)
  BY <1>2, LenProperties, ConcatProperties DEF HeldBack
<1> HIDE DEF chars
<1>6. StopBufferLength \in Nat /\ (~ask.include => StopBufferLength = Longest - 1)
  BY LongestIs DEF StopBufferLength
<1>7. cut \in 0..Len(chars) /\ (stop = None => cut = Len(chars)) /\ sent <= cut
  <2>1. CASE stop = None
    BY <2>1, <1>5 DEF HeldBack
  <2>2. CASE stop # None
    <3>1. PICK k \in DOMAIN Stops, i \in Nat : stop = <<k, i>> /\ Hit(chars, Len(new), Stops[k], fed.spans, i)
      BY <2>2, <1>3, <1>5, StopIsFound
    <3>2. i + Len(Stops[k]) <= Len(chars) /\ i >= Len(chars) + 1 - Len(new) - Len(Stops[k])
      BY <3>1 DEF Hit
    <3>3. Len(Stops[k]) \in Nat \ {0} /\ Len(Stops[k]) <= Longest /\ Longest \in Nat \ {0}
      BY StopsAreWords, LongestIs
    <3>4. cut = (IF ask.include THEN i + Len(Stops[k]) ELSE i) /\ i \in Nat
      BY <2>2, <3>1
    <3> HIDE DEF cut
    <3>5. CASE ask.include
      BY <1>5, <2>2, <3>2, <3>3, <3>4, <3>5 DEF HeldBack
    <3>6. CASE ~ask.include
      <4>1. sent = 0 \/ sent <= Len(text) - (Longest - 1)
        BY <1>6, <3>6 DEF HeldBack
      <4>2. sent \in Nat
        BY DEF HeldBack
      <4> QED
        BY <1>5, <2>2, <3>2, <3>3, <3>4, <3>6, <4>1, <4>2
    <3> QED
      BY <3>5, <3>6
  <2> QED
    BY <2>1, <2>2
<1>8. text' \in Seq(Chars) /\ Len(text') = cut
  <2>1. \A i \in 1..cut : chars[i] \in Chars
    BY <1>5, <1>7, ElementOfSeq
  <2> QED
    BY <1>1, <1>7, <1>5, <2>1, SubSeqProperties
<1>9. result' = None => stop = None /\ ready = cut - StopBufferLength
  BY <1>1, <1>4
<1>10. ready = cut \/ ready = cut - StopBufferLength
  OBVIOUS
<1> HIDE DEF cut, ready, end
<1>11. sent \in Nat /\ (sent = 0 \/ sent <= Len(text) - StopBufferLength)
  BY DEF HeldBack
<1> QED
  BY <1>1, <1>5, <1>6, <1>7, <1>8, <1>9, <1>10, <1>11

LEMMA HeldBackInductive == HeldBack /\ [Next]_vars => HeldBack'
<1> SUFFICES ASSUME HeldBack, [Next]_vars PROVE HeldBack'
  OBVIOUS
<1>1. ASSUME NEW tok \in Token, Step(tok) PROVE HeldBack'
  <2>1. [tok |-> tok, end |-> CheckStop(tok)] \in Message
    BY DEF CheckStop, Message
  <2>2. wire' \in Seq(Message)
    BY <1>1, <2>1, AppendProperties DEF Step, HeldBack
  <2> QED
    BY <1>1, <2>2 DEF Step, HeldBack, front, StopBufferLength
<1>2. CASE Receive
  <2>1. Head(wire) \in Message /\ wire' \in Seq(Message) /\ ask' = ask
    BY <1>2, HeadTailProperties DEF Receive, HeldBack
  <2>2. StopBufferLength' = StopBufferLength
    BY <2>1 DEF StopBufferLength
  <2>3. CASE result = None
    BY <1>2, <2>1, <2>2, <2>3, HeldBackUpdate DEF Receive, HeldBack
  <2>4. CASE result # None
    BY <1>2, <2>1, <2>2, <2>4 DEF Receive, HeldBack, front
  <2> QED
    BY <2>3, <2>4
<1>3. CASE Abort
  BY <1>3 DEF Abort, HeldBack, front, StopBufferLength
<1>4. CASE Over \/ UNCHANGED vars
  BY <1>4 DEF Over, vars, HeldBack, front, StopBufferLength
<1> QED
  BY <1>1, <1>2, <1>3, <1>4 DEF Next

\* No cut takes back a character that was already streamed, for any stops.
THEOREM StreamIsFinal == Spec => []DeliveredIsFinal
<1>1. Init => HeldBack
  BY DEF Init, HeldBack
<1>2. HeldBack => DeliveredIsFinal
  BY DEF HeldBack, DeliveredIsFinal
<1> QED
  BY <1>1, <1>2, HeldBackInductive, PTL DEF Spec

-----------------------------------------------------------------------------
(* What reading does, one character after the other.                       *)

\* The function by which the fold of the text is defined.
ReadsOn(f, D, g, s) ==
    f = [T \in SUBSET D |-> IF T = {} THEN g ELSE After(f[T \ {Max(T)}], s[Max(T)])]

LEMMA ReadIs ==
    ASSUME NEW g, NEW s
    PROVE  Read(g, s) = (CHOOSE f : ReadsOn(f, DOMAIN s, g, s))[DOMAIN s]
BY DEF Read, FoldLeft, MapThenFoldSet, ReadsOn

LEMMA MaxIs ==
    ASSUME NEW n \in Nat, NEW T \in SUBSET (1..n), T # {}
    PROVE  Max(T) \in T /\ \A y \in T : y <= Max(T)
<1> DEFINE R == {n - y : y \in T}
<1>1. PICK r \in R : \A q \in R : r <= q
  <2>1. R \in SUBSET Nat /\ R # {}
    <3>1. \A y \in T : y \in 1..n
      OBVIOUS
    <3>2. \A y \in T : n - y \in Nat
      BY <3>1
    <3> QED
      BY <3>2
  <2> HIDE DEF R
  <2> QED
    BY <2>1, Least
<1>2. PICK x \in T : r = n - x
  OBVIOUS
<1>3. \A y \in T : n - x <= n - y
  BY <1>1, <1>2
<1>4. \A y \in T : x >= y
  BY <1>3
<1> QED
  BY <1>4 DEF Max

LEMMA MaxOfOne ==
    ASSUME NEW n \in Nat, NEW T \in SUBSET (1..n), NEW m \in T, \A y \in T : y <= m
    PROVE  Max(T) = m
<1>1. Max(T) \in T /\ m <= Max(T)
  BY MaxIs
<1>2. Max(T) <= m /\ Max(T) \in 1..n /\ m \in 1..n
  BY <1>1
<1> QED
  BY <1>1, <1>2

\* It exists for texts of every length, ...
LEMMA ReadsExist ==
    ASSUME NEW g, NEW s
    PROVE  \A n \in Nat : \E f : ReadsOn(f, 1..n, g, s)
<1> DEFINE B == {n \in Nat : ~ \E f : ReadsOn(f, 1..n, g, s)}
<1>1. ASSUME B # {} PROVE FALSE
  <2>1. PICK n \in B : \A m \in B : n <= m
    <3>1. B \in SUBSET Nat
      OBVIOUS
    <3> HIDE DEF B
    <3> QED
      BY <1>1, <3>1, Least
  <2>2. n \in Nat /\ (~ \E f : ReadsOn(f, 1..n, g, s)) /\ \A m \in Nat : m < n => \E f : ReadsOn(f, 1..m, g, s)
    BY <2>1
  <2>3. CASE n = 0
    <3> DEFINE f == [T \in SUBSET (1..n) |-> g]
    <3>1. \A T \in SUBSET (1..n) : T = {}
      BY <2>3
    <3>2. ReadsOn(f, 1..n, g, s)
      BY <3>1 DEF ReadsOn
    <3> QED
      BY <2>2, <3>2
  <2>4. CASE n # 0
    <3>1. n - 1 \in Nat /\ n - 1 < n
      BY <2>2, <2>4
    <3>2. PICK e : ReadsOn(e, 1..(n - 1), g, s)
      BY <2>2, <3>1
    <3> DEFINE f == [T \in SUBSET (1..n) |-> IF n \in T THEN After(e[T \ {n}], s[n]) ELSE e[T]]
    <3>3. ASSUME NEW T \in SUBSET (1..n)
          PROVE  f[T] = IF T = {} THEN g ELSE After(f[T \ {Max(T)}], s[Max(T)])
      <4>1. CASE n \in T
        <5>1. Max(T) = n
          BY <4>1, <2>2, MaxOfOne
        <5>2. T \ {n} \in SUBSET (1..n) /\ n \notin T \ {n}
          OBVIOUS
        <5>3. f[T \ {n}] = e[T \ {n}] /\ f[T] = After(e[T \ {n}], s[n])
          BY <4>1, <5>2
        <5> QED
          BY <4>1, <5>1, <5>3
      <4>2. CASE n \notin T
        <5>1. T \in SUBSET (1..(n - 1)) /\ f[T] = e[T]
          BY <4>2, <2>2, <3>1
        <5>2. e[T] = IF T = {} THEN g ELSE After(e[T \ {Max(T)}], s[Max(T)])
          BY <3>2, <5>1 DEF ReadsOn
        <5>3. T \ {Max(T)} \in SUBSET (1..n) /\ n \notin T \ {Max(T)}
          BY <4>2
        <5>4. f[T \ {Max(T)}] = e[T \ {Max(T)}]
          BY <5>3
        <5> QED
          BY <5>1, <5>2, <5>4
      <4> QED
        BY <4>1, <4>2
    <3>4. f = [T \in SUBSET (1..n) |-> f[T]]
      OBVIOUS
    <3> HIDE DEF f
    <3>5. ReadsOn(f, 1..n, g, s)
      BY <3>3, <3>4 DEF ReadsOn
    <3> QED
      BY <2>2, <3>5
  <2> QED
    BY <2>3, <2>4
<1> QED
  BY <1>1

\* ... and depends on what it has read only.
Agree(s, t, n) == \A i \in 1..n : s[i] = t[i]

LEMMA ReadsAgree ==
    ASSUME NEW g, NEW s, NEW t, NEW n \in Nat, NEW m \in Nat, n <= m, Agree(s, t, n),
           NEW f, NEW h, ReadsOn(f, 1..n, g, s), ReadsOn(h, 1..m, g, t)
    PROVE  f[1..n] = h[1..n]
<1> DEFINE B == {T \in SUBSET (1..n) : f[T] # h[T]}
<1>1. ASSUME B # {} PROVE FALSE
  <2>1. IsFiniteSet(1..n)
    BY FS_Interval
  <2>2. B \subseteq FiniteSubsetsOf(1..n)
    BY <2>1, FS_FiniteSubsetsOfFinite
  <2>3. PICK T \in B : \A U \in B : <<U, T>> \notin StrictSubsetOrdering(1..n)
    <3> HIDE DEF B
    <3> QED
      BY <1>1, <2>2, FS_StrictSubsetOrderingWellFounded, WFMin
  <2>4. T \in SUBSET (1..n) /\ T \in SUBSET (1..m) /\ f[T] # h[T]
    OBVIOUS
  <2>5. /\ f[T] = IF T = {} THEN g ELSE After(f[T \ {Max(T)}], s[Max(T)])
        /\ h[T] = IF T = {} THEN g ELSE After(h[T \ {Max(T)}], t[Max(T)])
    BY <2>4 DEF ReadsOn
  <2>6. T # {} /\ Max(T) \in T
    BY <2>4, <2>5, MaxIs
  <2> DEFINE U == T \ {Max(T)}
  <2>7. U \in SUBSET (1..n) /\ <<U, T>> \in StrictSubsetOrdering(1..n)
    BY <2>4, <2>6 DEF StrictSubsetOrdering
  <2>8. f[U] = h[U]
    BY <2>3, <2>7
  <2> QED
    BY <2>4, <2>5, <2>6, <2>8 DEF Agree
<1>2. 1..n \in SUBSET (1..n)
  OBVIOUS
<1> QED
  BY <1>1, <1>2

LEMMA ReadNothing == \A g : Read(g, <<>>) = g
<1> SUFFICES ASSUME NEW g PROVE Read(g, <<>>) = g
  OBVIOUS
<1>1. DOMAIN <<>> = 1..0
  OBVIOUS
<1> DEFINE f == CHOOSE f : ReadsOn(f, 1..0, g, <<>>)
<1>2. ReadsOn(f, 1..0, g, <<>>)
  BY ReadsExist
<1>3. Read(g, <<>>) = f[1..0]
  BY <1>1, ReadIs
<1> HIDE DEF f
<1>4. 1..0 = {}
  OBVIOUS
<1>5. f[1..0] = g
  BY <1>2, <1>4 DEF ReadsOn
<1> QED
  BY <1>3, <1>5

\* One more character is read after the others.
LEMMA ReadOneMore ==
    ASSUME NEW g, NEW S, NEW s \in Seq(S), NEW c \in S
    PROVE  Read(g, Append(s, c)) = After(Read(g, s), c)
<1> DEFINE n == Len(s)
           t == Append(s, c)
<1>1. n \in Nat /\ DOMAIN s = 1..n
  BY LenProperties
<1>2. t \in Seq(S) /\ Len(t) = n + 1 /\ (\A i \in 1..n : t[i] = s[i]) /\ t[n + 1] = c
  BY AppendProperties
<1>3. DOMAIN t = 1..(n + 1)
  BY <1>2, LenProperties
<1> HIDE DEF n, t
<1>4. PICK f : ReadsOn(f, 1..n, g, s) /\ Read(g, s) = f[1..n]
  BY <1>1, ReadsExist, ReadIs
<1>5. PICK h : ReadsOn(h, 1..(n + 1), g, t) /\ Read(g, t) = h[1..(n + 1)]
  <2>1. n + 1 \in Nat
    BY <1>1
  <2> QED
    BY <2>1, <1>3, ReadsExist, ReadIs
<1>6. h[1..n] = f[1..n]
  <2>1. PICK m \in Nat : m = n + 1
    BY <1>1
  <2>2. n \in Nat /\ n <= m /\ ReadsOn(f, 1..n, g, s) /\ ReadsOn(h, 1..m, g, t)
    BY <1>1, <1>4, <1>5, <2>1
  <2>3. Agree(s, t, n)
    BY <1>2 DEF Agree
  <2>4. f[1..n] = h[1..n]
    BY <2>1, <2>2, <2>3, ReadsAgree
  <2> QED
    BY <2>4
<1>7. 1..(n + 1) # {} /\ Max(1..(n + 1)) = n + 1 /\ (1..(n + 1)) \ {n + 1} = 1..n
  <2>1. n + 1 \in Nat /\ n + 1 \in 1..(n + 1) /\ \A y \in 1..(n + 1) : y <= n + 1
    BY <1>1
  <2>2. Max(1..(n + 1)) = n + 1
    BY <2>1, MaxOfOne
  <2> QED
    BY <1>1, <2>1, <2>2
<1>8. h[1..(n + 1)] = After(h[1..n], t[n + 1])
  BY <1>5, <1>7 DEF ReadsOn
<1> QED
  BY <1>2, <1>4, <1>5, <1>6, <1>8 DEF t

LEMMA ReadOne ==
    ASSUME NEW g, NEW c \in Chars
    PROVE  Read(g, <<c>>) = After(g, c)
<1>1. <<c>> = Append(<<>>, c) /\ <<>> \in Seq(Chars)
  OBVIOUS
<1>2. Read(g, Append(<<>>, c)) = After(Read(g, <<>>), c)
  BY <1>1, ReadOneMore, ZenonT(60)
<1>3. Read(g, <<>>) = g
  BY ReadNothing
<1>4. Read(g, <<c>>) = Read(g, Append(<<>>, c))
  BY <1>1
<1> QED
  BY <1>2, <1>3, <1>4

LEMMA ReadTwo ==
    ASSUME NEW g, NEW c \in Chars, NEW d \in Chars
    PROVE  Read(g, <<c, d>>) = After(After(g, c), d)
<1>1. <<c, d>> = Append(<<c>>, d) /\ <<c>> \in Seq(Chars)
  OBVIOUS
<1>2. Read(g, Append(<<c>>, d)) = After(Read(g, <<c>>), d)
  BY <1>1, ReadOneMore, ZenonT(60)
<1>3. Read(g, <<c>>) = After(g, c)
  BY ReadOne
<1>4. Read(g, <<c, d>>) = Read(g, Append(<<c>>, d))
  BY <1>1
<1> QED
  BY <1>2, <1>3, <1>4

-----------------------------------------------------------------------------
(* The two followers of the grammar.                                       *)

\* Where a token's whole text takes the grammar.
Through(g, tok) ==
    CASE tok = "plain" -> After(g, "a")
      [] tok = "open"  -> After(g, "<")
      [] tok = "shut"  -> After(g, ">")
      [] tok = "tail"  -> After(After(g, ">"), "a")
      [] tok = "close" -> After(g, "/")
      [] tok = "eos"   -> g

LEMMA TokenTexts ==
    /\ Token = {"plain", "open", "shut", "tail", "close", "eos"}
    /\ TextOf["plain"] = <<"a">> /\ TextOf["open"] = <<"<">> /\ TextOf["shut"] = <<">">>
    /\ TextOf["tail"] = <<">", "a">> /\ TextOf["close"] = <<"/">> /\ TextOf["eos"] = <<>>
BY DEF Token, TextOf

LEMMA ThroughIsRead ==
    ASSUME NEW g, NEW tok \in Token
    PROVE  Read(g, TextOf[tok]) = Through(g, tok)
<1>1. "a" \in Chars /\ "<" \in Chars /\ ">" \in Chars /\ "/" \in Chars
  BY DEF Chars
<1>2. /\ Read(g, <<"a">>) = After(g, "a") /\ Read(g, <<"<">>) = After(g, "<")
      /\ Read(g, <<">">>) = After(g, ">") /\ Read(g, <<"/">>) = After(g, "/")
  BY <1>1, ReadOne
<1>3. Read(g, <<">", "a">>) = After(After(g, ">"), "a")
  BY <1>1, ReadTwo
<1>4. Read(g, <<>>) = g
  BY ReadNothing
<1>5. CASE tok = "plain"
  BY <1>5, <1>2, TokenTexts DEF Through
<1>6. CASE tok = "open"
  BY <1>6, <1>2, TokenTexts DEF Through
<1>7. CASE tok = "shut"
  BY <1>7, <1>2, TokenTexts DEF Through
<1>8. CASE tok = "tail"
  BY <1>8, <1>3, TokenTexts DEF Through
<1>9. CASE tok = "close"
  BY <1>9, <1>2, TokenTexts DEF Through
<1>10. CASE tok = "eos"
  BY <1>10, <1>4, TokenTexts DEF Through
<1> QED
  BY <1>5, <1>6, <1>7, <1>8, <1>9, <1>10, TokenTexts

\* What reading a token does to a follower of the grammar: nothing before the
\* reasoning is over, and of the token that ends it only a call's opener counts.
Moves(reading, g, tok) ==
    IF reading \/ tok = "open" THEN Through(g, tok) ELSE g

\* The engine's follower does that.
LEMMA EngineMoves ==
    ASSUME NEW tok \in Token
    PROVE  Read(grammar, Advance(tok)) = Moves(ended, grammar, tok)
<1>1. CASE ended
  BY <1>1, ThroughIsRead DEF Advance, Moves
<1>2. CASE ~ended /\ tok = "open"
  <2>1. Advance(tok) = TextOf[tok]
    BY <1>2 DEF Advance, Boundary, ContentOf
  <2> QED
    BY <1>2, <2>1, ThroughIsRead DEF Moves
<1>3. CASE ~ended /\ tok # "open"
  <2>1. Advance(tok) = <<>>
    BY <1>3 DEF Advance, Boundary, ContentOf
  <2> QED
    BY <1>3, <2>1, ReadNothing DEF Moves
<1> QED
  BY <1>1, <1>2, <1>3

IsChecker(f) ==
    /\ f = [matcher |-> f.matcher, ended |-> f.ended, offset |-> f.offset, spans |-> f.spans]
    /\ f.ended \in BOOLEAN

LEMMA FeedCharIs ==
    ASSUME NEW f, IsChecker(f), NEW c
    PROVE  /\ IsChecker(FeedChar(f, c))
           /\ FeedChar(f, c).matcher = After(f.matcher, c)
           /\ FeedChar(f, c).ended = f.ended
<1> DEFINE g == After(f.matcher, c)
           spans == IF Complete(f.matcher) /\ Complete(g) THEN f.spans ELSE Protect(f.spans, f.offset)
<1>1. FeedChar(f, c) = [f EXCEPT !.matcher = g, !.offset = f.offset + 1, !.spans = spans]
  BY DEF FeedChar
<1> HIDE DEF g, spans
<1>2. FeedChar(f, c) = [matcher |-> g, ended |-> f.ended, offset |-> f.offset + 1, spans |-> spans]
  BY <1>1 DEF IsChecker
<1> QED
  BY <1>2 DEF IsChecker, g

\* The function by which the fold of the checker is defined.
FeedsOn(f, D, g, s) ==
    f = [T \in SUBSET D |-> IF T = {} THEN g ELSE FeedChar(f[T \ {Max(T)}], s[Max(T)])]

LEMMA FeedsIs ==
    ASSUME NEW g, NEW s
    PROVE  FoldLeft(FeedChar, g, s) = (CHOOSE f : FeedsOn(f, DOMAIN s, g, s))[DOMAIN s]
BY DEF FoldLeft, MapThenFoldSet, FeedsOn

LEMMA FeedOne ==
    ASSUME NEW g, NEW c \in Chars
    PROVE  FoldLeft(FeedChar, g, <<c>>) = FeedChar(g, c)
<1> DEFINE s == <<c>>
           e == [T \in SUBSET {1} |-> IF T = {} THEN g ELSE FeedChar(g, c)]
<1>1. DOMAIN s = {1} /\ s[1] = c
  OBVIOUS
<1>2. Max({1}) = 1
  <2>1. {1} \in SUBSET (1..1) /\ 1 \in {1} /\ \A y \in {1} : y <= 1
    OBVIOUS
  <2> QED
    BY <2>1, MaxOfOne
<1>3. \A T \in SUBSET {1} : T = {} \/ T = {1}
  OBVIOUS
<1>4. {1} \ {1} = {} /\ {} \in SUBSET {1} /\ {1} \in SUBSET {1} /\ {1} # {}
  OBVIOUS
<1>5. FeedsOn(e, {1}, g, s)
  <2>1. e[{}] = g /\ e[{1}] = FeedChar(g, c)
    BY <1>4
  <2>2. e = [T \in SUBSET {1} |-> e[T]]
    OBVIOUS
  <2> HIDE DEF e, s
  <2>3. e[{1}] = FeedChar(e[{1} \ {Max({1})}], s[Max({1})])
    BY <1>1, <1>2, <1>4, <2>1
  <2>4. \A T \in SUBSET {1} : e[T] = IF T = {} THEN g ELSE FeedChar(e[T \ {Max(T)}], s[Max(T)])
    BY <1>3, <1>4, <2>1, <2>3
  <2> QED
    BY <2>2, <2>4 DEF FeedsOn
<1> HIDE DEF s, e
<1>6. PICK f : FeedsOn(f, {1}, g, s) /\ FoldLeft(FeedChar, g, s) = f[{1}]
  BY <1>1, <1>5, FeedsIs
<1>7. f[{1}] = FeedChar(f[{}], c) /\ f[{}] = g
  BY <1>1, <1>2, <1>4, <1>6 DEF FeedsOn
<1> QED
  BY <1>6, <1>7 DEF s

LEMMA FeedTwo ==
    ASSUME NEW g, NEW c \in Chars, NEW d \in Chars
    PROVE  FoldLeft(FeedChar, g, <<c, d>>) = FeedChar(FeedChar(g, c), d)
<1> DEFINE s == <<c, d>>
           e == [T \in SUBSET {1, 2} |->
                    IF T = {} THEN g
                    ELSE IF T = {1} THEN FeedChar(g, c)
                    ELSE IF T = {2} THEN FeedChar(g, d) ELSE FeedChar(FeedChar(g, c), d)]
<1>1. DOMAIN s = {1, 2} /\ s[1] = c /\ s[2] = d
  OBVIOUS
<1>2. Max({1}) = 1 /\ Max({2}) = 2 /\ Max({1, 2}) = 2
  <2>1. 1..2 = {1, 2} /\ 2 \in Nat
    OBVIOUS
  <2>2. /\ {1} \in SUBSET (1..2) /\ 1 \in {1} /\ \A y \in {1} : y <= 1
        /\ {2} \in SUBSET (1..2) /\ 2 \in {2} /\ \A y \in {2} : y <= 2
        /\ {1, 2} \in SUBSET (1..2) /\ 2 \in {1, 2} /\ \A y \in {1, 2} : y <= 2
    BY <2>1
  <2>3. Max({1}) = 1
    BY <2>1, <2>2, MaxOfOne
  <2>4. Max({2}) = 2
    BY <2>1, <2>2, MaxOfOne
  <2>5. Max({1, 2}) = 2
    BY <2>1, <2>2, MaxOfOne
  <2> QED
    BY <2>3, <2>4, <2>5
<1>3. \A T \in SUBSET {1, 2} : T = {} \/ T = {1} \/ T = {2} \/ T = {1, 2}
  OBVIOUS
<1>4. /\ {1} \ {1} = {} /\ {2} \ {2} = {} /\ {1, 2} \ {2} = {1}
      /\ {} \in SUBSET {1, 2} /\ {1} \in SUBSET {1, 2} /\ {2} \in SUBSET {1, 2} /\ {1, 2} \in SUBSET {1, 2}
      /\ {1} # {} /\ {2} # {} /\ {1, 2} # {} /\ {1} # {2} /\ {1} # {1, 2} /\ {2} # {1, 2}
  OBVIOUS
<1>5. e[{}] = g /\ e[{1}] = FeedChar(g, c) /\ e[{2}] = FeedChar(g, d) /\ e[{1, 2}] = FeedChar(FeedChar(g, c), d)
  BY <1>4
<1>6. \A T \in SUBSET {1, 2} : e[T] = IF T = {} THEN g ELSE FeedChar(e[T \ {Max(T)}], s[Max(T)])
  <2> HIDE DEF e, s
  <2>1. e[{1}] = FeedChar(e[{1} \ {Max({1})}], s[Max({1})])
    BY <1>1, <1>2, <1>4, <1>5
  <2>2. e[{2}] = FeedChar(e[{2} \ {Max({2})}], s[Max({2})])
    BY <1>1, <1>2, <1>4, <1>5
  <2>3. e[{1, 2}] = FeedChar(e[{1, 2} \ {Max({1, 2})}], s[Max({1, 2})])
    BY <1>1, <1>2, <1>4, <1>5
  <2> SUFFICES ASSUME NEW T \in SUBSET {1, 2}
               PROVE  e[T] = IF T = {} THEN g ELSE FeedChar(e[T \ {Max(T)}], s[Max(T)])
    OBVIOUS
  <2>4. CASE T = {}
    BY <2>4, <1>5
  <2>5. CASE T = {1}
    BY <2>5, <2>1, <1>4
  <2>6. CASE T = {2}
    BY <2>6, <2>2, <1>4
  <2>7. CASE T = {1, 2}
    BY <2>7, <2>3, <1>4
  <2> QED
    BY <1>3, <2>4, <2>5, <2>6, <2>7
<1>7. e = [T \in SUBSET {1, 2} |-> e[T]]
  OBVIOUS
<1> HIDE DEF s, e
<1>8. FeedsOn(e, {1, 2}, g, s)
  BY <1>6, <1>7 DEF FeedsOn
<1>9. PICK f : FeedsOn(f, {1, 2}, g, s) /\ FoldLeft(FeedChar, g, s) = f[{1, 2}]
  BY <1>1, <1>8, FeedsIs
<1>10. f[{1, 2}] = FeedChar(f[{1}], d) /\ f[{1}] = FeedChar(f[{}], c) /\ f[{}] = g
  <2>1. \A T \in SUBSET {1, 2} : f[T] = IF T = {} THEN g ELSE FeedChar(f[T \ {Max(T)}], s[Max(T)])
    BY <1>9 DEF FeedsOn
  <2>2. f[{}] = g
    BY <1>4, <2>1
  <2>3. f[{1}] = FeedChar(f[{}], c)
    <3>1. f[{1}] = FeedChar(f[{1} \ {Max({1})}], s[Max({1})])
      BY <1>4, <2>1
    <3> QED
      BY <1>1, <1>2, <1>4, <3>1
  <2>4. f[{1, 2}] = FeedChar(f[{1}], d)
    <3>1. f[{1, 2}] = FeedChar(f[{1, 2} \ {Max({1, 2})}], s[Max({1, 2})])
      BY <1>4, <2>1
    <3> QED
      BY <1>1, <1>2, <1>4, <3>1
  <2> QED
    BY <2>2, <2>3, <2>4
<1> QED
  BY <1>9, <1>10 DEF s

\* So does the front end's, over a whole token's text ...
LEMMA FeedsThrough ==
    ASSUME NEW f, IsChecker(f), NEW tok \in Token \ {"eos"}
    PROVE  /\ IsChecker(FoldLeft(FeedChar, f, TextOf[tok]))
           /\ FoldLeft(FeedChar, f, TextOf[tok]).matcher = Through(f.matcher, tok)
           /\ FoldLeft(FeedChar, f, TextOf[tok]).ended = f.ended
<1>1. "a" \in Chars /\ "<" \in Chars /\ ">" \in Chars /\ "/" \in Chars
  BY DEF Chars
<1>2. ASSUME NEW c \in Chars, TextOf[tok] = <<c>>, Through(f.matcher, tok) = After(f.matcher, c)
      PROVE  /\ IsChecker(FoldLeft(FeedChar, f, TextOf[tok]))
             /\ FoldLeft(FeedChar, f, TextOf[tok]).matcher = Through(f.matcher, tok)
             /\ FoldLeft(FeedChar, f, TextOf[tok]).ended = f.ended
  <2>1. FoldLeft(FeedChar, f, TextOf[tok]) = FeedChar(f, c)
    BY <1>2, FeedOne
  <2> QED
    BY <1>2, <2>1, FeedCharIs
<1>3. CASE tok = "plain"
  BY <1>1, <1>2, <1>3, TokenTexts DEF Through
<1>4. CASE tok = "open"
  BY <1>1, <1>2, <1>4, TokenTexts DEF Through
<1>5. CASE tok = "shut"
  BY <1>1, <1>2, <1>5, TokenTexts DEF Through
<1>6. CASE tok = "close"
  BY <1>1, <1>2, <1>6, TokenTexts DEF Through
<1>7. CASE tok = "tail"
  <2>1. FoldLeft(FeedChar, f, TextOf[tok]) = FeedChar(FeedChar(f, ">"), "a")
    <3>1. TextOf[tok] = <<">", "a">>
      BY <1>7, TokenTexts
    <3>2. FoldLeft(FeedChar, f, <<">", "a">>) = FeedChar(FeedChar(f, ">"), "a")
      BY <1>1, FeedTwo
    <3> QED
      BY <3>1, <3>2
  <2>2. IsChecker(FeedChar(f, ">")) /\ FeedChar(f, ">").matcher = After(f.matcher, ">") /\ FeedChar(f, ">").ended = f.ended
    BY FeedCharIs
  <2>3. /\ IsChecker(FeedChar(FeedChar(f, ">"), "a"))
        /\ FeedChar(FeedChar(f, ">"), "a").matcher = After(FeedChar(f, ">").matcher, "a")
        /\ FeedChar(FeedChar(f, ">"), "a").ended = FeedChar(f, ">").ended
    BY <2>2, FeedCharIs
  <2>4. Through(f.matcher, tok) = After(After(f.matcher, ">"), "a")
    BY <1>7 DEF Through
  <2> QED
    BY <2>1, <2>2, <2>3, <2>4
<1> QED
  BY <1>3, <1>4, <1>5, <1>6, <1>7, TokenTexts

\* ... and over its share of the token that ends the reasoning.
LEMMA CheckerMoves ==
    ASSUME IsChecker(checker), NEW tok \in Token
    PROVE  /\ IsChecker(Feed(tok))
           /\ Feed(tok).matcher = Moves(checker.ended, checker.matcher, tok)
           /\ Feed(tok).ended <=> checker.ended \/ tok \in Boundary
<1> DEFINE later == checker.offset + Len(TextOf[tok])
<1>1. CASE tok = "eos" \/ ~(checker.ended \/ tok \in Boundary)
  <2>1. Feed(tok) = [checker EXCEPT !.offset = later]
    BY <1>1 DEF Feed
  <2> HIDE DEF later
  <2>2. Feed(tok) = [matcher |-> checker.matcher, ended |-> checker.ended, offset |-> later, spans |-> checker.spans]
    BY <2>1 DEF IsChecker
  <2>3. Moves(checker.ended, checker.matcher, tok) = checker.matcher
    BY <1>1 DEF Moves, Through, Boundary
  <2>4. tok \notin Boundary
    BY <1>1 DEF Boundary
  <2>5. IsChecker(Feed(tok))
    BY <2>2 DEF IsChecker
  <2> QED
    BY <2>2, <2>3, <2>4, <2>5
<1>2. CASE ~checker.ended /\ tok = "close"
  <2>1. Feed(tok) = [checker EXCEPT !.ended = TRUE, !.offset = later]
    BY <1>2 DEF Feed, Boundary, ContentOf
  <2> HIDE DEF later
  <2>2. Feed(tok) = [matcher |-> checker.matcher, ended |-> TRUE, offset |-> later, spans |-> checker.spans]
    BY <2>1 DEF IsChecker
  <2>3. Moves(checker.ended, checker.matcher, tok) = checker.matcher /\ tok \in Boundary
    BY <1>2 DEF Moves, Boundary
  <2>4. IsChecker(Feed(tok))
    BY <2>2 DEF IsChecker
  <2> QED
    BY <2>2, <2>3, <2>4
<1>3. CASE tok # "eos" /\ (checker.ended \/ tok = "open")
  <2> PICK f : f = [checker EXCEPT !.ended = TRUE]
    OBVIOUS
  <2>1. TextOf["open"] # <<>>
    BY TokenTexts
  <2>2. Feed(tok) = FoldLeft(FeedChar, f, TextOf[tok])
    BY <1>3, <2>1 DEF Feed, Boundary, ContentOf
  <2>3. f = [matcher |-> checker.matcher, ended |-> TRUE, offset |-> checker.offset, spans |-> checker.spans]
    BY DEF IsChecker
  <2>4. IsChecker(f) /\ f.matcher = checker.matcher /\ f.ended = TRUE
    BY <2>3 DEF IsChecker
  <2>5. IsChecker(Feed(tok)) /\ Feed(tok).matcher = Through(f.matcher, tok) /\ Feed(tok).ended = f.ended
    <3>1. tok \in Token \ {"eos"}
      BY <1>3
    <3>2. /\ IsChecker(FoldLeft(FeedChar, f, TextOf[tok]))
          /\ FoldLeft(FeedChar, f, TextOf[tok]).matcher = Through(f.matcher, tok)
          /\ FoldLeft(FeedChar, f, TextOf[tok]).ended = f.ended
      BY <2>4, <3>1, FeedsThrough
    <3> QED
      BY <2>2, <3>2
  <2>6. checker.ended \/ tok \in Boundary
    BY <1>3 DEF Boundary
  <2>7. Moves(checker.ended, checker.matcher, tok) = Through(checker.matcher, tok)
    BY <1>3 DEF Moves
  <2> QED
    BY <2>4, <2>5, <2>6, <2>7
<1> QED
  BY <1>1, <1>2, <1>3 DEF Boundary

\* A chain g, with R the places where the reasoning is over, leads from where
\* the front end stands, over the messages it has not read, to where the engine
\* stands.
Leads(g, R) ==
    /\ g[0] = checker.matcher /\ (0 \in R <=> checker.ended)
    /\ g[Len(wire)] = grammar /\ (Len(wire) \in R <=> ended)
    /\ \A i \in 1..Len(wire) :
          /\ g[i] = IF i - 1 \in R \/ wire[i].tok = "open"
                    THEN Through(g[i - 1], wire[i].tok) ELSE g[i - 1]
          /\ i \in R <=> i - 1 \in R \/ wire[i].tok \in Boundary

\* While the answer goes on, the front end is behind by its unread messages and
\* by nothing else.
Behind ==
    /\ wire \in Seq(Message) /\ IsChecker(checker) /\ ended \in BOOLEAN
    /\ result = None => \E g, R : Leads(g, R)

LEMMA BehindInitially == Init => Behind
<1> SUFFICES ASSUME Init PROVE Behind
  OBVIOUS
<1>1. wire = <<>> /\ Len(wire) = 0 /\ wire \in Seq(Message)
  BY DEF Init
<1>2. ended \in BOOLEAN /\ checker = [matcher |-> Start(ask), ended |-> ended, offset |-> 0, spans |-> {}]
  BY DEF Init
<1>3. IsChecker(checker) /\ checker.matcher = grammar /\ checker.ended = ended
  BY <1>2 DEF Init, IsChecker
<1> DEFINE g == [i \in {0} |-> grammar]
           R == {i \in {0} : ended}
<1>4. g[0] = grammar /\ (0 \in R <=> ended)
  OBVIOUS
<1> HIDE DEF g, R
<1>5. Leads(g, R)
  BY <1>1, <1>3, <1>4 DEF Leads
<1> QED
  BY <1>1, <1>2, <1>3, <1>5 DEF Behind

\* While the ask stands, tokens move a follower the same way in every state.
LEMMA ThroughStands ==
    ASSUME ask' = ask
    PROVE  \A g, i : Through(g, wire[i].tok)' = Through(g, wire'[i].tok)
BY DEF Through, After

\* A step of the engine lengthens the chain at its end, ...
LEMMA BehindStep ==
    ASSUME Behind, NEW tok \in Token, Step(tok)
    PROVE  Behind'
<1>1. /\ ask' = ask /\ checker' = checker /\ result' = result
      /\ wire' = Append(wire, [tok |-> tok, end |-> CheckStop(tok)])
      /\ grammar' = Moves(ended, grammar, tok) /\ ended' = (ended \/ tok \in Boundary)
  BY EngineMoves DEF Step, front
<1>2. [tok |-> tok, end |-> CheckStop(tok)] \in Message
  BY DEF CheckStop, Message
<1> DEFINE n == Len(wire)
<1>3. n \in Nat /\ wire \in Seq(Message)
  BY LenProperties DEF Behind
<1>4. /\ wire' \in Seq(Message) /\ Len(wire') = n + 1
      /\ (\A i \in 1..n : wire'[i] = wire[i]) /\ wire'[n + 1].tok = tok
  BY <1>1, <1>2, <1>3, AppendProperties
<1>5. IsChecker(checker)' /\ ended' \in BOOLEAN
  BY <1>1 DEF Behind, IsChecker
<1>6. ASSUME result = None PROVE \E g, R : Leads(g, R)'
  <2>1. PICK g, R : Leads(g, R)
    BY <1>6 DEF Behind
  <2>2. PICK h, Q :
           /\ \A i \in 0..n : h[i] = g[i] /\ (i \in Q <=> i \in R)
           /\ h[n + 1] = grammar' /\ (n + 1 \in Q <=> ended')
    <3> DEFINE h == [i \in 0..(n + 1) |-> IF i = n + 1 THEN grammar' ELSE g[i]]
               Q == {i \in 0..(n + 1) : IF i = n + 1 THEN ended' ELSE i \in R}
    <3> HIDE DEF n
    <3>1. /\ \A i \in 0..n : h[i] = g[i] /\ (i \in Q <=> i \in R)
          /\ h[n + 1] = grammar' /\ (n + 1 \in Q <=> ended')
      BY <1>3
    <3> HIDE DEF h, Q
    <3> QED
      BY <3>1
  <2>3. h[0] = checker'.matcher /\ (0 \in Q <=> checker'.ended)
    BY <1>1, <1>3, <2>1, <2>2 DEF Leads
  <2>4. h[Len(wire')] = grammar' /\ (Len(wire') \in Q <=> ended')
    BY <1>4, <2>2
  <2>5. ASSUME NEW i \in 1..Len(wire')
        PROVE  /\ h[i] = IF i - 1 \in Q \/ wire'[i].tok = "open"
                         THEN Through(h[i - 1], wire'[i].tok) ELSE h[i - 1]
               /\ i \in Q <=> i - 1 \in Q \/ wire'[i].tok \in Boundary
    <3>1. CASE i \in 1..n
      <4>1. i \in 0..n /\ i - 1 \in 0..n /\ wire'[i] = wire[i]
        BY <1>3, <1>4, <3>1
      <4>2. h[i] = g[i] /\ h[i - 1] = g[i - 1] /\ (i \in Q <=> i \in R) /\ (i - 1 \in Q <=> i - 1 \in R)
        BY <2>2, <4>1
      <4>3. /\ g[i] = IF i - 1 \in R \/ wire[i].tok = "open"
                      THEN Through(g[i - 1], wire[i].tok) ELSE g[i - 1]
            /\ i \in R <=> i - 1 \in R \/ wire[i].tok \in Boundary
        BY <2>1, <3>1 DEF Leads
      <4> QED
        BY <4>1, <4>2, <4>3
    <3>2. CASE i = n + 1
      <4>1. i - 1 = n /\ n \in 0..n /\ wire'[i].tok = tok
        BY <1>3, <1>4, <3>2
      <4>2. h[i - 1] = grammar /\ (i - 1 \in Q <=> ended)
        BY <2>1, <2>2, <4>1 DEF Leads
      <4>3. h[i] = Moves(ended, grammar, tok) /\ (i \in Q <=> ended \/ tok \in Boundary)
        BY <1>1, <2>2, <3>2
      <4> QED
        BY <4>1, <4>2, <4>3 DEF Moves
    <3> QED
      BY <1>3, <1>4, <3>1, <3>2
  <2>6. Leads(h, Q)'
    <3>1. \A i : Through(h[i - 1], wire[i].tok)' = Through(h[i - 1], wire'[i].tok)
      BY <1>1, ThroughStands
    <3> QED
      BY <2>3, <2>4, <2>5, <3>1 DEF Leads
  <2> QED
    BY <2>6
<1> QED
  BY <1>1, <1>4, <1>5, <1>6 DEF Behind

\* ... and a message that is read, and does not end the answer, is fed to the
\* checker whole.
LEMMA ReadIsFed ==
    ASSUME IsChecker(checker), NEW m \in Message, Update(m)
    PROVE  /\ IsChecker(checker)'
           /\ result' = None => /\ checker'.matcher = Feed(m.tok).matcher
                                /\ checker'.ended = Feed(m.tok).ended
<1> DEFINE skipped == m.end \in {"eos", "token"} /\ ~ask.include
           fed     == IF skipped THEN checker ELSE Feed(m.tok)
           new     == IF skipped THEN <<>> ELSE TextOf[m.tok]
           stop    == IF seen + 1 > ask.min
                      THEN CheckStopStrings(text \o new, Len(new), fed.spans) ELSE None
           cut     == IF stop = None THEN Len(text \o new)
                      ELSE IF ask.include THEN stop[2] + Len(Stops[stop[1]])
                      ELSE stop[2]
           spans   == DiscardBefore(fed.spans, cut - Longest)
<1>1. /\ checker' = [fed EXCEPT !.spans = spans]
      /\ result' = IF stop # None THEN "string" ELSE IF m.end # "running" THEN m.end ELSE None
  BY DEF Update
<1>2. m.tok \in Token /\ m.end \in {"running", "eos", "token", "budget", "length"}
  BY DEF Message
<1> HIDE DEF stop, cut, spans
<1>3. IsChecker(checker)' /\ checker'.matcher = fed.matcher /\ checker'.ended = fed.ended
  <2>1. IsChecker(fed)
    BY <1>2, CheckerMoves
  <2> HIDE DEF fed
  <2>2. checker' = [matcher |-> fed.matcher, ended |-> fed.ended, offset |-> fed.offset, spans |-> spans]
    BY <1>1, <2>1 DEF IsChecker
  <2> QED
    BY <2>1, <2>2 DEF IsChecker
<1>4. result' = None => fed = Feed(m.tok)
  BY <1>1, <1>2, SizesAssumption
<1> QED
  BY <1>3, <1>4

\* ... so the chain loses its first link.
LEMMA BehindReceive ==
    ASSUME Behind, Receive
    PROVE  Behind'
<1>1. /\ wire # <<>> /\ wire' = Tail(wire) /\ ask' = ask /\ grammar' = grammar /\ ended' = ended
      /\ wire \in Seq(Message)
  BY DEF Receive, engine, Behind
<1> DEFINE n == Len(wire)
           m == Head(wire)
<1>2. /\ n \in Nat \ {0} /\ m \in Message /\ m = wire[1]
      /\ wire' \in Seq(Message) /\ Len(wire') = n - 1 /\ \A i \in 1..(n - 1) : wire'[i] = wire[i + 1]
  BY <1>1, HeadTailProperties
<1>3. CASE result # None
  <2>1. result' = result /\ checker' = checker
    BY <1>3 DEF Receive, front
  <2> QED
    BY <1>1, <1>2, <1>3, <2>1 DEF Behind, IsChecker
<1>4. CASE result = None
  <2>1. Update(m) /\ IsChecker(checker) /\ ended \in BOOLEAN
    BY <1>4 DEF Receive, Behind
  <2>2. /\ IsChecker(checker)'
        /\ result' = None => /\ checker'.matcher = Feed(m.tok).matcher
                             /\ checker'.ended = Feed(m.tok).ended
    BY <1>2, <2>1, ReadIsFed
  <2>3. m.tok \in Token
    BY <1>2 DEF Message
  <2>4. /\ Feed(m.tok).matcher = Moves(checker.ended, checker.matcher, m.tok)
        /\ Feed(m.tok).ended <=> checker.ended \/ m.tok \in Boundary
    BY <2>1, <2>3, CheckerMoves
  <2>5. ASSUME result' = None PROVE \E g, R : Leads(g, R)'
    <3>1. PICK g, R : Leads(g, R)
      BY <1>4 DEF Behind
    <3>2. PICK h, Q : \A i \in 0..(n - 1) : h[i] = g[i + 1] /\ (i \in Q <=> i + 1 \in R)
      <4> DEFINE h == [i \in 0..(n - 1) |-> g[i + 1]]
                 Q == {i \in 0..(n - 1) : i + 1 \in R}
      <4> HIDE DEF n
      <4>1. \A i \in 0..(n - 1) : h[i] = g[i + 1] /\ (i \in Q <=> i + 1 \in R)
        OBVIOUS
      <4> HIDE DEF h, Q
      <4> QED
        BY <4>1
    <3>3. 1 \in 1..n /\ n - 1 \in 0..(n - 1) /\ 0 \in 0..(n - 1) /\ (n - 1) + 1 = n /\ 1 - 1 = 0 /\ 0 + 1 = 1
      <4> HIDE DEF n
      <4> QED
        BY <1>2
    <3>4. /\ g[1] = IF 0 \in R \/ m.tok = "open" THEN Through(g[0], m.tok) ELSE g[0]
          /\ 1 \in R <=> 0 \in R \/ m.tok \in Boundary
      BY <1>2, <3>1, <3>3 DEF Leads
    <3>5. g[1] = Moves(checker.ended, checker.matcher, m.tok)
      BY <3>1, <3>4 DEF Leads, Moves
    <3>6. h[0] = checker'.matcher /\ (0 \in Q <=> checker'.ended)
      <4>1. 1 \in R <=> checker.ended \/ m.tok \in Boundary
        BY <3>1, <3>4 DEF Leads
      <4>2. h[0] = g[1] /\ (0 \in Q <=> 1 \in R)
        BY <3>2, <3>3
      <4> QED
        BY <2>2, <2>4, <2>5, <3>5, <4>1, <4>2
    <3>7. h[Len(wire')] = grammar' /\ (Len(wire') \in Q <=> ended')
      <4>1. h[n - 1] = g[n] /\ (n - 1 \in Q <=> n \in R)
        BY <3>2, <3>3
      <4> QED
        BY <1>1, <1>2, <3>1, <4>1 DEF Leads
    <3>8. ASSUME NEW i \in 1..Len(wire')
          PROVE  /\ h[i] = IF i - 1 \in Q \/ wire'[i].tok = "open"
                           THEN Through(h[i - 1], wire'[i].tok) ELSE h[i - 1]
                 /\ i \in Q <=> i - 1 \in Q \/ wire'[i].tok \in Boundary
      <4>1. /\ i \in 1..(n - 1) /\ i \in 0..(n - 1) /\ i - 1 \in 0..(n - 1) /\ i + 1 \in 1..n
            /\ (i - 1) + 1 = i /\ (i + 1) - 1 = i
        <5>1. i \in 1..(n - 1)
          BY <1>2
        <5> HIDE DEF n
        <5> QED
          BY <1>2, <5>1
      <4>2. h[i] = g[i + 1] /\ h[i - 1] = g[i] /\ (i \in Q <=> i + 1 \in R) /\ (i - 1 \in Q <=> i \in R)
        BY <3>2, <4>1
      <4>3. /\ g[i + 1] = IF i \in R \/ wire[i + 1].tok = "open"
                          THEN Through(g[i], wire[i + 1].tok) ELSE g[i]
            /\ i + 1 \in R <=> i \in R \/ wire[i + 1].tok \in Boundary
        BY <3>1, <4>1 DEF Leads
      <4>4. wire'[i] = wire[i + 1]
        BY <1>2, <4>1
      <4> QED
        BY <4>2, <4>3, <4>4
    <3>9. Leads(h, Q)'
      <4>1. \A i : Through(h[i - 1], wire[i].tok)' = Through(h[i - 1], wire'[i].tok)
        BY <1>1, ThroughStands
      <4> QED
        BY <3>6, <3>7, <3>8, <4>1 DEF Leads
    <3> QED
      BY <3>9
  <2> QED
    BY <1>1, <1>2, <2>1, <2>2, <2>5 DEF Behind
<1> QED
  BY <1>3, <1>4

LEMMA BehindInductive == Behind /\ [Next]_vars => Behind'
<1> SUFFICES ASSUME Behind, [Next]_vars PROVE Behind'
  OBVIOUS
<1>1. CASE \E tok \in Token : Step(tok)
  BY <1>1, BehindStep
<1>2. CASE Receive
  BY <1>2, BehindReceive
<1>3. CASE Abort \/ Over \/ UNCHANGED vars
  <2>1. /\ ask' = ask /\ wire' = wire /\ checker' = checker /\ result' = result
        /\ grammar' = grammar /\ ended' = ended
    BY <1>3 DEF Abort, Over, vars, engine, front
  <2>2. wire' \in Seq(Message) /\ IsChecker(checker)' /\ ended' \in BOOLEAN
    BY <2>1 DEF Behind, IsChecker
  <2>3. ASSUME NEW g, NEW R, Leads(g, R) PROVE Leads(g, R)'
    <3>1. \A i : Through(g[i - 1], wire[i].tok)' = Through(g[i - 1], wire'[i].tok)
      BY <2>1, ThroughStands
    <3> QED
      BY <2>1, <2>3, <3>1 DEF Leads
  <2> QED
    BY <2>1, <2>2, <2>3 DEF Behind
<1> QED
  BY <1>1, <1>2, <1>3 DEF Next

\* The two followers of the grammar, one over tokens and one over text, agree
\* whenever the front end has caught up.
THEOREM FollowersAgree == Spec => []SameGrammar
<1>1. Behind => SameGrammar
  <2> SUFFICES ASSUME Behind, wire = <<>>, result = None
               PROVE  checker.matcher = grammar /\ checker.ended = ended
    BY DEF SameGrammar
  <2>1. PICK g, R : Leads(g, R)
    BY DEF Behind
  <2>2. Len(wire) = 0
    OBVIOUS
  <2>3. checker.matcher = grammar /\ (checker.ended <=> ended)
    BY <2>1, <2>2 DEF Leads
  <2> QED
    BY <2>3 DEF Behind, IsChecker
<1> QED
  BY <1>1, BehindInitially, BehindInductive, PTL DEF Spec

-----------------------------------------------------------------------------
(* The text of the output, token after token.                              *)

\* The function by which FlattenSeq is defined; it exists for every length, ...
FlatOn(f, n, s) == f = [i \in 1..n |-> IF i = 1 THEN s[i] ELSE f[i - 1] \o s[i]]

LEMMA FlatIs ==
    ASSUME NEW s, Len(s) # 0
    PROVE  FlattenSeq(s) = (CHOOSE f : FlatOn(f, Len(s), s))[Len(s)]
BY DEF FlattenSeq, FlatOn

LEMMA FlatExists ==
    ASSUME NEW s
    PROVE  \A n \in Nat : \E f : FlatOn(f, n, s)
<1> DEFINE B == {n \in Nat : ~ \E f : FlatOn(f, n, s)}
<1>1. ASSUME B # {} PROVE FALSE
  <2>1. PICK n \in B : \A m \in B : n <= m
    <3>1. B \in SUBSET Nat
      OBVIOUS
    <3> HIDE DEF B
    <3> QED
      BY <1>1, <3>1, Least
  <2>2. n \in Nat /\ (~ \E f : FlatOn(f, n, s)) /\ \A m \in Nat : m < n => \E f : FlatOn(f, m, s)
    BY <2>1
  <2>3. CASE n = 0
    <3> DEFINE f == [i \in 1..n |-> s[i]]
    <3>1. \A i \in 1..n : FALSE
      BY <2>3
    <3>2. FlatOn(f, n, s)
      BY <3>1 DEF FlatOn
    <3> QED
      BY <2>2, <3>2
  <2>4. CASE n # 0
    <3>1. n - 1 \in Nat /\ n - 1 < n
      BY <2>2, <2>4
    <3>2. PICK e : FlatOn(e, n - 1, s)
      BY <2>2, <3>1
    <3> DEFINE f == [i \in 1..n |-> IF i = 1 THEN s[i] ELSE IF i = n THEN e[i - 1] \o s[i] ELSE e[i]]
    <3>3. ASSUME NEW i \in 1..n
          PROVE  f[i] = IF i = 1 THEN s[i] ELSE f[i - 1] \o s[i]
      <4>1. \A j \in 1..(n - 1) : e[j] = IF j = 1 THEN s[j] ELSE e[j - 1] \o s[j]
        BY <3>2 DEF FlatOn
      <4>2. CASE i = 1
        BY <4>2
      <4>3. CASE i # 1
        <5>1. i - 1 \in 1..(n - 1) /\ i - 1 # n /\ i - 1 \in 1..n
          BY <4>3, <2>2
        <5>2. f[i - 1] = e[i - 1]
          BY <4>1, <5>1
        <5>3. f[i] = e[i - 1] \o s[i]
          <6>1. CASE i = n
            BY <4>3, <6>1
          <6>2. CASE i # n
            <7>1. i \in 1..(n - 1)
              BY <6>2, <2>2
            <7> QED
              BY <4>1, <4>3, <6>2, <7>1
          <6> QED
            BY <6>1, <6>2
        <5> QED
          BY <4>3, <5>2, <5>3
      <4> QED
        BY <4>2, <4>3
    <3>4. f = [i \in 1..n |-> f[i]]
      OBVIOUS
    <3> HIDE DEF f
    <3>5. FlatOn(f, n, s)
      BY <3>3, <3>4 DEF FlatOn
    <3> QED
      BY <2>2, <3>5
  <2> QED
    BY <2>3, <2>4
<1> QED
  BY <1>1

\* ... and depends on what it has joined only.
LEMMA FlatsAgree ==
    ASSUME NEW s, NEW t, NEW n \in Nat \ {0}, NEW m \in Nat, n <= m, Agree(s, t, n),
           NEW f, NEW h, FlatOn(f, n, s), FlatOn(h, m, t)
    PROVE  f[n] = h[n]
<1> DEFINE B == {i \in 1..n : f[i] # h[i]}
<1>1. ASSUME B # {} PROVE FALSE
  <2>1. PICK i \in B : \A j \in B : i <= j
    <3>1. B \in SUBSET Nat
      OBVIOUS
    <3> HIDE DEF B
    <3> QED
      BY <1>1, <3>1, Least
  <2>2. i \in 1..n /\ i \in 1..m /\ f[i] # h[i] /\ \A j \in 1..n : j < i => f[j] = h[j]
    BY <2>1
  <2>3. /\ f[i] = IF i = 1 THEN s[i] ELSE f[i - 1] \o s[i]
        /\ h[i] = IF i = 1 THEN t[i] ELSE h[i - 1] \o t[i]
    BY <2>2 DEF FlatOn
  <2>4. i # 1 => f[i - 1] = h[i - 1]
    BY <2>2
  <2>5. s[i] = t[i]
    BY <2>2 DEF Agree
  <2> QED
    BY <2>2, <2>3, <2>4, <2>5
<1> QED
  BY <1>1

LEMMA FlattenOneMore ==
    ASSUME NEW S, NEW s \in Seq(Seq(S)), NEW x \in Seq(S)
    PROVE  FlattenSeq(Append(s, x)) = FlattenSeq(s) \o x
<1> DEFINE n == Len(s)
           t == Append(s, x)
<1>1. n \in Nat /\ t \in Seq(Seq(S)) /\ Len(t) = n + 1 /\ t[n + 1] = x /\ Agree(s, t, n)
  BY LenProperties, AppendProperties DEF Agree
<1> HIDE DEF t
<1>2. PICK h : FlatOn(h, n + 1, t) /\ FlattenSeq(t) = h[n + 1]
  <2>1. n + 1 \in Nat /\ n + 1 # 0
    BY <1>1
  <2> QED
    BY <1>1, <2>1, FlatExists, FlatIs
<1>3. n + 1 \in 1..(n + 1)
  BY <1>1
<1>4. h[n + 1] = IF n + 1 = 1 THEN t[n + 1] ELSE h[(n + 1) - 1] \o t[n + 1]
  BY <1>2, <1>3 DEF FlatOn
<1>5. CASE n = 0
  <2>1. s = <<>>
    BY <1>5, EmptySeq
  <2>2. FlattenSeq(s) = <<>>
    BY <2>1 DEF FlattenSeq
  <2>3. <<>> \o x = x
    BY ConcatEmptySeq
  <2> QED
    BY <1>1, <1>2, <1>4, <1>5, <2>2, <2>3 DEF t
<1>6. CASE n # 0
  <2>1. PICK f : FlatOn(f, n, s) /\ FlattenSeq(s) = f[n]
    BY <1>1, <1>6, FlatExists, FlatIs
  <2>2. PICK m \in Nat : m = n + 1
    BY <1>1
  <2>3. n \in Nat \ {0} /\ n <= m /\ FlatOn(h, m, t)
    BY <1>1, <1>2, <1>6, <2>2
  <2>4. f[n] = h[n]
    BY <1>1, <2>1, <2>2, <2>3, FlatsAgree
  <2>5. h[n + 1] = h[n] \o x
    <3>1. n + 1 # 1 /\ (n + 1) - 1 = n
      BY <1>1, <1>6
    <3> QED
      BY <1>1, <1>4, <3>1
  <2> QED
    BY <1>2, <2>1, <2>4, <2>5 DEF t
<1> QED
  BY <1>5, <1>6

\* The text of the first n tokens of output o.
Spelled(o, n) == FlattenSeq([i \in 1..n |-> TextOf[o[i]]])

LEMMA SpelledIs ==
    ASSUME NEW o \in Seq(Token)
    PROVE  /\ Spelled(o, 0) = <<>>
           /\ \A n \in 1..Len(o) : Spelled(o, n) = Spelled(o, n - 1) \o TextOf[o[n]]
<1> DEFINE T(n) == [i \in 1..n |-> TextOf[o[i]]]
<1>1. Spelled(o, 0) = <<>>
  <2>1. T(0) = <<>>
    OBVIOUS
  <2>2. FlattenSeq(<<>>) = <<>>
    BY DEF FlattenSeq
  <2> QED
    BY <2>1, <2>2 DEF Spelled
<1>2. ASSUME NEW n \in 1..Len(o)
      PROVE  Spelled(o, n) = Spelled(o, n - 1) \o TextOf[o[n]]
  <2>1. Len(o) \in Nat /\ n \in Nat /\ n - 1 \in Nat /\ (n - 1) + 1 = n
    BY LenProperties
  <2>2. \A i \in 1..n : TextOf[o[i]] \in Seq(Chars)
    <3>1. \A i \in 1..n : o[i] \in Token
      BY <2>1, ElementOfSeq
    <3> QED
      BY <3>1, TextsAreTexts
  <2>3. T(n - 1) \in Seq(Seq(Chars)) /\ Len(T(n - 1)) = n - 1
    <3>1. \A i \in 1..(n - 1) : TextOf[o[i]] \in Seq(Chars)
      BY <2>1, <2>2
    <3> QED
      BY <2>1, <3>1
  <2>4. T(n) \in Seq(Seq(Chars)) /\ Len(T(n)) = n
    BY <2>1, <2>2
  <2>5. T(n) = Append(T(n - 1), TextOf[o[n]])
    BY <2>1, <2>3, <2>4
  <2>6. TextOf[o[n]] \in Seq(Chars)
    BY <2>1, <2>2
  <2>7. FlattenSeq(Append(T(n - 1), TextOf[o[n]])) = FlattenSeq(T(n - 1)) \o TextOf[o[n]]
    <3> HIDE DEF T
    <3> QED
      BY <2>3, <2>6, FlattenOneMore
  <2> QED
    BY <2>5, <2>7 DEF Spelled
<1> QED
  BY <1>1, <1>2

\* One text goes on where another ends.
Extends(t, s) == Len(s) <= Len(t) /\ \A i \in 1..Len(s) : t[i] = s[i]

LEMMA ExtendsFurther ==
    ASSUME NEW r \in Seq(Chars), NEW s \in Seq(Chars), NEW x \in Seq(Chars), Extends(s, r)
    PROVE  s \o x \in Seq(Chars) /\ Len(s \o x) = Len(s) + Len(x) /\ Extends(s \o x, r) /\ Extends(s \o x, s)
<1>1. /\ s \o x \in Seq(Chars) /\ Len(s \o x) = Len(s) + Len(x)
      /\ \A i \in 1..Len(s) : (s \o x)[i] = s[i]
  BY ConcatProperties, LenProperties
<1>2. Len(r) \in Nat /\ Len(s) \in Nat /\ Len(x) \in Nat
  BY LenProperties
<1>3. Len(r) <= Len(s) /\ \A i \in 1..Len(r) : i \in 1..Len(s) /\ s[i] = r[i]
  BY <1>2 DEF Extends
<1> QED
  BY <1>1, <1>2, <1>3 DEF Extends

LEMMA SpelledGrows ==
    ASSUME NEW o \in Seq(Token)
    PROVE  \A n \in 0..Len(o) : /\ Spelled(o, n) \in Seq(Chars)
                                /\ \A m \in 0..n : Extends(Spelled(o, n), Spelled(o, m))
<1> DEFINE Right(n) == /\ Spelled(o, n) \in Seq(Chars)
                       /\ \A m \in 0..n : Extends(Spelled(o, n), Spelled(o, m))
           B == {n \in 0..Len(o) : ~Right(n)}
<1>1. Len(o) \in Nat
  BY LenProperties
<1>2. ASSUME B # {} PROVE FALSE
  <2>1. PICK n \in B : \A m \in B : n <= m
    <3>1. B \in SUBSET Nat
      BY <1>1
    <3> HIDE DEF B
    <3> QED
      BY <1>2, <3>1, Least
  <2>2. n \in 0..Len(o) /\ ~Right(n) /\ \A m \in 0..Len(o) : m < n => Right(m)
    BY <2>1
  <2>3. CASE n = 0
    <3>1. Spelled(o, 0) = <<>> /\ <<>> \in Seq(Chars)
      <4>1. <<>> \in Seq(Chars)
        OBVIOUS
      <4>2. Spelled(o, 0) = <<>>
        BY SpelledIs
      <4> QED
        BY <4>1, <4>2
    <3>2. \A m \in 0..n : Extends(Spelled(o, n), Spelled(o, m))
      BY <2>3, <3>1 DEF Extends
    <3> QED
      BY <2>2, <2>3, <3>1, <3>2
  <2>4. CASE n # 0
    <3>1. n - 1 \in 0..Len(o) /\ n - 1 < n /\ n \in 1..Len(o) /\ \A m \in 0..n : m = n \/ m \in 0..(n - 1)
      BY <1>1, <2>2, <2>4
    <3>2. Spelled(o, n - 1) \in Seq(Chars) /\ \A m \in 0..(n - 1) : Extends(Spelled(o, n - 1), Spelled(o, m))
      BY <2>2, <3>1
    <3>3. Spelled(o, n) = Spelled(o, n - 1) \o TextOf[o[n]]
      BY <3>1, SpelledIs
    <3>4. TextOf[o[n]] \in Seq(Chars)
      BY <1>1, <3>1, ElementOfSeq, TextsAreTexts
    <3>5. \A m \in 0..(n - 1) : Spelled(o, m) \in Seq(Chars)
      <4>1. \A m \in 0..(n - 1) : m \in 0..Len(o) /\ m < n
        BY <1>1, <2>2
      <4> QED
        BY <2>2, <4>1
    <3>6. n - 1 \in 0..(n - 1)
      BY <1>1, <2>2, <2>4
    <3>7. Spelled(o, n) \in Seq(Chars) /\ \A m \in 0..(n - 1) : Extends(Spelled(o, n), Spelled(o, m))
      <4>1. Extends(Spelled(o, n - 1), Spelled(o, n - 1))
        BY <3>2, <3>6
      <4>2. Spelled(o, n) \in Seq(Chars)
        BY <3>2, <3>3, <3>4, ConcatProperties
      <4>3. ASSUME NEW m \in 0..(n - 1) PROVE Extends(Spelled(o, n), Spelled(o, m))
        <5>1. Spelled(o, m) \in Seq(Chars) /\ Extends(Spelled(o, n - 1), Spelled(o, m))
          BY <3>2, <3>5
        <5>2. Extends(Spelled(o, n - 1) \o TextOf[o[n]], Spelled(o, m))
          BY <3>2, <3>4, <5>1, ExtendsFurther
        <5> QED
          BY <3>3, <5>2
      <4> QED
        BY <4>2, <4>3
    <3>8. Extends(Spelled(o, n), Spelled(o, n))
      BY <3>7, LenProperties DEF Extends
    <3> QED
      BY <2>2, <3>1, <3>7, <3>8
  <2> QED
    BY <2>3, <2>4
<1>3. \A n \in 0..Len(o) : Right(n)
  BY <1>2
<1> QED
  BY <1>3

\* What one token adds.
LEMMA SpelledToken ==
    ASSUME NEW o \in Seq(Token), NEW n \in 1..Len(o)
    PROVE  /\ n - 1 \in 0..Len(o) /\ n \in 0..Len(o) /\ o[n] \in Token
           /\ Spelled(o, n - 1) \in Seq(Chars) /\ Spelled(o, n) \in Seq(Chars)
           /\ Len(Spelled(o, n)) = Len(Spelled(o, n - 1)) + Len(TextOf[o[n]])
           /\ \A j \in 1..Len(TextOf[o[n]]) : Spelled(o, n)[Len(Spelled(o, n - 1)) + j] = TextOf[o[n]][j]
<1>1. Len(o) \in Nat
  BY LenProperties
<1>2. n - 1 \in 0..Len(o) /\ n \in 0..Len(o) /\ o[n] \in Token
  BY <1>1, ElementOfSeq
<1>3. Spelled(o, n - 1) \in Seq(Chars) /\ Spelled(o, n) \in Seq(Chars) /\ TextOf[o[n]] \in Seq(Chars)
  BY <1>2, SpelledGrows, TextsAreTexts
<1>4. Spelled(o, n) = Spelled(o, n - 1) \o TextOf[o[n]]
  BY SpelledIs
<1>5. Len(Spelled(o, n - 1)) \in Nat /\ Len(TextOf[o[n]]) \in Nat
  BY <1>3, LenProperties
<1> DEFINE s == Spelled(o, n - 1)
           x == TextOf[o[n]]
<1>6. s \in Seq(Chars) /\ x \in Seq(Chars)
  BY <1>3
<1> HIDE DEF s, x
<1>7. /\ Len(s \o x) = Len(s) + Len(x)
      /\ \A j \in 1..Len(x) : (s \o x)[Len(s) + j] = x[j]
  BY <1>6, ConcatProperties, LenProperties
<1>8. /\ Len(Spelled(o, n - 1) \o TextOf[o[n]]) = Len(Spelled(o, n - 1)) + Len(TextOf[o[n]])
      /\ \A j \in 1..Len(TextOf[o[n]]) : (Spelled(o, n - 1) \o TextOf[o[n]])[Len(Spelled(o, n - 1)) + j] = TextOf[o[n]][j]
  BY <1>7 DEF s, x
<1> QED
  BY <1>2, <1>3, <1>4, <1>8

\* Tokens that follow change nothing of it.
LEMMA SpelledStays ==
    ASSUME NEW o \in Seq(Token), NEW tok \in Token, NEW n \in 0..Len(o)
    PROVE  Spelled(Append(o, tok), n) = Spelled(o, n)
<1>1. Len(o) \in Nat
  BY LenProperties
<1>2. \A i \in 1..n : Append(o, tok)[i] = o[i]
  BY <1>1, AppendProperties
<1>3. [i \in 1..n |-> TextOf[Append(o, tok)[i]]] = [i \in 1..n |-> TextOf[o[i]]]
  BY <1>2
<1> QED
  BY <1>3 DEF Spelled

-----------------------------------------------------------------------------
(* Where the grammar stands at each character of the text.                 *)

\* The content of output o under ask a begins within its first n tokens.
Began(a, o, n) == a.choice = "forced" \/ ~a.thinks \/ \E i \in 1..n : o[i] \in Boundary

\* How many characters come before it.
Hidden(a, o) ==
    LET ends  == {i \in DOMAIN o : o[i] \in Boundary}
        first == CHOOSE i \in ends : \A j \in ends : i <= j
    IN  IF a.choice = "forced" \/ ~a.thinks THEN 0
        ELSE IF ends = {} THEN Len(Spelled(o, Len(o)))
        ELSE Len(Spelled(o, first)) - Len(ContentOf(o[first]))

LEMMA HiddenIs ==
    ASSUME NEW a, NEW o \in Seq(Token)
    PROVE  /\ a.choice = "forced" \/ ~a.thinks => Hidden(a, o) = 0
           /\ ~Began(a, o, Len(o)) => Hidden(a, o) = Len(Spelled(o, Len(o)))
           /\ \A n \in 1..Len(o) : ~Began(a, o, n - 1) /\ o[n] \in Boundary =>
                 Hidden(a, o) = Len(Spelled(o, n)) - Len(ContentOf(o[n]))
<1> DEFINE ends  == {i \in DOMAIN o : o[i] \in Boundary}
           first == CHOOSE i \in ends : \A j \in ends : i <= j
<1>1. Len(o) \in Nat /\ DOMAIN o = 1..Len(o)
  BY LenProperties
<1>2. a.choice = "forced" \/ ~a.thinks => Hidden(a, o) = 0
  BY DEF Hidden
<1>3. ~Began(a, o, Len(o)) => Hidden(a, o) = Len(Spelled(o, Len(o)))
  BY <1>1 DEF Hidden, Began
<1>4. ASSUME NEW n \in 1..Len(o), ~Began(a, o, n - 1), o[n] \in Boundary
      PROVE  Hidden(a, o) = Len(Spelled(o, n)) - Len(ContentOf(o[n]))
  <2>1. n \in ends /\ ends \subseteq 1..Len(o)
    BY <1>1, <1>4
  <2>2. \A j \in ends : n <= j
    <3>1. \A j \in 1..(n - 1) : j \notin ends
      BY <1>1, <1>4 DEF Began
    <3> QED
      BY <1>1, <2>1, <3>1
  <2>3. ~(a.choice = "forced" \/ ~a.thinks)
    BY <1>4 DEF Began
  <2>4. Hidden(a, o) = Len(Spelled(o, first)) - Len(ContentOf(o[first]))
    BY <2>1, <2>3 DEF Hidden
  <2> HIDE DEF ends
  <2>5. first \in ends /\ \A j \in ends : first <= j
    BY <2>1, <2>2
  <2> HIDE DEF first
  <2>6. first = n
    BY <1>1, <2>1, <2>2, <2>5
  <2> QED
    BY <2>4, <2>6
<1> QED
  BY <1>2, <1>3, <1>4

\* The token in which it began first.
LEMMA BeginsOnce ==
    ASSUME NEW a, NEW o \in Seq(Token), NEW n \in 0..Len(o), Began(a, o, n),
           a.choice # "forced", a.thinks
    PROVE  \E k \in 1..n : ~Began(a, o, k - 1) /\ o[k] \in Boundary
<1> DEFINE K == {i \in 1..n : o[i] \in Boundary}
<1>1. Len(o) \in Nat /\ n \in Nat
  BY LenProperties
<1>2. K \in SUBSET Nat /\ K # {}
  BY DEF Began
<1>3. PICK k \in K : \A i \in K : k <= i
  <2> HIDE DEF K
  <2> QED
    BY <1>2, Least
<1>4. \A i \in 1..(k - 1) : o[i] \notin Boundary
  BY <1>1, <1>3
<1> QED
  BY <1>3, <1>4 DEF Began

LEMMA TokenLengths ==
    \A tok \in Token : /\ Len(TextOf[tok]) \in Nat /\ TextOf[tok] \in Seq(Chars)
                       /\ tok = "close" => Len(ContentOf(tok)) = 0
                       /\ tok = "open" => Len(TextOf[tok]) = 1 /\ Len(ContentOf(tok)) = 1
<1>1. \A tok \in Token : TextOf[tok] \in Seq(Chars) /\ Len(TextOf[tok]) \in Nat
  BY TextsAreTexts, LenProperties
<1>2. Len(ContentOf("close")) = 0
  BY DEF ContentOf
<1>3. TextOf["open"] = <<"<">> /\ ContentOf("open") = <<"<">>
  BY TokenTexts DEF ContentOf
<1>4. Len(<<"<">>) = 1
  OBVIOUS
<1> QED
  BY <1>1, <1>2, <1>3, <1>4

\* Content that began before a token begins no later than it, and content that
\* did not begin with it begins no earlier than after it.
LEMMA HiddenAt ==
    ASSUME NEW a, NEW o \in Seq(Token)
    PROVE  /\ Hidden(a, o) \in Nat
           /\ \A n \in 0..Len(o) : Began(a, o, n) => Hidden(a, o) <= Len(Spelled(o, n))
           /\ \A n \in 0..Len(o) : ~Began(a, o, n) => Hidden(a, o) >= Len(Spelled(o, n))
           /\ \A n \in 1..Len(o) :
                 IF Began(a, o, n - 1) \/ o[n] = "open"
                 THEN Hidden(a, o) <= Len(Spelled(o, n - 1))
                 ELSE Hidden(a, o) >= Len(Spelled(o, n))
<1> DEFINE len(n) == Len(Spelled(o, n))
           H == Hidden(a, o)
<1>1. Len(o) \in Nat
  BY LenProperties
<1>2. \A n \in 0..Len(o) : len(n) \in Nat /\ \A m \in 0..n : len(m) \in Nat /\ len(m) <= len(n)
  <2>1. ASSUME NEW n \in 0..Len(o) PROVE len(n) \in Nat
    <3>1. Spelled(o, n) \in Seq(Chars)
      BY SpelledGrows
    <3> QED
      BY <3>1, LenProperties
  <2>2. \A n \in 0..Len(o) : \A m \in 0..n : m \in 0..Len(o) /\ len(m) <= len(n)
    BY <1>1, SpelledGrows DEF Extends
  <2> HIDE DEF len
  <2> QED
    BY <2>1, <2>2
<1>3. \A n \in 1..Len(o) : /\ o[n] \in Token /\ n - 1 \in 0..Len(o) /\ n \in 0..Len(o) /\ n - 1 \in 0..n
                           /\ len(n) = len(n - 1) + Len(TextOf[o[n]])
  <2> SUFFICES ASSUME NEW n \in 1..Len(o)
               PROVE  /\ o[n] \in Token /\ n - 1 \in 0..Len(o) /\ n \in 0..Len(o) /\ n - 1 \in 0..n
                      /\ len(n) = len(n - 1) + Len(TextOf[o[n]])
    OBVIOUS
  <2>1. o[n] \in Token /\ len(n) = len(n - 1) + Len(TextOf[o[n]])
    BY SpelledToken
  <2> HIDE DEF len
  <2> QED
    BY <1>1, <2>1
\* The token where the content begins.
<1>4. ASSUME NEW k \in 1..Len(o), ~Began(a, o, k - 1), o[k] \in Boundary
      PROVE  /\ H \in Nat /\ len(k - 1) <= H /\ H <= len(k)
             /\ o[k] = "open" => H = len(k - 1)
             /\ o[k] = "close" => H = len(k)
  <2>1. H = len(k) - Len(ContentOf(o[k]))
    BY <1>4, HiddenIs
  <2>2. len(k) \in Nat /\ len(k - 1) \in Nat /\ len(k - 1) <= len(k) /\ len(k) = len(k - 1) + Len(TextOf[o[k]])
    BY <1>2, <1>3
  <2>3. o[k] \in {"close", "open"}
    BY <1>4 DEF Boundary
  <2>4. /\ o[k] = "close" => Len(ContentOf(o[k])) = 0
        /\ o[k] = "open" => Len(TextOf[o[k]]) = 1 /\ Len(ContentOf(o[k])) = 1
    BY <1>3, TokenLengths
  <2> HIDE DEF H, len
  <2> QED
    BY <2>1, <2>2, <2>3, <2>4
<1>5. CASE a.choice = "forced" \/ ~a.thinks
  <2>1. H = 0 /\ \A n : Began(a, o, n)
    BY <1>5, HiddenIs DEF Began
  <2> HIDE DEF H, len
  <2>2. \A n \in 1..Len(o) : n - 1 \in 0..Len(o)
    BY <1>3
  <2> QED
    BY <1>2, <2>1, <2>2 DEF H, len
<1>6. CASE a.choice # "forced" /\ a.thinks /\ ~Began(a, o, Len(o))
  <2>1. H = len(Len(o)) /\ Len(o) \in 0..Len(o)
    BY <1>1, <1>6, HiddenIs
  <2>2. \A n \in 0..Len(o) : ~Began(a, o, n)
    BY <1>1, <1>6 DEF Began
  <2>3. \A n \in 1..Len(o) : o[n] \notin Boundary
    BY <1>1, <1>6 DEF Began
  <2>4. \A n \in 1..Len(o) : o[n] # "open"
    BY <2>3 DEF Boundary
  <2>5. H \in Nat /\ \A n \in 0..Len(o) : H >= len(n)
    BY <1>2, <2>1
  <2> HIDE DEF H, len
  <2> QED
    BY <1>3, <2>2, <2>4, <2>5 DEF H, len
<1>7. CASE a.choice # "forced" /\ a.thinks /\ Began(a, o, Len(o))
  <2>1. PICK k \in 1..Len(o) : ~Began(a, o, k - 1) /\ o[k] \in Boundary
    <3>1. Len(o) \in 0..Len(o)
      BY <1>1
    <3> QED
      BY <1>7, <3>1, BeginsOnce
  <2>2. /\ H \in Nat /\ len(k - 1) <= H /\ H <= len(k)
        /\ o[k] = "open" => H = len(k - 1)
        /\ o[k] = "close" => H = len(k)
    BY <1>4, <2>1
  <2>3. \A n \in 0..Len(o) : Began(a, o, n) <=> k <= n
    <3>1. \A i \in 1..(k - 1) : o[i] \notin Boundary
      BY <2>1 DEF Began
    <3>2. \A n \in 0..Len(o) : k <= n => k \in 1..n
      BY <1>1
    <3>3. \A n \in 0..Len(o) : ~(k <= n) => \A i \in 1..n : i \in 1..(k - 1)
      BY <1>1
    <3> QED
      BY <1>7, <2>1, <3>1, <3>2, <3>3 DEF Began
  <2>4. ASSUME NEW n \in 0..Len(o), Began(a, o, n) PROVE H <= len(n)
    <3>1. k \in 0..n /\ len(k) <= len(n) /\ len(k) \in Nat /\ len(n) \in Nat
      BY <1>1, <1>2, <2>3, <2>4
    <3> HIDE DEF H, len
    <3> QED
      BY <2>2, <3>1
  <2>5. ASSUME NEW n \in 0..Len(o), ~Began(a, o, n) PROVE H >= len(n)
    <3>1. k - 1 \in 0..Len(o) /\ n \in 0..(k - 1)
      BY <1>1, <2>3, <2>5
    <3>2. len(n) <= len(k - 1) /\ len(k - 1) \in Nat /\ len(n) \in Nat
      BY <1>2, <3>1
    <3> HIDE DEF H, len
    <3> QED
      BY <2>2, <3>2
  <2>6. ASSUME NEW n \in 1..Len(o)
        PROVE  IF Began(a, o, n - 1) \/ o[n] = "open" THEN H <= len(n - 1) ELSE H >= len(n)
    <3>1. n - 1 \in 0..Len(o) /\ n \in 0..Len(o)
      BY <1>1
    <3>2. CASE Began(a, o, n - 1)
      BY <2>4, <3>1, <3>2
    <3>3. CASE ~Began(a, o, n - 1) /\ o[n] = "open"
      <4>1. o[n] \in Boundary
        BY <3>3 DEF Boundary
      <4>2. H = len(n - 1) /\ len(n - 1) \in Nat
        BY <1>2, <1>4, <3>1, <3>3, <4>1
      <4> HIDE DEF H, len
      <4> QED
        BY <3>3, <4>2
    <3>4. CASE ~Began(a, o, n - 1) /\ o[n] = "close"
      <4>1. o[n] \in Boundary
        BY <3>4 DEF Boundary
      <4>2. H = len(n) /\ len(n) \in Nat
        BY <1>2, <1>4, <3>1, <3>4, <4>1
      <4> HIDE DEF H, len
      <4> QED
        BY <3>4, <4>2
    <3>5. CASE ~Began(a, o, n - 1) /\ o[n] # "open" /\ o[n] # "close"
      <4>1. ~Began(a, o, n)
        <5>1. o[n] \notin Boundary
          BY <3>5 DEF Boundary
        <5>2. \A i \in 1..n : i = n \/ i \in 1..(n - 1)
          BY <1>1
        <5> QED
          BY <3>5, <5>1, <5>2 DEF Began
      <4> QED
        BY <2>5, <3>1, <3>5, <4>1
    <3> QED
      BY <3>2, <3>3, <3>4, <3>5
  <2> HIDE DEF H, len
  <2> QED
    BY <2>2, <2>4, <2>5, <2>6 DEF H, len
<1> QED
  BY <1>5, <1>6, <1>7

\* Where the grammar stands p characters into output o.
Stands(o, p) == Read(Start(ask), SubSeq(Spelled(o, Len(o)), Hidden(ask, o) + 1, p))

LEMMA SubSeqGrows ==
    ASSUME NEW s \in Seq(Chars), NEW h \in Nat, NEW p \in 1..Len(s)
    PROVE  /\ p <= h => SubSeq(s, h + 1, p) = <<>>
           /\ p > h => /\ SubSeq(s, h + 1, p) = Append(SubSeq(s, h + 1, p - 1), s[p])
                       /\ SubSeq(s, h + 1, p - 1) \in Seq(Chars) /\ s[p] \in Chars
<1>1. Len(s) \in Nat /\ \A i \in 1..Len(s) : s[i] \in Chars
  BY LenProperties, ElementOfSeq
<1>2. ASSUME p <= h PROVE SubSeq(s, h + 1, p) = <<>>
  BY <1>1, <1>2
<1>3. ASSUME p > h
      PROVE  /\ SubSeq(s, h + 1, p) = Append(SubSeq(s, h + 1, p - 1), s[p])
             /\ SubSeq(s, h + 1, p - 1) \in Seq(Chars) /\ s[p] \in Chars
  <2>1. p - 1 \in 0..Len(s) /\ p \in 0..Len(s) /\ h + 1 \in 1..p
    BY <1>1, <1>3
  <2>2. \A i \in (h + 1)..p : s[i] \in Chars
    BY <1>1, <2>1
  <2>3. /\ SubSeq(s, h + 1, p) \in Seq(Chars) /\ Len(SubSeq(s, h + 1, p)) = p - h
        /\ \A i \in 1..(p - h) : SubSeq(s, h + 1, p)[i] = s[h + i]
    BY <1>1, <1>3, <2>1, <2>2
  <2>4. /\ SubSeq(s, h + 1, p - 1) \in Seq(Chars) /\ Len(SubSeq(s, h + 1, p - 1)) = (p - 1) - h
        /\ \A i \in 1..((p - 1) - h) : SubSeq(s, h + 1, p - 1)[i] = s[h + i]
    BY <1>1, <1>3, <2>1, <2>2
  <2> DEFINE t == SubSeq(s, h + 1, p)
             u == SubSeq(s, h + 1, p - 1)
  <2> HIDE DEF t, u
  <2>5. t \in Seq(Chars) /\ Len(t) = p - h /\ \A i \in 1..(p - h) : t[i] = s[h + i]
    BY <2>3 DEF t
  <2>6. u \in Seq(Chars) /\ Len(u) = (p - 1) - h /\ \A i \in 1..((p - 1) - h) : u[i] = s[h + i]
    BY <2>4 DEF u
  <2>7. s[p] \in Chars
    BY <1>1
  <2>8. /\ Append(u, s[p]) \in Seq(Chars) /\ Len(Append(u, s[p])) = p - h
        /\ \A i \in 1..(p - h) : Append(u, s[p])[i] = s[h + i]
    <3>1. (p - 1) - h \in Nat /\ ((p - 1) - h) + 1 = p - h /\ h + (p - h) = p /\ p - h \in Nat
      BY <1>3
    <3>2. /\ Append(u, s[p]) \in Seq(Chars) /\ Len(Append(u, s[p])) = ((p - 1) - h) + 1
          /\ \A i \in 1..((p - 1) - h) : Append(u, s[p])[i] = u[i]
          /\ Append(u, s[p])[((p - 1) - h) + 1] = s[p]
      BY <2>6, <2>7, AppendProperties
    <3>3. \A i \in 1..(p - h) : i \in 1..((p - 1) - h) \/ i = p - h
      BY <3>1
    <3> QED
      BY <2>6, <3>1, <3>2, <3>3
  <2>9. t = Append(u, s[p])
    BY <2>5, <2>8, SeqEqual
  <2> QED
    BY <2>6, <2>7, <2>9 DEF t, u
<1> QED
  BY <1>2, <1>3

LEMMA StandsIs ==
    ASSUME NEW o \in Seq(Token)
    PROVE  LET W == Spelled(o, Len(o))
           IN  /\ W \in Seq(Chars)
               /\ \A p \in 0..Len(W) : p <= Hidden(ask, o) => Stands(o, p) = Start(ask)
               /\ \A p \in 1..Len(W) : p > Hidden(ask, o) => Stands(o, p) = After(Stands(o, p - 1), W[p])
<1> DEFINE W == Spelled(o, Len(o))
           H == Hidden(ask, o)
<1>1. Len(o) \in 0..Len(o)
  BY LenProperties
<1>2. W \in Seq(Chars) /\ Len(W) \in Nat /\ H \in Nat
  <2>1. W \in Seq(Chars)
    BY <1>1, SpelledGrows
  <2> QED
    BY <2>1, HiddenAt, LenProperties
<1>3. \A p : Stands(o, p) = Read(Start(ask), SubSeq(W, H + 1, p))
  BY DEF Stands
<1> HIDE DEF W, H
<1>4. ASSUME NEW p \in 0..Len(W), p <= H PROVE Stands(o, p) = Start(ask)
  <2>1. SubSeq(W, H + 1, p) = <<>>
    <3>1. CASE p = 0
      BY <1>2, <3>1
    <3>2. CASE p # 0
      BY <1>2, <1>4, <3>2, SubSeqGrows
    <3> QED
      BY <3>1, <3>2
  <2> QED
    BY <1>3, <2>1, ReadNothing
<1>5. ASSUME NEW p \in 1..Len(W), p > H PROVE Stands(o, p) = After(Stands(o, p - 1), W[p])
  <2>1. /\ SubSeq(W, H + 1, p) = Append(SubSeq(W, H + 1, p - 1), W[p])
        /\ SubSeq(W, H + 1, p - 1) \in Seq(Chars) /\ W[p] \in Chars
    BY <1>2, <1>5, SubSeqGrows
  <2>2. Read(Start(ask), Append(SubSeq(W, H + 1, p - 1), W[p])) = After(Read(Start(ask), SubSeq(W, H + 1, p - 1)), W[p])
    BY <2>1, ReadOneMore, ZenonT(60)
  <2> QED
    BY <1>3, <2>1, <2>2
<1> QED
  BY <1>2, <1>4, <1>5 DEF W, H

\* How a token of the output takes the grammar on.
LEMMA TokenTakes ==
    ASSUME NEW o \in Seq(Token), NEW n \in 1..Len(o)
    PROVE  LET b == Len(Spelled(o, n - 1))
               e == Len(Spelled(o, n))
           IN  /\ b \in Nat /\ e = b + Len(TextOf[o[n]]) /\ e <= Len(Spelled(o, Len(o)))
               /\ Began(ask, o, n - 1) \/ o[n] = "open" =>
                     \A j \in 1..Len(TextOf[o[n]]) :
                        Stands(o, b + j) = After(Stands(o, (b + j) - 1), TextOf[o[n]][j])
               /\ ~(Began(ask, o, n - 1) \/ o[n] = "open") =>
                     \A p \in 0..e : Stands(o, p) = Start(ask)
<1> DEFINE b == Len(Spelled(o, n - 1))
           e == Len(Spelled(o, n))
           W == Spelled(o, Len(o))
           H == Hidden(ask, o)
           x == TextOf[o[n]]
<1>1. Len(o) \in Nat /\ Len(o) \in 0..Len(o) /\ n \in 0..Len(o)
  BY LenProperties
<1>2. /\ o[n] \in Token /\ b \in Nat /\ e \in Nat /\ Len(x) \in Nat /\ e = b + Len(x)
      /\ \A j \in 1..Len(x) : Spelled(o, n)[b + j] = x[j]
  <2>1. /\ o[n] \in Token /\ Spelled(o, n - 1) \in Seq(Chars) /\ Spelled(o, n) \in Seq(Chars)
        /\ e = b + Len(x) /\ \A j \in 1..Len(x) : Spelled(o, n)[b + j] = x[j]
    BY SpelledToken
  <2> QED
    BY <2>1, TokenLengths, LenProperties
<1>3. W \in Seq(Chars) /\ Len(W) \in Nat /\ Extends(W, Spelled(o, n))
  <2>1. W \in Seq(Chars) /\ Extends(W, Spelled(o, n))
    BY <1>1, SpelledGrows
  <2> QED
    BY <2>1, LenProperties
<1>4. e <= Len(W) /\ \A i \in 1..e : W[i] = Spelled(o, n)[i]
  BY <1>3 DEF Extends
<1>5. /\ \A p \in 0..Len(W) : p <= H => Stands(o, p) = Start(ask)
      /\ \A p \in 1..Len(W) : p > H => Stands(o, p) = After(Stands(o, p - 1), W[p])
  BY StandsIs
<1>6. H \in Nat /\ IF Began(ask, o, n - 1) \/ o[n] = "open" THEN H <= b ELSE H >= e
  BY HiddenAt
<1> HIDE DEF b, e, W, H, x
<1>7. ASSUME Began(ask, o, n - 1) \/ o[n] = "open", NEW j \in 1..Len(x)
      PROVE  Stands(o, b + j) = After(Stands(o, (b + j) - 1), x[j])
  <2>1. b + j \in 1..Len(W) /\ b + j > H /\ b + j \in 1..e
    BY <1>2, <1>3, <1>4, <1>6, <1>7
  <2>2. W[b + j] = x[j]
    BY <1>2, <1>4, <2>1
  <2>3. ASSUME NEW q, q = b + j PROVE Stands(o, q) = After(Stands(o, q - 1), x[j])
    <3>1. q \in 1..Len(W) /\ q > H /\ W[q] = x[j]
      BY <2>1, <2>2, <2>3
    <3>2. Stands(o, q) = After(Stands(o, q - 1), W[q])
      BY <1>5, <3>1
    <3> QED
      BY <3>1, <3>2
  <2> QED
    BY <2>3, Zenon
<1>8. ASSUME ~(Began(ask, o, n - 1) \/ o[n] = "open"), NEW p \in 0..e
      PROVE  Stands(o, p) = Start(ask)
  <2>1. p \in 0..Len(W) /\ p <= H
    BY <1>2, <1>3, <1>4, <1>6, <1>8
  <2> QED
    BY <1>5, <2>1
<1>9. /\ b \in Nat /\ e = b + Len(x) /\ e <= Len(W)
  BY <1>2, <1>4
<1> QED
  BY <1>7, <1>8, <1>9 DEF b, e, W, H, x

\* Before the content begins the grammar waits at its start.
LEMMA WaitsAtStart ==
    ASSUME NEW o \in Seq(Token), NEW n \in 0..Len(o), ~Began(ask, o, n),
           NEW p \in 0..Len(Spelled(o, n))
    PROVE  Stands(o, p) = Start(ask) /\ Start(ask) = IF ask.choice = "auto" THEN "text" ELSE "think"
<1>1. Len(o) \in Nat /\ Len(o) \in 0..Len(o) /\ n \in 0..Len(o)
  BY LenProperties
<1>2. Hidden(ask, o) \in Nat /\ Hidden(ask, o) >= Len(Spelled(o, n))
  BY HiddenAt
<1>3. Spelled(o, n) \in Seq(Chars) /\ Extends(Spelled(o, Len(o)), Spelled(o, n)) /\ Spelled(o, Len(o)) \in Seq(Chars)
  BY <1>1, SpelledGrows
<1>4. Len(Spelled(o, n)) \in Nat /\ Len(Spelled(o, Len(o))) \in Nat /\ Len(Spelled(o, n)) <= Len(Spelled(o, Len(o)))
  BY <1>3, LenProperties DEF Extends
<1>5. p \in 0..Len(Spelled(o, Len(o))) /\ p <= Hidden(ask, o)
  BY <1>2, <1>4
<1>6. Stands(o, p) = Start(ask)
  BY <1>5, StandsIs
<1> QED
  BY <1>6 DEF Start, Began


\* Tokens that follow do not move where the grammar stood.
LEMMA StandsStays ==
    ASSUME NEW o \in Seq(Token), NEW tok \in Token, NEW p \in 0..Len(Spelled(o, Len(o)))
    PROVE  Stands(Append(o, tok), p) = Stands(o, p)
<1> DEFINE n == Len(o)
<1> PICK u : u = Append(o, tok)
  OBVIOUS
<1>1. n \in Nat /\ n \in 0..n /\ DOMAIN o = 1..n
  BY LenProperties
<1>2. u \in Seq(Token) /\ Len(u) = n + 1 /\ \A i \in 1..n : u[i] = o[i]
  BY <1>1, AppendProperties
<1>3. n \in 0..Len(u) /\ Len(u) \in 0..Len(u)
  BY <1>1, <1>2
<1>4. \A i \in 0..n : Spelled(u, i) = Spelled(o, i)
  BY SpelledStays
<1> DEFINE V == Spelled(o, n)
           W == Spelled(u, Len(u))
           H == Hidden(ask, o)
           K == Hidden(ask, u)
<1>5. V \in Seq(Chars) /\ Spelled(u, n) = V /\ W \in Seq(Chars) /\ Extends(W, V)
  <2>1. V \in Seq(Chars)
    BY <1>1, SpelledGrows
  <2>2. Spelled(u, n) = V
    BY <1>1, <1>4
  <2>3. W \in Seq(Chars) /\ Extends(W, Spelled(u, n))
    BY <1>2, <1>3, SpelledGrows
  <2> QED
    BY <2>1, <2>2, <2>3
<1>6. Len(V) \in Nat /\ Len(W) \in Nat /\ Len(V) <= Len(W) /\ \A i \in 1..Len(V) : W[i] = V[i]
  BY <1>5, LenProperties DEF Extends
<1>7. \A i \in 0..n : Began(ask, u, i) <=> Began(ask, o, i)
  <2>1. \A i \in 0..n : \A j \in 1..i : u[j] = o[j]
    BY <1>1, <1>2
  <2> QED
    BY <2>1 DEF Began
<1>8. H \in Nat /\ K \in Nat
  BY <1>2, HiddenAt
<1>9. H = K \/ (H >= Len(V) /\ K >= Len(V))
  <2>1. CASE ask.choice = "forced" \/ ~ask.thinks
    BY <2>1, <1>2, HiddenIs
  <2>2. CASE ~Began(ask, o, n)
    <3>1. ~Began(ask, u, n)
      BY <2>2, <1>1, <1>7
    <3>2. H >= Len(V)
      BY <2>2, <1>1, HiddenAt
    <3>3. K >= Len(Spelled(u, n))
      BY <3>1, <1>2, <1>3, HiddenAt
    <3> QED
      BY <3>2, <3>3, <1>5
  <2>3. CASE Began(ask, o, n) /\ ask.choice # "forced" /\ ask.thinks
    <3>1. PICK k \in 1..n : ~Began(ask, o, k - 1) /\ o[k] \in Boundary
      BY <2>3, <1>1, BeginsOnce
    <3>2. k \in 1..Len(u) /\ k - 1 \in 0..n /\ k \in 0..n
      BY <1>1, <1>2
    <3>3. ~Began(ask, u, k - 1) /\ u[k] \in Boundary /\ u[k] = o[k]
      BY <1>2, <1>7, <3>1, <3>2
    <3>4. H = Len(Spelled(o, k)) - Len(ContentOf(o[k]))
      BY <3>1, HiddenIs
    <3>5. K = Len(Spelled(u, k)) - Len(ContentOf(u[k]))
      BY <1>2, <3>2, <3>3, HiddenIs
    <3>6. Spelled(u, k) = Spelled(o, k)
      BY <1>4, <3>2
    <3> QED
      BY <3>3, <3>4, <3>5, <3>6
  <2> QED
    BY <2>1, <2>2, <2>3
<1>10. /\ \A q \in 0..Len(V) : q <= H => Stands(o, q) = Start(ask)
       /\ \A q \in 1..Len(V) : q > H => Stands(o, q) = After(Stands(o, q - 1), V[q])
  BY StandsIs
<1>11. /\ \A q \in 0..Len(W) : q <= K => Stands(u, q) = Start(ask)
       /\ \A q \in 1..Len(W) : q > K => Stands(u, q) = After(Stands(u, q - 1), W[q])
  BY <1>2, StandsIs
<1> DEFINE B == {q \in 0..Len(V) : Stands(u, q) # Stands(o, q)}
<1> HIDE DEF n, V, W, H, K
<1>12. ASSUME B # {} PROVE FALSE
  <2>1. PICK q \in B : \A r \in B : q <= r
    <3>1. B \in SUBSET Nat
      BY <1>6
    <3> HIDE DEF B
    <3> QED
      BY <1>12, <3>1, Least
  <2>2. q \in 0..Len(V) /\ Stands(u, q) # Stands(o, q) /\ q \in 0..Len(W)
    BY <1>6, <2>1
  <2>3. \A r \in 0..Len(V) : r < q => Stands(u, r) = Stands(o, r)
    BY <1>6, <2>1
  <2>4. CASE q <= H
    <3>1. q <= K
      BY <1>6, <1>8, <1>9, <2>2, <2>4
    <3> QED
      BY <1>10, <1>11, <2>2, <2>4, <3>1
  <2>5. CASE q > H
    <3>1. q > K /\ q \in 1..Len(V) /\ q \in 1..Len(W) /\ q - 1 \in 0..Len(V) /\ q - 1 < q
      BY <1>6, <1>8, <1>9, <2>2, <2>5
    <3>2. Stands(u, q - 1) = Stands(o, q - 1) /\ W[q] = V[q]
      BY <1>6, <2>3, <3>1
    <3>3. Stands(o, q) = After(Stands(o, q - 1), V[q])
      BY <1>10, <2>5, <3>1
    <3>4. Stands(u, q) = After(Stands(u, q - 1), W[q])
      BY <1>11, <3>1
    <3> QED
      BY <2>2, <3>2, <3>3, <3>4
  <2> QED
    BY <1>8, <2>2, <2>4, <2>5
<1>13. p \in 0..Len(V)
  BY DEF V, n
<1> QED
  BY <1>12, <1>13

-----------------------------------------------------------------------------
(* What the checker protects.                                              *)

\* A span that holds character p.
Holds(span, p) == span[1] <= p /\ p < span[2]

\* From lo on, every character before hi that a call holds is in a span.
Covered(o, spans, lo, hi) ==
    \A p \in Nat : lo <= p /\ p < hi =>
        \/ Complete(Stands(o, p)) /\ Complete(Stands(o, p + 1))
        \/ \E span \in spans : Holds(span, p)

IsSpans(spans, hi) ==
    \A span \in spans : /\ span[1] \in Nat /\ span[2] \in Nat
                        /\ span[1] < span[2] /\ span[2] <= hi

\* No character outside every call is in a span.
Exact(o, spans) ==
    \A p \in Nat : (\E span \in spans : Holds(span, p)) =>
        ~(Complete(Stands(o, p)) /\ Complete(Stands(o, p + 1)))

\* A checker that has followed output o to its character p.
Tracks(f, o, lo, p) ==
    /\ IsChecker(f) /\ f.offset = p /\ f.matcher = Stands(o, p)
    /\ IsSpans(f.spans, p) /\ Covered(o, f.spans, lo, p) /\ Exact(o, f.spans)

\* Protecting one more character gives up none, and adds no other.
LEMMA ProtectHolds ==
    ASSUME NEW spans, NEW p \in Nat, IsSpans(spans, p)
    PROVE  /\ IsSpans(Protect(spans, p), p + 1)
           /\ \E span \in Protect(spans, p) : Holds(span, p)
           /\ \A q \in Nat : (\E span \in spans : Holds(span, q)) =>
                             \E span \in Protect(spans, p) : Holds(span, q)
           /\ \A q \in Nat : (\E span \in Protect(spans, p) : Holds(span, q)) =>
                             q = p \/ \E span \in spans : Holds(span, q)
<1> DEFINE last == {span \in spans : span[2] = p}
           wider == {<<span[1], p + 1>> : span \in last}
<1>1. Protect(spans, p) = IF last = {} THEN spans \cup {<<p, p + 1>>} ELSE (spans \ last) \cup wider
  BY DEF Protect
<1>2. \A span \in spans : span[1] \in Nat /\ span[2] \in Nat /\ span[1] < span[2] /\ span[2] <= p
  BY DEF IsSpans
<1>3. CASE last = {}
  <2>1. Protect(spans, p) = spans \cup {<<p, p + 1>>}
    BY <1>1, <1>3
  <2> PICK new : new = <<p, p + 1>>
    OBVIOUS
  <2>2. new[1] = p /\ new[2] = p + 1
    OBVIOUS
  <2>3. new \in Protect(spans, p) /\ \A span \in Protect(spans, p) : span \in spans \/ span = new
    BY <2>1
  <2>4. Holds(new, p)
    BY <2>2 DEF Holds
  <2>5. \A span \in spans : span \in Protect(spans, p)
    BY <2>1
  <2>6. IsSpans(Protect(spans, p), p + 1)
    BY <1>2, <2>2, <2>3 DEF IsSpans
  <2>7. \A q \in Nat : Holds(new, q) => q = p
    BY <2>2 DEF Holds
  <2>8. \A q \in Nat : (\E span \in Protect(spans, p) : Holds(span, q)) =>
                       q = p \/ \E span \in spans : Holds(span, q)
    BY <2>3, <2>7
  <2> QED
    BY <2>3, <2>4, <2>5, <2>6, <2>8
<1>4. CASE last # {}
  <2>1. Protect(spans, p) = (spans \ last) \cup wider
    BY <1>1, <1>4
  <2>2. ASSUME NEW span \in last
        PROVE  \E w \in wider : w[1] = span[1] /\ w[2] = p + 1
    <3>1. <<span[1], p + 1>> \in wider
      OBVIOUS
    <3> QED
      BY <3>1
  <2>3. ASSUME NEW w \in wider
        PROVE  \E span \in last : w[1] = span[1] /\ w[2] = p + 1
    OBVIOUS
  <2>4. \A span \in last : span \in spans /\ span[2] = p
    OBVIOUS
  <2>5. \A span \in Protect(spans, p) : span \in spans \/ span \in wider
    BY <2>1
  <2>6. \A w \in wider : w \in Protect(spans, p)
    BY <2>1
  <2>7. \A span \in spans : span \in last \/ span \in Protect(spans, p)
    BY <2>1
  <2> HIDE DEF last, wider
  <2>8. IsSpans(Protect(spans, p), p + 1)
    <3>1. ASSUME NEW w \in wider
          PROVE  w[1] \in Nat /\ w[2] \in Nat /\ w[1] < w[2] /\ w[2] <= p + 1
      <4>1. PICK span \in last : w[1] = span[1] /\ w[2] = p + 1
        BY <2>3
      <4>2. span[1] \in Nat /\ span[1] < p
        BY <1>2, <2>4
      <4> QED
        BY <4>1, <4>2
    <3>2. \A span \in spans : span[1] \in Nat /\ span[2] \in Nat /\ span[1] < span[2] /\ span[2] <= p + 1
      BY <1>2
    <3> QED
      BY <2>5, <3>1, <3>2 DEF IsSpans
  <2>9. \E span \in Protect(spans, p) : Holds(span, p)
    <3>1. PICK span \in last : TRUE
      BY <1>4
    <3>2. PICK w \in wider : w[1] = span[1] /\ w[2] = p + 1
      BY <2>2
    <3>3. span[1] \in Nat /\ span[1] < p
      BY <1>2, <2>4
    <3>4. Holds(w, p)
      BY <3>2, <3>3 DEF Holds
    <3> QED
      BY <2>6, <3>4
  <2>10. ASSUME NEW q \in Nat, NEW span \in spans, Holds(span, q)
         PROVE  \E s \in Protect(spans, p) : Holds(s, q)
    <3>1. CASE span \in last
      <4>1. PICK w \in wider : w[1] = span[1] /\ w[2] = p + 1
        BY <2>2, <3>1
      <4>2. span[1] <= q /\ q < p
        BY <2>4, <2>10, <3>1 DEF Holds
      <4>3. Holds(w, q)
        BY <4>1, <4>2 DEF Holds
      <4> QED
        BY <2>6, <4>3
    <3>2. CASE span \notin last
      BY <2>7, <2>10, <3>2
    <3> QED
      BY <3>1, <3>2
  <2>11. ASSUME NEW q \in Nat, NEW s \in Protect(spans, p), Holds(s, q)
         PROVE  q = p \/ \E span \in spans : Holds(span, q)
    <3>1. CASE s \in spans
      BY <2>11, <3>1
    <3>2. CASE s \in wider
      <4>1. PICK span \in last : s[1] = span[1] /\ s[2] = p + 1
        BY <2>3, <3>2
      <4>2. span \in spans /\ span[2] = p
        BY <2>4
      <4>3. span[1] <= q /\ q < p + 1
        BY <2>11, <4>1 DEF Holds
      <4>4. q = p \/ Holds(span, q)
        BY <4>2, <4>3 DEF Holds
      <4> QED
        BY <4>2, <4>4
    <3> QED
      BY <2>5, <3>1, <3>2
  <2> QED
    BY <2>8, <2>9, <2>10, <2>11
<1> QED
  BY <1>3, <1>4

\* A character is protected unless it is outside every call.
LEMMA TracksChar ==
    ASSUME NEW f, NEW o, NEW lo \in Int, NEW p \in Nat, Tracks(f, o, lo, p),
           NEW c, Stands(o, p + 1) = After(Stands(o, p), c)
    PROVE  Tracks(FeedChar(f, c), o, lo, p + 1) /\ FeedChar(f, c).ended = f.ended
<1> DEFINE g == After(f.matcher, c)
           spans == IF Complete(f.matcher) /\ Complete(g) THEN f.spans ELSE Protect(f.spans, f.offset)
<1>1. FeedChar(f, c) = [f EXCEPT !.matcher = g, !.offset = f.offset + 1, !.spans = spans]
  BY DEF FeedChar
<1>2. f.offset = p /\ f.matcher = Stands(o, p) /\ IsChecker(f) /\ IsSpans(f.spans, p)
      /\ Covered(o, f.spans, lo, p) /\ Exact(o, f.spans)
  BY DEF Tracks
<1>3. g = Stands(o, p + 1)
  BY <1>2
<1>4. IsSpans(spans, p + 1) /\ Covered(o, spans, lo, p + 1) /\ Exact(o, spans)
  <2>1. CASE Complete(f.matcher) /\ Complete(g)
    <3>1. spans = f.spans /\ Complete(Stands(o, p)) /\ Complete(Stands(o, p + 1))
      BY <1>2, <1>3, <2>1
    <3> HIDE DEF spans, g
    <3>2. IsSpans(spans, p + 1)
      BY <1>2, <3>1 DEF IsSpans
    <3>3. ASSUME NEW q \in Nat, lo <= q, q < p + 1
          PROVE  \/ Complete(Stands(o, q)) /\ Complete(Stands(o, q + 1))
                 \/ \E span \in spans : Holds(span, q)
      <4>1. CASE q = p
        BY <3>1, <4>1
      <4>2. CASE q # p
        <5>1. q < p
          BY <3>3, <4>2
        <5> QED
          BY <1>2, <3>1, <3>3, <5>1 DEF Covered
      <4> QED
        BY <4>1, <4>2
    <3>4. Exact(o, spans)
      BY <1>2, <3>1
    <3> QED
      BY <3>2, <3>3, <3>4 DEF Covered
  <2>2. CASE ~(Complete(f.matcher) /\ Complete(g))
    <3>1. spans = Protect(f.spans, p)
      BY <1>2, <2>2
    <3>2. /\ IsSpans(Protect(f.spans, p), p + 1)
          /\ \E span \in Protect(f.spans, p) : Holds(span, p)
          /\ \A q \in Nat : (\E span \in f.spans : Holds(span, q)) =>
                            \E span \in Protect(f.spans, p) : Holds(span, q)
          /\ \A q \in Nat : (\E span \in Protect(f.spans, p) : Holds(span, q)) =>
                            q = p \/ \E span \in f.spans : Holds(span, q)
      BY <1>2, ProtectHolds
    <3> HIDE DEF spans, g
    <3>3. ASSUME NEW q \in Nat, lo <= q, q < p + 1
          PROVE  \/ Complete(Stands(o, q)) /\ Complete(Stands(o, q + 1))
                 \/ \E span \in spans : Holds(span, q)
      <4>1. CASE q = p
        BY <3>1, <3>2, <4>1
      <4>2. CASE q # p
        <5>1. q < p
          BY <3>3, <4>2
        <5>2. \/ Complete(Stands(o, q)) /\ Complete(Stands(o, q + 1))
              \/ \E span \in f.spans : Holds(span, q)
          BY <1>2, <3>3, <5>1 DEF Covered
        <5> QED
          BY <3>1, <3>2, <5>2
      <4> QED
        BY <4>1, <4>2
    <3>4. ~(Complete(Stands(o, p)) /\ Complete(Stands(o, p + 1)))
      BY <1>2, <1>3, <2>2
    <3>5. Exact(o, spans)
      BY <1>2, <3>1, <3>2, <3>4 DEF Exact
    <3> QED
      BY <3>1, <3>2, <3>3, <3>5 DEF Covered
  <2> QED
    BY <2>1, <2>2
<1> HIDE DEF g, spans
<1>5. FeedChar(f, c) = [matcher |-> g, ended |-> f.ended, offset |-> p + 1, spans |-> spans]
  BY <1>1, <1>2 DEF IsChecker
<1>6. IsChecker(FeedChar(f, c))
  BY <1>2, FeedCharIs
<1> QED
  BY <1>3, <1>4, <1>5, <1>6 DEF Tracks

\* Text the grammar does not read is outside every call.
LEMMA TracksUnread ==
    ASSUME NEW f, NEW h, NEW o, NEW lo \in Int, NEW b \in Nat, NEW e \in Nat, b <= e,
           Tracks(f, o, lo, b), IsChecker(h),
           h.matcher = f.matcher, h.spans = f.spans, h.offset = e,
           \A p \in b..e : Stands(o, p) = Stands(o, b) /\ Complete(Stands(o, p))
    PROVE  Tracks(h, o, lo, e)
<1>1. f.matcher = Stands(o, b) /\ IsSpans(f.spans, b) /\ Covered(o, f.spans, lo, b) /\ Exact(o, f.spans)
  BY DEF Tracks
<1>2. e \in b..e
  OBVIOUS
<1>3. h.matcher = Stands(o, e)
  BY <1>1, <1>2
<1>4. IsSpans(h.spans, e)
  <2>1. \A span \in f.spans : span[1] \in Nat /\ span[2] \in Nat /\ span[1] < span[2] /\ span[2] <= b
    BY <1>1 DEF IsSpans
  <2>2. \A span \in f.spans : span[1] \in Nat /\ span[2] \in Nat /\ span[1] < span[2] /\ span[2] <= e
    BY <2>1
  <2> QED
    BY <2>2 DEF IsSpans
<1>5. Covered(o, h.spans, lo, e)
  <2> SUFFICES ASSUME NEW q \in Nat, lo <= q, q < e
               PROVE  \/ Complete(Stands(o, q)) /\ Complete(Stands(o, q + 1))
                      \/ \E span \in h.spans : Holds(span, q)
    BY DEF Covered
  <2>1. CASE q < b
    BY <1>1, <2>1 DEF Covered
  <2>2. CASE q >= b
    <3>1. q \in b..e /\ q + 1 \in b..e
      BY <2>2
    <3> QED
      BY <3>1
  <2> QED
    BY <2>1, <2>2
<1>6. Exact(o, h.spans)
  BY <1>1
<1> QED
  BY <1>3, <1>4, <1>5, <1>6 DEF Tracks

\* The checker follows a token over the whole of its text.
LEMMA TracksToken ==
    ASSUME ask \in Asks, NEW o \in Seq(Token), NEW n \in 1..Len(o), NEW lo \in Int,
           Tracks(checker, o, lo, Len(Spelled(o, n - 1))),
           checker.ended <=> Began(ask, o, n - 1)
    PROVE  /\ Tracks(Feed(o[n]), o, lo, Len(Spelled(o, n)))
           /\ Feed(o[n]).ended <=> Began(ask, o, n)
<1> DEFINE tok == o[n]
           b == Len(Spelled(o, n - 1))
           e == Len(Spelled(o, n))
<1>1. Len(o) \in Nat /\ n - 1 \in 0..Len(o) /\ tok \in Token
  BY LenProperties, SpelledToken
<1>2. IsChecker(checker) /\ checker.offset = b
  BY DEF Tracks
<1>3. /\ IsChecker(Feed(tok))
      /\ Feed(tok).ended <=> checker.ended \/ tok \in Boundary
  BY <1>1, <1>2, CheckerMoves
<1>4. Began(ask, o, n) <=> Began(ask, o, n - 1) \/ tok \in Boundary
  <2>1. \A i \in 1..n : i = n \/ i \in 1..(n - 1)
    BY <1>1
  <2>2. \A i \in 1..(n - 1) : i \in 1..n
    BY <1>1
  <2>3. n \in 1..n
    BY <1>1
  <2> QED
    BY <2>1, <2>2, <2>3 DEF Began
<1>5. /\ b \in Nat /\ e = b + Len(TextOf[tok])
      /\ Began(ask, o, n - 1) \/ tok = "open" =>
            \A j \in 1..Len(TextOf[tok]) : Stands(o, b + j) = After(Stands(o, (b + j) - 1), TextOf[tok][j])
      /\ ~(Began(ask, o, n - 1) \/ tok = "open") => \A p \in 0..e : Stands(o, p) = Start(ask)
  BY TokenTakes
<1>6. Len(TextOf[tok]) \in Nat
  BY <1>1, TokenLengths
<1>7. ~Began(ask, o, n - 1) => Complete(Start(ask))
  BY DEF Began, Start, Complete, Asks
<1> DEFINE later == checker.offset + Len(TextOf[tok])
\* Nothing of the token is read.
<1>8. ASSUME NEW h, h = [checker EXCEPT !.offset = later] \/ h = [checker EXCEPT !.ended = TRUE, !.offset = later],
             tok = "eos" \/ (~Began(ask, o, n - 1) /\ tok # "open")
      PROVE  Tracks(h, o, lo, e)
  <2>1. later = e
    BY <1>2, <1>5
  <2>2. IsChecker(h) /\ h.matcher = checker.matcher /\ h.spans = checker.spans /\ h.offset = e
    <3> HIDE DEF later, e
    <3>1. \/ h = [matcher |-> checker.matcher, ended |-> checker.ended, offset |-> later, spans |-> checker.spans]
          \/ h = [matcher |-> checker.matcher, ended |-> TRUE, offset |-> later, spans |-> checker.spans]
      BY <1>2, <1>8 DEF IsChecker
    <3>2. checker.ended \in BOOLEAN
      BY <1>2 DEF IsChecker
    <3>3. /\ h.matcher = checker.matcher /\ h.spans = checker.spans /\ h.offset = later /\ h.ended \in BOOLEAN
          /\ h = [matcher |-> h.matcher, ended |-> h.ended, offset |-> h.offset, spans |-> h.spans]
      <4>1. CASE h = [matcher |-> checker.matcher, ended |-> checker.ended, offset |-> later, spans |-> checker.spans]
        BY <3>2, <4>1
      <4>2. CASE h = [matcher |-> checker.matcher, ended |-> TRUE, offset |-> later, spans |-> checker.spans]
        BY <4>2
      <4> QED
        BY <3>1, <4>1, <4>2
    <3> QED
      BY <2>1, <3>3 DEF IsChecker
  <2>3. CASE tok = "eos"
    <3>1. Len(TextOf[tok]) = 0
      <4>1. TextOf[tok] = <<>>
        BY <2>3, TokenTexts
      <4>2. Len(<<>>) = 0
        OBVIOUS
      <4> QED
        BY <4>1, <4>2
    <3>2. e = b
      BY <1>5, <3>1
    <3> HIDE DEF e, b
    <3> QED
      BY <2>2, <3>2 DEF Tracks, b
  <2>4. CASE ~Began(ask, o, n - 1) /\ tok # "open"
    <3>1. b <= e /\ e \in Nat /\ \A p \in b..e : p \in 0..e
      <4> HIDE DEF e, b, tok
      <4> QED
        BY <1>5, <1>6
    <3>2. b \in 0..e
      <4> HIDE DEF e, b, tok
      <4> QED
        BY <1>5, <3>1
    <3>3. \A p \in 0..e : Stands(o, p) = Start(ask)
      BY <1>5, <2>4
    <3>4. \A p \in b..e : Stands(o, p) = Stands(o, b) /\ Complete(Stands(o, p))
      BY <1>7, <2>4, <3>1, <3>2, <3>3
    <3> HIDE DEF e, b
    <3>5. Tracks(checker, o, lo, b)
      BY DEF b
    <3> QED
      BY <1>5, <2>2, <3>1, <3>4, <3>5, TracksUnread
  <2> QED
    BY <1>8, <2>3, <2>4
<1>9. CASE tok = "eos" \/ ~(checker.ended \/ tok \in Boundary)
  <2>1. Feed(tok) = [checker EXCEPT !.offset = later]
    BY <1>9 DEF Feed
  <2>2. tok = "eos" \/ (~Began(ask, o, n - 1) /\ tok # "open")
    BY <1>9 DEF Boundary
  <2> HIDE DEF later, tok, e
  <2>3. Tracks(Feed(tok), o, lo, e)
    BY <1>8, <2>1, <2>2
  <2> QED
    BY <1>3, <1>4, <2>3 DEF tok, e
<1>10. CASE ~checker.ended /\ tok = "close"
  <2>1. Feed(tok) = [checker EXCEPT !.ended = TRUE, !.offset = later]
    BY <1>10 DEF Feed, Boundary, ContentOf
  <2>2. ~Began(ask, o, n - 1) /\ tok # "open"
    BY <1>10
  <2> HIDE DEF later, tok, e
  <2>3. Tracks(Feed(tok), o, lo, e)
    BY <1>8, <2>1, <2>2
  <2> QED
    BY <1>3, <1>4, <2>3 DEF tok, e
<1>11. CASE tok # "eos" /\ (checker.ended \/ tok = "open")
  <2> PICK f : f = [checker EXCEPT !.ended = TRUE]
    OBVIOUS
  <2>1. Feed(tok) = FoldLeft(FeedChar, f, TextOf[tok])
    <3>1. TextOf["open"] # <<>>
      BY TokenTexts
    <3> QED
      BY <1>11, <3>1 DEF Feed, Boundary, ContentOf
  <2>2. f = [matcher |-> checker.matcher, ended |-> TRUE, offset |-> checker.offset, spans |-> checker.spans]
    BY <1>2 DEF IsChecker
  <2>3. Tracks(f, o, lo, b)
    BY <2>2 DEF Tracks, IsChecker
  <2>4. \A j \in 1..Len(TextOf[tok]) : Stands(o, b + j) = After(Stands(o, (b + j) - 1), TextOf[tok][j])
    BY <1>5, <1>11
  <2>5. "a" \in Chars /\ "<" \in Chars /\ ">" \in Chars /\ "/" \in Chars
    BY DEF Chars
  <2> HIDE DEF b, e
  <2>6. ASSUME NEW c \in Chars, TextOf[tok] = <<c>>
        PROVE  Tracks(Feed(tok), o, lo, e)
    <3>1. Len(<<c>>) = 1 /\ <<c>>[1] = c
      OBVIOUS
    <3>2. Len(TextOf[tok]) = 1 /\ TextOf[tok][1] = c
      BY <2>6, <3>1
    <3> HIDE DEF tok
    <3>3. e = b + 1 /\ (b + 1) - 1 = b /\ 1 \in 1..Len(TextOf[tok])
      BY <1>5, <3>2
    <3>4. Stands(o, b + 1) = After(Stands(o, b), c)
      BY <2>4, <3>2, <3>3
    <3>5. Tracks(FeedChar(f, c), o, lo, b + 1)
      BY <1>5, <2>3, <3>4, TracksChar
    <3>6. FoldLeft(FeedChar, f, <<c>>) = FeedChar(f, c)
      BY FeedOne
    <3> QED
      BY <2>1, <2>6, <3>3, <3>5, <3>6
  <2>7. ASSUME tok = "tail" PROVE Tracks(Feed(tok), o, lo, e)
    <3>1. TextOf[tok] = <<">", "a">>
      BY <2>7, TokenTexts
    <3>2. Len(<<">", "a">>) = 2 /\ <<">", "a">>[1] = ">" /\ <<">", "a">>[2] = "a"
      OBVIOUS
    <3>3. Len(TextOf[tok]) = 2 /\ TextOf[tok][1] = ">" /\ TextOf[tok][2] = "a"
      BY <3>1, <3>2
    <3> HIDE DEF tok
    <3> PICK d : d = b + 1
      OBVIOUS
    <3>4. /\ e = d + 1 /\ d \in Nat /\ (b + 1) - 1 = b /\ (b + 2) - 1 = d /\ b + 2 = d + 1
          /\ 1 \in 1..Len(TextOf[tok]) /\ 2 \in 1..Len(TextOf[tok])
      BY <1>5, <3>3
    <3>5. Stands(o, b + 1) = After(Stands(o, b), ">")
      BY <2>4, <3>3, <3>4
    <3>6. Stands(o, d + 1) = After(Stands(o, d), "a")
      BY <2>4, <3>3, <3>4
    <3>7. Tracks(FeedChar(f, ">"), o, lo, b + 1)
      BY <1>5, <2>3, <3>5, TracksChar
    <3>8. Tracks(FeedChar(f, ">"), o, lo, d)
      BY <3>7
    <3>9. Tracks(FeedChar(FeedChar(f, ">"), "a"), o, lo, d + 1)
      BY <3>4, <3>6, <3>8, TracksChar
    <3>10. FoldLeft(FeedChar, f, <<">", "a">>) = FeedChar(FeedChar(f, ">"), "a")
      BY <2>5, FeedTwo
    <3> QED
      BY <2>1, <3>1, <3>4, <3>9, <3>10
  <2>8. Tracks(Feed(tok), o, lo, e)
    <3>1. tok # "tail" => \E c \in Chars : TextOf[tok] = <<c>>
      BY <1>1, <1>11, <2>5, TokenTexts
    <3> QED
      BY <2>6, <2>7, <3>1
  <2> QED
    BY <1>3, <1>4, <2>8 DEF e
<1> QED
  BY <1>9, <1>10, <1>11 DEF Boundary

-----------------------------------------------------------------------------
(* Where the engine stands.                                                *)

LEMMA PrefixesAre ==
    ASSUME NEW s \in Seq(Chars)
    PROVE  /\ <<>> \in Prefixes(s) /\ s \in Prefixes(s)
           /\ s # <<>> => <<s[1]>> \in Prefixes(s)
<1>1. Len(s) \in Nat /\ 0 \in 0..Len(s) /\ Len(s) \in 0..Len(s)
  BY LenProperties
<1>2. SubSeq(s, 1, 0) = <<>>
  BY SubSeqEmpty
<1>3. SubSeq(s, 1, Len(s)) = s
  BY SubSeqFull
<1>4. ASSUME s # <<>> PROVE SubSeq(s, 1, 1) = <<s[1]>> /\ 1 \in 0..Len(s)
  <2>1. Len(s) # 0
    BY <1>4, EmptySeq
  <2>2. 1 \in 1..Len(s) /\ s[1] \in Chars
    BY <1>1, <2>1, ElementOfSeq
  <2>3. \A i \in 1..1 : s[i] \in Chars
    BY <2>2
  <2>4. /\ SubSeq(s, 1, 1) \in Seq(Chars)
        /\ Len(SubSeq(s, 1, 1)) = IF 1 <= 1 THEN 1 - 1 + 1 ELSE 0
        /\ \A i \in 1..(1 - 1 + 1) : SubSeq(s, 1, 1)[i] = s[1 + i - 1]
    BY <2>3, SubSeqProperties
  <2>5. Len(SubSeq(s, 1, 1)) = 1 /\ SubSeq(s, 1, 1)[1] = s[1]
    BY <2>4
  <2>6. <<s[1]>> \in Seq(Chars) /\ Len(<<s[1]>>) = 1 /\ <<s[1]>>[1] = s[1]
    BY <2>2
  <2>7. \A i \in 1..1 : i = 1
    OBVIOUS
  <2>8. SubSeq(s, 1, 1) = <<s[1]>>
    BY <2>4, <2>5, <2>6, <2>7, SeqEqual
  <2> QED
    BY <1>1, <2>2, <2>8
<1> QED
  BY <1>1, <1>2, <1>3, <1>4 DEF Prefixes

\* A token that is read takes the grammar through its text, one prefix after
\* the other.
LEMMA TakesThrough ==
    ASSUME NEW o, NEW tok \in Token, NEW b \in Nat,
           \A j \in 1..Len(TextOf[tok]) : Stands(o, b + j) = After(Stands(o, (b + j) - 1), TextOf[tok][j])
    PROVE  /\ Stands(o, b + Len(TextOf[tok])) = Through(Stands(o, b), tok)
           /\ \A p \in b..(b + Len(TextOf[tok])) :
                 \E read \in Prefixes(TextOf[tok]) : Stands(o, p) = Read(Stands(o, b), read)
<1> DEFINE x == TextOf[tok]
           g == Stands(o, b)
<1>1. Read(g, <<>>) = g
  BY ReadNothing
<1>2. "a" \in Chars /\ "<" \in Chars /\ ">" \in Chars /\ "/" \in Chars
  BY DEF Chars
<1>3. CASE tok = "eos"
  <2>1. x = <<>> /\ Len(x) = 0
    BY <1>3, TokenTexts
  <2>2. <<>> \in Prefixes(<<>>)
    BY DEF Prefixes
  <2>3. b + Len(x) = b /\ \A p \in b..(b + Len(x)) : p = b
    <3> HIDE DEF x
    <3> QED
      BY <2>1
  <2>4. Through(g, tok) = g
    BY <1>3 DEF Through
  <2> QED
    BY <1>1, <2>1, <2>2, <2>3, <2>4
<1>4. CASE tok = "tail"
  <2>1. x = <<">", "a">>
    BY <1>4, TokenTexts
  <2>2. Len(<<">", "a">>) = 2 /\ <<">", "a">>[1] = ">" /\ <<">", "a">>[2] = "a"
    OBVIOUS
  <2>3. Len(x) = 2 /\ x[1] = ">" /\ x[2] = "a"
    BY <2>1, <2>2
  <2>5. <<>> \in Prefixes(x) /\ <<">">> \in Prefixes(x) /\ <<">", "a">> \in Prefixes(x)
    <3>1. x \in Seq(Chars)
      BY TextsAreTexts
    <3>3. x # <<>>
      <4>1. <<">", "a">> # <<>>
        OBVIOUS
      <4> QED
        BY <2>1, <4>1
    <3>2. <<>> \in Prefixes(x) /\ x \in Prefixes(x) /\ <<x[1]>> \in Prefixes(x)
      BY <3>1, <3>3, PrefixesAre
    <3> QED
      BY <2>1, <2>3, <3>2
  <2>6. /\ 1 \in 1..Len(x) /\ 2 \in 1..Len(x)
    BY <2>3
  <2>7. Stands(o, b + 1) = After(Stands(o, (b + 1) - 1), ">") /\ Stands(o, b + 2) = After(Stands(o, (b + 2) - 1), "a")
    BY <2>3, <2>6
  <2> PICK d : d = b + 1
    OBVIOUS
  <2>8. (b + 1) - 1 = b /\ (b + 2) - 1 = d
    OBVIOUS
  <2>9. Stands(o, d) = After(g, ">") /\ Stands(o, b + 2) = After(After(g, ">"), "a")
    BY <2>7, <2>8
  <2>10. Read(g, <<">">>) = After(g, ">") /\ Read(g, <<">", "a">>) = After(After(g, ">"), "a")
    BY <1>2, ReadOne, ReadTwo
  <2>11. Through(g, tok) = After(After(g, ">"), "a")
    BY <1>4 DEF Through
  <2>12. b + Len(x) = b + 2 /\ \A p \in b..(b + Len(x)) : p = b \/ p = d \/ p = b + 2
    <3> HIDE DEF x
    <3> QED
      BY <2>3
  <2>13. ASSUME NEW p \in b..(b + Len(x))
         PROVE  \E read \in Prefixes(x) : Stands(o, p) = Read(g, read)
    <3>1. CASE p = b
      BY <3>1, <1>1, <2>5
    <3>2. CASE p = d
      BY <3>2, <2>5, <2>9, <2>10
    <3>3. CASE p = b + 2
      BY <3>3, <2>5, <2>9, <2>10
    <3> QED
      BY <2>12, <3>1, <3>2, <3>3
  <2>14. Stands(o, b + Len(x)) = Through(g, tok)
    BY <2>9, <2>11, <2>12
  <2> QED
    BY <2>13, <2>14
<1>5. ASSUME NEW c \in Chars, x = <<c>>, Through(g, tok) = After(g, c)
      PROVE  /\ Stands(o, b + Len(x)) = Through(g, tok)
             /\ \A p \in b..(b + Len(x)) : \E read \in Prefixes(x) : Stands(o, p) = Read(g, read)
  <2>1. Len(<<c>>) = 1 /\ <<c>>[1] = c
    OBVIOUS
  <2>2. Len(x) = 1 /\ x[1] = c
    BY <1>5, <2>1
  <2>4. <<>> \in Prefixes(x) /\ <<c>> \in Prefixes(x)
    <3>1. x \in Seq(Chars)
      BY TextsAreTexts
    <3> QED
      BY <1>5, <3>1, PrefixesAre
  <2>5. 1 \in 1..Len(x) /\ (b + 1) - 1 = b
    BY <2>2
  <2>6. Stands(o, b + 1) = After(g, c)
    BY <2>2, <2>5
  <2>7. Read(g, <<c>>) = After(g, c)
    BY ReadOne
  <2>8. b + Len(x) = b + 1 /\ \A p \in b..(b + Len(x)) : p = b \/ p = b + 1
    <3> HIDE DEF x
    <3> QED
      BY <2>2
  <2>9. ASSUME NEW p \in b..(b + Len(x))
        PROVE  \E read \in Prefixes(x) : Stands(o, p) = Read(g, read)
    <3>1. CASE p = b
      BY <3>1, <1>1, <2>4
    <3>2. CASE p = b + 1
      BY <3>2, <2>4, <2>6, <2>7
    <3> QED
      BY <2>8, <3>1, <3>2
  <2>10. Stands(o, b + Len(x)) = Through(g, tok)
    BY <1>5, <2>6, <2>8
  <2> QED
    BY <2>9, <2>10
<1>6. tok \notin {"eos", "tail"} => \E c \in Chars : x = <<c>> /\ Through(g, tok) = After(g, c)
  BY <1>2, TokenTexts DEF Through
<1> HIDE DEF x, g
<1>7. CASE tok \notin {"eos", "tail"}
  <2>1. /\ Stands(o, b + Len(x)) = Through(g, tok)
        /\ \A p \in b..(b + Len(x)) : \E read \in Prefixes(x) : Stands(o, p) = Read(g, read)
    BY <1>5, <1>6, <1>7
  <2> QED
    BY <2>1 DEF x, g
<1> QED
  BY <1>3, <1>4, <1>7

\* The engine's grammar is where the text it has written leads, and a caller's
\* token that stopped it lies outside every call.
EngineAt(o, st, en, gr) ==
    /\ gr = Stands(o, Len(Spelled(o, Len(o))))
    /\ en <=> Began(ask, o, Len(o))
    /\ st = "token" =>
          \A p \in Len(Spelled(o, Len(o) - 1))..Len(Spelled(o, Len(o))) : Complete(Stands(o, p))

LEMMA EngineAtStep ==
    ASSUME ask \in Asks, out \in Seq(Token), EngineAt(out, status, ended, grammar), NEW tok \in Token
    PROVE  EngineAt(Append(out, tok), CheckStop(tok), ended \/ tok \in Boundary, Read(grammar, Advance(tok)))
<1> PICK u : u = Append(out, tok)
  OBVIOUS
<1> PICK n : n = Len(out)
  OBVIOUS
<1> PICK m : m = n + 1
  OBVIOUS
<1>1. n \in Nat /\ n \in 0..n /\ m - 1 = n /\ m \in Nat
  BY LenProperties
<1>2. u \in Seq(Token) /\ Len(u) = m /\ u[m] = tok /\ \A i \in 1..n : u[i] = out[i]
  BY <1>1, AppendProperties
<1>3. m \in 1..Len(u) /\ n \in 0..Len(u)
  BY <1>1, <1>2
<1> DEFINE b == Len(Spelled(u, m - 1))
           e == Len(Spelled(u, m))
           x == TextOf[tok]
<1>4. Spelled(u, n) = Spelled(out, n) /\ b = Len(Spelled(out, n))
  BY <1>1, SpelledStays
<1>5. /\ b \in Nat /\ e = b + Len(x)
      /\ Began(ask, u, m - 1) \/ tok = "open" =>
            \A j \in 1..Len(x) : Stands(u, b + j) = After(Stands(u, (b + j) - 1), x[j])
      /\ ~(Began(ask, u, m - 1) \/ tok = "open") => \A p \in 0..e : Stands(u, p) = Start(ask)
  <2>1. /\ b \in Nat /\ e = b + Len(TextOf[u[m]])
        /\ Began(ask, u, m - 1) \/ u[m] = "open" =>
              \A j \in 1..Len(TextOf[u[m]]) : Stands(u, b + j) = After(Stands(u, (b + j) - 1), TextOf[u[m]][j])
        /\ ~(Began(ask, u, m - 1) \/ u[m] = "open") => \A p \in 0..e : Stands(u, p) = Start(ask)
    BY <1>2, <1>3, TokenTakes
  <2> HIDE DEF b, e
  <2> QED
    BY <1>2, <2>1
<1>6. Len(x) \in Nat
  BY TokenLengths
<1>7. b <= e /\ b \in 0..e /\ e \in 0..e /\ \A p \in b..e : p \in 0..e
  <2> HIDE DEF b, e, x
  <2> QED
    BY <1>5, <1>6
<1>8. Began(ask, u, m - 1) <=> ended
  <2>1. Began(ask, u, n) <=> Began(ask, out, n)
    BY <1>2 DEF Began
  <2> QED
    BY <1>1, <2>1 DEF EngineAt
<1>9. Began(ask, u, m) <=> ended \/ tok \in Boundary
  <2>1. \A i \in 1..m : i = m \/ i \in 1..(m - 1)
    BY <1>1
  <2>2. \A i \in 1..(m - 1) : i \in 1..m
    BY <1>1
  <2>3. m \in 1..m
    BY <1>2, <1>3
  <2> QED
    BY <1>2, <1>8, <2>1, <2>2, <2>3 DEF Began
<1>10. grammar = Stands(u, b)
  <2>1. b \in 0..Len(Spelled(out, Len(out)))
    BY <1>4, <1>5
  <2>2. Stands(Append(out, tok), b) = Stands(out, b)
    BY <2>1, StandsStays
  <2> QED
    BY <1>4, <2>2 DEF EngineAt
<1>11. Read(grammar, Advance(tok)) = Moves(ended, grammar, tok)
  BY EngineMoves
<1>12. CASE Began(ask, u, m - 1) \/ tok = "open"
  <2>1. /\ Stands(u, b + Len(x)) = Through(Stands(u, b), tok)
        /\ \A p \in b..(b + Len(x)) : \E read \in Prefixes(x) : Stands(u, p) = Read(Stands(u, b), read)
    <3>1. \A j \in 1..Len(TextOf[tok]) : Stands(u, b + j) = After(Stands(u, (b + j) - 1), TextOf[tok][j])
      BY <1>5, <1>12
    <3>2. b \in Nat
      BY <1>5
    <3> HIDE DEF b
    <3> QED
      BY <3>1, <3>2, TakesThrough
  <2>2. Read(grammar, Advance(tok)) = Stands(u, e)
    BY <1>5, <1>8, <1>10, <1>11, <1>12, <2>1 DEF Moves
  <2>3. ASSUME CheckStop(tok) = "token" PROVE \A p \in b..e : Complete(Stands(u, p))
    <3>1. AllowsStopToken(tok) /\ tok # "eos"
      BY <2>3 DEF CheckStop
    <3>2. Advance(tok) # <<>>
      <4>1. x # <<>>
        <5>1. tok \in {"plain", "open", "shut", "tail", "close"}
          BY <3>1, TokenTexts
        <5>2. <<"a">> # <<>> /\ <<"<">> # <<>> /\ <<">">> # <<>> /\ <<">", "a">> # <<>> /\ <<"/">> # <<>>
          OBVIOUS
        <5> QED
          BY <5>1, <5>2, TokenTexts
      <4>2. Advance(tok) = x
        BY <1>8, <1>12 DEF Advance, Boundary, ContentOf
      <4> QED
        BY <4>1, <4>2
    <3>3. \A read \in Prefixes(x) : Complete(Read(grammar, read))
      BY <3>1, <3>2 DEF AllowsStopToken, AllowsTextStop
    <3> QED
      BY <1>5, <1>10, <2>1, <3>3
  <2> QED
    BY <1>2, <1>9, <2>2, <2>3 DEF EngineAt
<1>13. CASE ~(Began(ask, u, m - 1) \/ tok = "open")
  <2>1. \A p \in b..e : Stands(u, p) = Start(ask)
    BY <1>5, <1>7, <1>13
  <2>2. Stands(u, e) = Start(ask) /\ Stands(u, b) = Start(ask)
    BY <1>5, <1>7, <1>13
  <2>3. Read(grammar, Advance(tok)) = Stands(u, e)
    BY <1>8, <1>10, <1>11, <1>13, <2>2 DEF Moves
  <2>4. Complete(Start(ask))
    BY <1>13 DEF Began, Start, Complete, Asks
  <2> QED
    BY <1>2, <1>9, <2>1, <2>3, <2>4 DEF EngineAt
<1> QED
  BY <1>12, <1>13

-----------------------------------------------------------------------------
(* Where the front end stands, and what it may cut.                        *)

\* Text that overlaps no span lies outside every call.
LEMMA UnprotectedIsOutside ==
    ASSUME NEW o, NEW spans, NEW lo \in Int, NEW hi \in Nat, Covered(o, spans, lo, hi),
           IsSpans(spans, hi), NEW i \in Nat, NEW j \in Nat, lo <= i, i < j, j <= hi,
           ~Overlaps(spans, i, j)
    PROVE  \A p \in i..j : Complete(Stands(o, p))
<1>1. ASSUME NEW p \in i..(j - 1), NEW span \in spans, Holds(span, p) PROVE FALSE
  <2>1. span[1] \in Nat /\ span[2] \in Nat /\ span[1] <= p /\ p < span[2]
    BY <1>1 DEF IsSpans, Holds
  <2>2. span[1] < j /\ span[2] > i
    BY <2>1
  <2> QED
    BY <2>2 DEF Overlaps
<1>2. ASSUME NEW p \in i..(j - 1) PROVE Complete(Stands(o, p)) /\ Complete(Stands(o, p + 1))
  <2>1. p \in Nat /\ lo <= p /\ p < hi
    OBVIOUS
  <2>2. ~ \E span \in spans : Holds(span, p)
    BY <1>1
  <2> QED
    BY <2>1, <2>2 DEF Covered
<1>3. /\ \A p \in i..j : p \in i..(j - 1) \/ p = (j - 1) + 1
      /\ j - 1 \in i..(j - 1)
  OBVIOUS
<1> QED
  BY <1>2, <1>3

\* Spans that end before the longest stop could reach them may be disposed of.
LEMMA DiscardKeeps ==
    ASSUME NEW f, NEW o, NEW lo \in Int, NEW late \in Int, lo <= late, NEW p \in Nat, Tracks(f, o, lo, p)
    PROVE  /\ Tracks([f EXCEPT !.spans = DiscardBefore(@, late)], o, late, p)
           /\ [f EXCEPT !.spans = DiscardBefore(@, late)].ended = f.ended
<1> PICK kept : kept = DiscardBefore(f.spans, late)
  OBVIOUS
<1> PICK h : h = [f EXCEPT !.spans = kept]
  OBVIOUS
<1>1. IsChecker(f) /\ f.offset = p /\ f.matcher = Stands(o, p) /\ IsSpans(f.spans, p)
      /\ Covered(o, f.spans, lo, p) /\ Exact(o, f.spans)
  BY DEF Tracks
<1>2. h = [matcher |-> f.matcher, ended |-> f.ended, offset |-> f.offset, spans |-> kept] /\ f.ended \in BOOLEAN
  BY <1>1 DEF IsChecker
<1>3. kept = {span \in f.spans : span[2] > late}
  BY DEF DiscardBefore
<1>4. IsSpans(kept, p)
  BY <1>1, <1>3 DEF IsSpans
<1>5. Covered(o, kept, late, p)
  <2> SUFFICES ASSUME NEW q \in Nat, late <= q, q < p
               PROVE  \/ Complete(Stands(o, q)) /\ Complete(Stands(o, q + 1))
                      \/ \E span \in kept : Holds(span, q)
    BY DEF Covered
  <2>1. lo <= q
    OBVIOUS
  <2>2. ASSUME NEW span \in f.spans, Holds(span, q) PROVE span \in kept
    <3>1. span[2] \in Nat /\ q < span[2]
      BY <1>1, <2>2 DEF IsSpans, Holds
    <3>2. span[2] > late
      BY <3>1
    <3> QED
      BY <1>3, <3>2
  <2>3. \/ Complete(Stands(o, q)) /\ Complete(Stands(o, q + 1))
        \/ \E span \in f.spans : Holds(span, q)
    BY <1>1, <2>1 DEF Covered
  <2> QED
    BY <2>2, <2>3
<1>6. Exact(o, kept)
  BY <1>1, <1>3 DEF Exact
<1>7. Tracks(h, o, late, p) /\ h.ended = f.ended
  BY <1>1, <1>2, <1>4, <1>5, <1>6 DEF Tracks, IsChecker
<1> QED
  BY <1>7

\* A front end that has read n tokens of output o, and has the messages w before
\* it, has their text t and a checker that followed it.
FrontAt(o, w, n, t, f) ==
    /\ n \in Nat /\ n + Len(w) = Len(o)
    /\ \A i \in 1..Len(w) : w[i].tok = o[n + i]
    /\ t = Spelled(o, n)
    /\ f.ended <=> Began(ask, o, n)
    /\ Tracks(f, o, Len(t) - Longest, Len(t))

\* A text was cut outside every call of output o.
CutAt(o, t) ==
    /\ Len(t) \in Nat /\ Len(t) <= Len(Spelled(o, Len(o)))
    /\ Complete(Stands(o, Len(t)))

LEMMA CutAtStep ==
    ASSUME NEW o \in Seq(Token), NEW tok \in Token, NEW t, CutAt(o, t)
    PROVE  CutAt(Append(o, tok), t)
<1> PICK u : u = Append(o, tok)
  OBVIOUS
<1> PICK n : n = Len(o)
  OBVIOUS
<1>1. n \in Nat /\ n \in 0..n /\ n + 1 \in 0..(n + 1) /\ n \in 0..(n + 1)
  BY LenProperties
<1>2. u \in Seq(Token) /\ Len(u) = n + 1
  BY <1>1, AppendProperties
<1>3. Spelled(u, n) = Spelled(o, n)
  BY <1>1, SpelledStays
<1>4. Spelled(u, Len(u)) \in Seq(Chars) /\ Spelled(o, n) \in Seq(Chars) /\ Extends(Spelled(u, Len(u)), Spelled(u, n))
  BY <1>1, <1>2, SpelledGrows
<1>5. Len(Spelled(o, n)) \in Nat /\ Len(Spelled(u, Len(u))) \in Nat /\ Len(Spelled(o, n)) <= Len(Spelled(u, Len(u)))
  BY <1>3, <1>4, LenProperties DEF Extends
<1>6. Len(t) \in 0..Len(Spelled(o, Len(o)))
  BY <1>5 DEF CutAt
<1>7. Stands(u, Len(t)) = Stands(o, Len(t))
  BY <1>6, StandsStays
<1>8. Len(t) <= Len(Spelled(u, Len(u)))
  BY <1>5, <1>6
<1> QED
  BY <1>7, <1>8 DEF CutAt

\* The engine may run ahead: what the front end knows stays true.
LEMMA FrontAtStep ==
    ASSUME NEW o \in Seq(Token), NEW w \in Seq(Message), NEW n, NEW t, NEW f, FrontAt(o, w, n, t, f),
           NEW m \in Message
    PROVE  FrontAt(Append(o, m.tok), Append(w, m), n, t, f)
<1>1. m.tok \in Token
  BY DEF Message
<1>2. Len(o) \in Nat /\ Len(w) \in Nat /\ n \in Nat /\ n + Len(w) = Len(o)
  BY LenProperties DEF FrontAt
<1>3. /\ \A i \in 1..Len(w) : n + i \in 1..Len(o)
      /\ n + (Len(w) + 1) = Len(o) + 1
      /\ \A i \in 1..(Len(w) + 1) : i \in 1..Len(w) \/ i = Len(w) + 1
  BY <1>2
<1> PICK u : u = Append(o, m.tok)
  OBVIOUS
<1> PICK v : v = Append(w, m)
  OBVIOUS
<1>4. /\ u \in Seq(Token) /\ Len(u) = Len(o) + 1 /\ u[Len(o) + 1] = m.tok
      /\ \A i \in 1..Len(o) : u[i] = o[i]
  BY <1>1, AppendProperties
<1>5. /\ Len(v) = Len(w) + 1 /\ v[Len(w) + 1] = m
      /\ \A i \in 1..Len(w) : v[i] = w[i]
  BY AppendProperties
<1>6. \A i \in 1..Len(v) : v[i].tok = u[n + i]
  <2> SUFFICES ASSUME NEW i \in 1..Len(v) PROVE v[i].tok = u[n + i]
    OBVIOUS
  <2>1. CASE i \in 1..Len(w)
    <3>1. n + i \in 1..Len(o)
      BY <1>3, <2>1
    <3> QED
      BY <1>4, <1>5, <2>1, <3>1 DEF FrontAt
  <2>2. CASE i = Len(w) + 1
    <3>1. n + i = Len(o) + 1
      BY <1>3, <2>2
    <3> QED
      BY <1>4, <1>5, <2>2, <3>1
  <2>3. i \in 1..(Len(w) + 1)
    BY <1>5
  <2> QED
    BY <1>3, <2>1, <2>2, <2>3
<1>7. n \in 0..Len(o) /\ t = Spelled(o, n)
  BY <1>2 DEF FrontAt
<1>8. t = Spelled(u, n)
  BY <1>1, <1>7, SpelledStays
<1>9. f.ended <=> Began(ask, u, n)
  <2>1. \A i \in 1..n : u[i] = o[i]
    BY <1>2, <1>4
  <2> QED
    BY <2>1 DEF FrontAt, Began
<1>10. Len(t) \in Nat /\ \A p \in 0..Len(t) : Stands(u, p) = Stands(o, p)
  <2>1. Len(o) \in 0..Len(o)
    BY <1>2
  <2>2. t \in Seq(Chars) /\ Spelled(o, Len(o)) \in Seq(Chars) /\ Extends(Spelled(o, Len(o)), t)
    BY <1>7, <2>1, SpelledGrows
  <2>3. Len(t) \in Nat /\ Len(Spelled(o, Len(o))) \in Nat /\ Len(t) <= Len(Spelled(o, Len(o)))
    BY <2>2, LenProperties DEF Extends
  <2>4. \A p \in 0..Len(t) : p \in 0..Len(Spelled(o, Len(o)))
    BY <2>3
  <2>5. \A p \in 0..Len(Spelled(o, Len(o))) : Stands(u, p) = Stands(o, p)
    BY <1>1, StandsStays
  <2> QED
    BY <2>3, <2>4, <2>5
<1>11. Tracks(f, u, Len(t) - Longest, Len(t))
  <2> PICK lo : lo = Len(t) - Longest
    OBVIOUS
  <2> PICK len : len = Len(t)
    OBVIOUS
  <2>1. Tracks(f, o, lo, len)
    BY DEF FrontAt
  <2>2. Stands(u, len) = Stands(o, len)
    BY <1>10
  <2>3. Covered(o, f.spans, lo, len)
    BY <2>1 DEF Tracks
  <2>4. ASSUME NEW q \in Nat, lo <= q, q < len
        PROVE  \/ Complete(Stands(u, q)) /\ Complete(Stands(u, q + 1))
               \/ \E span \in f.spans : Holds(span, q)
    <3>1. q \in 0..Len(t) /\ q + 1 \in 0..Len(t)
      BY <1>10, <2>4
    <3>2. Stands(u, q) = Stands(o, q) /\ Stands(u, q + 1) = Stands(o, q + 1)
      BY <1>10, <3>1
    <3>3. \/ Complete(Stands(o, q)) /\ Complete(Stands(o, q + 1))
          \/ \E span \in f.spans : Holds(span, q)
      BY <2>3, <2>4 DEF Covered
    <3> QED
      BY <3>2, <3>3
  <2>5. Covered(u, f.spans, lo, len)
    BY <2>4 DEF Covered
  <2>6. ASSUME NEW q \in Nat, NEW span \in f.spans, Holds(span, q)
        PROVE  ~(Complete(Stands(u, q)) /\ Complete(Stands(u, q + 1)))
    <3>1. span[2] \in Nat /\ span[2] <= len /\ q < span[2]
      BY <2>1, <2>6 DEF Tracks, IsSpans, Holds
    <3>2. q \in 0..Len(t) /\ q + 1 \in 0..Len(t)
      BY <1>10, <3>1
    <3>3. Stands(u, q) = Stands(o, q) /\ Stands(u, q + 1) = Stands(o, q + 1)
      BY <1>10, <3>2
    <3>4. ~(Complete(Stands(o, q)) /\ Complete(Stands(o, q + 1)))
      BY <2>1, <2>6 DEF Tracks, Exact
    <3> QED
      BY <3>3, <3>4
  <2>7. Exact(u, f.spans)
    BY <2>6 DEF Exact
  <2> QED
    BY <2>1, <2>2, <2>5, <2>7 DEF Tracks
<1> QED
  BY <1>2, <1>4, <1>5, <1>6, <1>8, <1>9, <1>11 DEF FrontAt

-----------------------------------------------------------------------------
(* The stops of a text, told from all of it at once.                       *)

\* Stop string k lies outside every call at character i of the first n tokens
\* of output o, and is completed by a token beyond min_tokens.
Occurs(o, n, k, i) ==
    /\ i + Len(Stops[k]) > Len(Spelled(o, IF ask.min < n THEN ask.min ELSE n))
    /\ i + Len(Stops[k]) <= Len(Spelled(o, n))
    /\ SubSeq(Spelled(o, n), i + 1, i + Len(Stops[k])) = Stops[k]
    /\ \A p \in i..(i + Len(Stops[k])) : Complete(Stands(o, p))

Unmet(o, n) == \A k \in DOMAIN Stops, i \in Nat : ~Occurs(o, n, k, i)

FirstAt(o, n, k, i) ==
    /\ k \in DOMAIN Stops /\ i \in Nat /\ Occurs(o, n, k, i)
    /\ \A l \in DOMAIN Stops, j \in Nat : Occurs(o, n, l, j) => i + Len(Stops[k]) <= j + Len(Stops[l])

LEMMA SubSeqExtends ==
    ASSUME NEW r \in Seq(Chars), NEW t \in Seq(Chars), Extends(t, r), NEW i \in Nat, NEW e \in Nat,
           e <= Len(r)
    PROVE  SubSeq(t, i + 1, e) = SubSeq(r, i + 1, e)
<1>1. Len(r) \in Nat /\ Len(t) \in Nat /\ Len(r) <= Len(t) /\ \A q \in 1..Len(r) : t[q] = r[q]
  BY LenProperties DEF Extends
<1>2. /\ \A q \in (i + 1)..e : r[q] \in Chars
      /\ \A q \in (i + 1)..e : t[q] \in Chars /\ t[q] = r[q]
  <2>1. \A q \in (i + 1)..e : q \in 1..Len(r)
    BY <1>1
  <2>2. \A q \in 1..Len(r) : r[q] \in Chars
    BY ElementOfSeq
  <2> QED
    BY <1>1, <2>1, <2>2
<1> PICK d \in Nat : d = i + 1
  OBVIOUS
<1>3. \A q \in 1..(e - d + 1) : d + q - 1 \in (i + 1)..e
  OBVIOUS
<1>4. /\ SubSeq(t, d, e) \in Seq(Chars)
      /\ Len(SubSeq(t, d, e)) = IF d <= e THEN e - d + 1 ELSE 0
      /\ \A q \in 1..(e - d + 1) : SubSeq(t, d, e)[q] = t[d + q - 1]
  BY <1>2, SubSeqProperties
<1>5. /\ SubSeq(r, d, e) \in Seq(Chars)
      /\ Len(SubSeq(r, d, e)) = IF d <= e THEN e - d + 1 ELSE 0
      /\ \A q \in 1..(e - d + 1) : SubSeq(r, d, e)[q] = r[d + q - 1]
  BY <1>2, SubSeqProperties
<1>6. \A q \in 1..(e - d + 1) : SubSeq(t, d, e)[q] = SubSeq(r, d, e)[q]
  BY <1>2, <1>3, <1>4, <1>5
<1>7. SubSeq(t, d, e) = SubSeq(r, d, e)
  <2>1. CASE d <= e
    BY <1>4, <1>5, <1>6, <2>1, SeqEqual
  <2>2. CASE ~(d <= e)
    BY <2>2, SubSeqEmpty
  <2> QED
    BY <2>1, <2>2
<1> QED
  BY <1>7

\* Text only grows.
LEMMA LengthsGrow ==
    ASSUME NEW o \in Seq(Token)
    PROVE  \A n \in 0..Len(o) : /\ Len(Spelled(o, n)) \in Nat
                                /\ \A m \in 0..n : m \in 0..Len(o) /\ Len(Spelled(o, m)) <= Len(Spelled(o, n))
<1>1. Len(o) \in Nat
  BY LenProperties
<1>2. \A n \in 0..Len(o) : Spelled(o, n) \in Seq(Chars) /\ \A m \in 0..n : Extends(Spelled(o, n), Spelled(o, m))
  BY SpelledGrows
<1>3. \A n \in 0..Len(o) : \A m \in 0..n : m \in 0..Len(o)
  BY <1>1
<1> QED
  BY <1>2, <1>3, LenProperties DEF Extends

\* Tokens that follow neither bring a stop to earlier text nor take one from it.
LEMMA OccursStays ==
    ASSUME ask \in Asks, NEW o \in Seq(Token), NEW tok \in Token, NEW n \in 0..Len(o),
           NEW k \in DOMAIN Stops, NEW i \in Nat
    PROVE  Occurs(Append(o, tok), n, k, i) <=> Occurs(o, n, k, i)
<1> PICK u : u = Append(o, tok)
  OBVIOUS
<1> PICK c : c = IF ask.min < n THEN ask.min ELSE n
  OBVIOUS
<1> PICK e : e = i + Len(Stops[k])
  OBVIOUS
<1>1. Len(o) \in Nat /\ Len(o) \in 0..Len(o) /\ ask.min \in Nat /\ Len(Stops[k]) \in Nat
  BY LenProperties, AskTypes, StopsAreWords
<1>2. c \in 0..Len(o) /\ e \in Nat
  BY <1>1
<1>3. Spelled(u, n) = Spelled(o, n) /\ Spelled(u, c) = Spelled(o, c)
  BY <1>2, SpelledStays
<1>4. Len(Spelled(o, n)) \in Nat /\ Len(Spelled(o, Len(o))) \in Nat /\ Len(Spelled(o, n)) <= Len(Spelled(o, Len(o)))
  BY <1>1, LengthsGrow
<1>5. ASSUME e <= Len(Spelled(o, n)) PROVE \A p \in i..e : Stands(u, p) = Stands(o, p)
  <2>1. \A p \in i..e : p \in 0..Len(Spelled(o, Len(o)))
    BY <1>2, <1>4, <1>5
  <2> QED
    BY <2>1, StandsStays
<1>6. Occurs(u, n, k, i) <=> /\ e > Len(Spelled(u, c)) /\ e <= Len(Spelled(u, n))
                             /\ SubSeq(Spelled(u, n), i + 1, e) = Stops[k]
                             /\ \A p \in i..e : Complete(Stands(u, p))
  BY DEF Occurs
<1>7. Occurs(o, n, k, i) <=> /\ e > Len(Spelled(o, c)) /\ e <= Len(Spelled(o, n))
                             /\ SubSeq(Spelled(o, n), i + 1, e) = Stops[k]
                             /\ \A p \in i..e : Complete(Stands(o, p))
  BY DEF Occurs
<1> QED
  BY <1>3, <1>5, <1>6, <1>7

\* A stop that was not there before a token is completed by that token, and
\* beyond min_tokens.
LEMMA OccursLater ==
    ASSUME ask \in Asks, NEW o \in Seq(Token), NEW n \in 1..Len(o),
           NEW k \in DOMAIN Stops, NEW i \in Nat, Occurs(o, n, k, i), ~Occurs(o, n - 1, k, i)
    PROVE  n > ask.min /\ i + Len(Stops[k]) > Len(Spelled(o, n - 1))
<1> PICK e : e = i + Len(Stops[k])
  OBVIOUS
<1> PICK m : m = n - 1
  OBVIOUS
<1>1. Len(o) \in Nat /\ ask.min \in Nat /\ Len(Stops[k]) \in Nat
  BY LenProperties, AskTypes, StopsAreWords
<1>2. n \in Nat /\ m \in 0..Len(o) /\ n \in 0..Len(o) /\ m \in 0..n /\ e \in Nat
  BY <1>1
<1>3. /\ Len(Spelled(o, n)) \in Nat /\ Len(Spelled(o, m)) \in Nat
      /\ Spelled(o, n) \in Seq(Chars) /\ Spelled(o, m) \in Seq(Chars) /\ Extends(Spelled(o, n), Spelled(o, m))
  BY <1>2, SpelledGrows, LenProperties
<1>4. /\ e > Len(Spelled(o, IF ask.min < n THEN ask.min ELSE n)) /\ e <= Len(Spelled(o, n))
      /\ SubSeq(Spelled(o, n), i + 1, e) = Stops[k]
      /\ \A p \in i..e : Complete(Stands(o, p))
  BY DEF Occurs
<1>5. n > ask.min
  <2>1. ASSUME ~(ask.min < n) PROVE FALSE
    <3>1. e > Len(Spelled(o, n))
      BY <1>4, <2>1
    <3> QED
      BY <1>2, <1>3, <1>4, <3>1
  <2> QED
    BY <1>1, <1>2, <2>1
<1>6. (IF ask.min < n THEN ask.min ELSE n) = ask.min /\ (IF ask.min < m THEN ask.min ELSE m) = ask.min
  BY <1>1, <1>2, <1>5
<1>7. ASSUME ~(e > Len(Spelled(o, m))) PROVE FALSE
  <2>1. e <= Len(Spelled(o, m))
    BY <1>2, <1>3, <1>7
  <2>2. SubSeq(Spelled(o, m), i + 1, e) = Stops[k]
    <3>1. PICK r, t : r = Spelled(o, m) /\ t = Spelled(o, n)
      OBVIOUS
    <3>2. r \in Seq(Chars) /\ t \in Seq(Chars) /\ Extends(t, r) /\ e \in Nat /\ e <= Len(r)
      BY <1>2, <1>3, <2>1, <3>1
    <3>3. SubSeq(t, i + 1, e) = SubSeq(r, i + 1, e)
      BY <3>2, SubSeqExtends
    <3> QED
      BY <1>4, <3>1, <3>3
  <2>3. e > Len(Spelled(o, IF ask.min < m THEN ask.min ELSE m))
    BY <1>4, <1>6
  <2>4. Occurs(o, m, k, i)
    BY <1>4, <2>1, <2>2, <2>3 DEF Occurs
  <2> QED
    BY <2>4
<1> QED
  BY <1>5, <1>7

\* What the checker lets through in a token's text is what occurs there.
LEMMA HitIsOccurs ==
    ASSUME ask \in Asks, NEW o \in Seq(Token), NEW n \in 1..Len(o), n > ask.min, NEW new \in Nat,
           Len(Spelled(o, n)) = Len(Spelled(o, n - 1)) + new, NEW f,
           Tracks(f, o, Len(Spelled(o, n - 1)) - Longest, Len(Spelled(o, n))),
           NEW k \in DOMAIN Stops, NEW i \in Nat
    PROVE  Hit(Spelled(o, n), new, Stops[k], f.spans, i) <=>
              Occurs(o, n, k, i) /\ i + Len(Stops[k]) > Len(Spelled(o, n - 1))
<1> PICK j : j = i + Len(Stops[k])
  OBVIOUS
<1> PICK m : m = n - 1
  OBVIOUS
<1> PICK b : b = Len(Spelled(o, m))
  OBVIOUS
<1> PICK e : e = Len(Spelled(o, n))
  OBVIOUS
<1> PICK lo : lo = b - Longest
  OBVIOUS
<1>1. /\ Len(o) \in Nat /\ ask.min \in Nat /\ Len(Stops[k]) \in Nat \ {0}
      /\ Longest \in Nat /\ Len(Stops[k]) <= Longest
  BY LenProperties, AskTypes, StopsAreWords, LongestIs
<1>2. n \in Nat /\ m \in 0..Len(o) /\ n \in 0..Len(o) /\ ask.min \in 0..m
  BY <1>1
<1>3. b \in Nat /\ e \in Nat /\ e = b + new /\ Len(Spelled(o, ask.min)) \in Nat /\ Len(Spelled(o, ask.min)) <= b
  BY <1>2, LengthsGrow
<1>4. j \in Nat /\ i < j /\ lo \in Int
  BY <1>1, <1>3
<1>5. IsSpans(f.spans, e) /\ Covered(o, f.spans, lo, e) /\ Exact(o, f.spans)
  BY DEF Tracks
<1>6. (IF ask.min < n THEN ask.min ELSE n) = ask.min
  BY <1>1, <1>2
<1>7. Occurs(o, n, k, i) /\ j > b <=>
         j > b /\ j <= e /\ SubSeq(Spelled(o, n), i + 1, j) = Stops[k] /\ \A p \in i..j : Complete(Stands(o, p))
  <2>1. j > b => j > Len(Spelled(o, ask.min))
    BY <1>3, <1>4
  <2> QED
    BY <1>6, <2>1 DEF Occurs
<1>8. Hit(Spelled(o, n), new, Stops[k], f.spans, i) <=>
         j > b /\ j <= e /\ SubSeq(Spelled(o, n), i + 1, j) = Stops[k] /\ ~Overlaps(f.spans, i, j)
  <2>1. i >= e + 1 - new - Len(Stops[k]) <=> j > b
    <3> PICK c \in Nat : c = Len(Stops[k])
      BY <1>1
    <3>1. e = b + new /\ j = i + c /\ b \in Nat /\ e \in Nat
      BY <1>3
    <3>2. i >= e + 1 - new - c <=> i + c > b
      BY <3>1
    <3> QED
      BY <3>1, <3>2
  <2> QED
    BY <2>1 DEF Hit
<1>9. ASSUME j > b, j <= e, ~Overlaps(f.spans, i, j) PROVE \A p \in i..j : Complete(Stands(o, p))
  <2>1. lo <= i
    BY <1>1, <1>3, <1>4, <1>9
  <2> QED
    BY <1>3, <1>4, <1>5, <1>9, <2>1, UnprotectedIsOutside
<1>10. ASSUME Overlaps(f.spans, i, j) PROVE ~ \A p \in i..j : Complete(Stands(o, p))
  <2>1. PICK span \in f.spans : span[1] < j /\ span[2] > i
    BY <1>10 DEF Overlaps
  <2>2. span[1] \in Nat /\ span[2] \in Nat /\ span[1] < span[2]
    BY <1>5 DEF IsSpans
  <2>3. PICK p \in Nat : span[1] <= p /\ p < span[2] /\ i <= p /\ p < j
    <3>1. CASE span[1] <= i
      BY <1>4, <2>1, <2>2, <3>1
    <3>2. CASE i <= span[1]
      BY <1>4, <2>1, <2>2, <3>2
    <3> QED
      BY <2>2, <3>1, <3>2
  <2>4. p \in i..j /\ p + 1 \in i..j
    BY <1>4, <2>3
  <2>5. ~(Complete(Stands(o, p)) /\ Complete(Stands(o, p + 1)))
    BY <1>5, <2>3 DEF Exact, Holds
  <2> QED
    BY <2>4, <2>5
<1> QED
  BY <1>7, <1>8, <1>9, <1>10

\* A client that was sent text t of the first n tokens, and whose answer ended
\* for reason r, has all of them and no stop among them, or was cut at the first.
Answer(o, r, n, t) ==
    LET shown == IF r \in {"eos", "token"} /\ ~ask.include THEN n - 1 ELSE n
    IN  /\ n \in 0..Len(o) /\ shown \in 0..Len(o)
        /\ r # "string" => Unmet(o, shown) /\ t = Spelled(o, shown)
        /\ r = "string" =>
              \E k, i : /\ FirstAt(o, n, k, i)
                        /\ t = SubSeq(Spelled(o, n), 1, IF ask.include THEN i + Len(Stops[k]) ELSE i)

LEMMA AnswerStep ==
    ASSUME ask \in Asks, NEW o \in Seq(Token), NEW tok \in Token, NEW r, NEW n, NEW t, Answer(o, r, n, t)
    PROVE  Answer(Append(o, tok), r, n, t)
<1> PICK u : u = Append(o, tok)
  OBVIOUS
<1> PICK shown : shown = IF r \in {"eos", "token"} /\ ~ask.include THEN n - 1 ELSE n
  OBVIOUS
<1>1. /\ n \in 0..Len(o) /\ shown \in 0..Len(o)
      /\ r # "string" => Unmet(o, shown) /\ t = Spelled(o, shown)
      /\ r = "string" =>
            \E k, i : /\ FirstAt(o, n, k, i)
                      /\ t = SubSeq(Spelled(o, n), 1, IF ask.include THEN i + Len(Stops[k]) ELSE i)
  BY DEF Answer
<1>2. n \in 0..Len(u) /\ shown \in 0..Len(u)
  <2>1. Len(o) \in Nat /\ Len(u) = Len(o) + 1
    BY LenProperties, AppendProperties
  <2> QED
    BY <1>1, <2>1
<1>3. Spelled(u, n) = Spelled(o, n) /\ Spelled(u, shown) = Spelled(o, shown)
  BY <1>1, SpelledStays
<1>4. \A q \in 0..Len(o) : \A k \in DOMAIN Stops, i \in Nat : Occurs(u, q, k, i) <=> Occurs(o, q, k, i)
  BY OccursStays
<1>5. Unmet(o, shown) => Unmet(u, shown)
  BY <1>1, <1>4 DEF Unmet
<1>6. \A k, i : FirstAt(o, n, k, i) => FirstAt(u, n, k, i)
  BY <1>1, <1>4 DEF FirstAt
<1>7. r = "string" =>
         \E k, i : /\ FirstAt(u, n, k, i)
                   /\ t = SubSeq(Spelled(u, n), 1, IF ask.include THEN i + Len(Stops[k]) ELSE i)
  BY <1>1, <1>3, <1>6
<1>8. r # "string" => Unmet(u, shown) /\ t = Spelled(u, shown)
  BY <1>1, <1>3, <1>5
<1> QED
  BY <1>2, <1>7, <1>8 DEF Answer

\* A message the front end reads moves it one token on, or ends the answer; a
\* stop string ends it where the first stop of the text is, outside every call.
LEMMA FrontAtReceive ==
    ASSUME ask \in Asks, NEW o \in Seq(Token), wire \in Seq(Message), wire # <<>>,
           FrontAt(o, wire, seen, text, checker), Unmet(o, seen), Update(Head(wire))
    PROVE  /\ result' = None => FrontAt(o, Tail(wire), seen', text', checker')
           /\ result' = "string" => CutAt(o, text')
           /\ Answer(o, result', seen', text')
<1> DEFINE m       == Head(wire)
           skipped == m.end \in {"eos", "token"} /\ ~ask.include
           fed     == IF skipped THEN checker ELSE Feed(m.tok)
           new     == IF skipped THEN <<>> ELSE TextOf[m.tok]
           chars   == text \o new
           stop    == IF seen + 1 > ask.min
                      THEN CheckStopStrings(chars, Len(new), fed.spans) ELSE None
           cut     == IF stop = None THEN Len(chars)
                      ELSE IF ask.include THEN stop[2] + Len(Stops[stop[1]])
                      ELSE stop[2]
           lo      == Len(text) - Longest
<1>1. /\ text' = SubSeq(chars, 1, cut) /\ seen' = seen + 1
      /\ checker' = [fed EXCEPT !.spans = DiscardBefore(@, cut - Longest)]
      /\ result' = IF stop # None THEN "string" ELSE IF m.end # "running" THEN m.end ELSE None
  BY DEF Update
<1>2. /\ m \in Message /\ m = wire[1] /\ Len(wire) \in Nat \ {0}
      /\ Tail(wire) \in Seq(Message) /\ Len(Tail(wire)) = Len(wire) - 1
      /\ \A i \in 1..(Len(wire) - 1) : Tail(wire)[i] = wire[i + 1]
  BY HeadTailProperties
<1>3. m.tok \in Token /\ m.end \in {"running", "eos", "token", "budget", "length"}
  BY <1>2 DEF Message
<1>4. seen \in Nat /\ seen + Len(wire) = Len(o) /\ \A i \in 1..Len(wire) : wire[i].tok = o[seen + i]
  BY DEF FrontAt
<1> PICK n : n = seen + 1
  OBVIOUS
<1>5. Len(o) \in Nat /\ n \in 1..Len(o) /\ n - 1 = seen /\ seen \in 0..Len(o) /\ n \in 0..Len(o) /\ 1 \in 1..Len(wire)
  <2>1. Len(o) \in Nat
    BY LenProperties
  <2> HIDE DEF m, chars
  <2> QED
    BY <1>2, <1>4, <2>1
<1>6. m.tok = o[n]
  BY <1>2, <1>4, <1>5
<1>7. Longest \in Nat \ {0} /\ \A k \in DOMAIN Stops : Len(Stops[k]) <= Longest /\ Len(Stops[k]) \in Nat \ {0}
  BY LongestIs, StopsAreWords
<1>8. text = Spelled(o, seen) /\ text \in Seq(Chars) /\ Len(text) \in Nat
  <2>1. text = Spelled(o, seen)
    BY DEF FrontAt
  <2>2. Spelled(o, seen) \in Seq(Chars)
    BY <1>5, SpelledGrows
  <2> QED
    BY <2>1, <2>2, LenProperties
<1>9. result' = "string" => stop # None /\ stop = CheckStopStrings(chars, Len(new), fed.spans)
  <2>1. m.end # "string" /\ None # "string"
    BY <1>3, SizesAssumption
  <2>2. stop # None => stop = CheckStopStrings(chars, Len(new), fed.spans)
    OBVIOUS
  <2> HIDE DEF stop, m
  <2> QED
    BY <1>1, <2>1, <2>2
<1>10. result' = None => stop = None /\ m.end = "running"
  <2> HIDE DEF stop, m
  <2> QED
    BY <1>1, <1>3, SizesAssumption
\* A message whose token ended the request and is not shown brings no text.
<1>11. CASE skipped
  <2>1. new = <<>> /\ Len(new) = 0
    BY <1>11
  <2>2. CheckStopStrings(chars, 0, fed.spans) = None
    <3> HIDE DEF chars, fed
    <3> QED
      BY DEF CheckStopStrings
  <2>3. result' # "string"
    <3> HIDE DEF new, chars, fed, stop
    <3> QED
      BY <1>9, <2>1, <2>2
  <2>4. result' # None
    <3>1. m.end # "running"
      BY <1>11
    <3> HIDE DEF stop, m
    <3> QED
      BY <1>10, <3>1
  <2>5. stop = None
    <3> HIDE DEF new, chars, fed
    <3> QED
      BY <2>1, <2>2
  <2>6. text' = text
    <3>1. text \o <<>> = text
      BY <1>8, ConcatEmptySeq
    <3>2. SubSeq(text, 1, Len(text)) = text
      BY <1>8, SubSeqFull
    <3>3. chars = text
      BY <2>1, <3>1
    <3> HIDE DEF chars, new, stop, fed, m
    <3> QED
      BY <1>1, <2>5, <3>2, <3>3
  <2>7. result' \in {"eos", "token"} /\ ~ask.include
    <3>1. m.end \in {"eos", "token"} /\ ~ask.include
      BY <1>11
    <3> HIDE DEF chars, new, stop, fed, m
    <3> QED
      BY <1>1, <2>5, <3>1
  <2>8. seen' = n /\ n \in 0..Len(o) /\ n - 1 = seen /\ seen \in 0..Len(o)
    BY <1>1, <1>5
  <2>9. Answer(o, result', seen', text')
    <3> HIDE DEF chars, new, stop, fed, m, skipped
    <3> QED
      BY <1>8, <2>3, <2>6, <2>7, <2>8 DEF Answer
  <2> QED
    BY <2>3, <2>4, <2>9
<1>12. CASE ~skipped
  <2>1. fed = Feed(m.tok) /\ new = TextOf[m.tok] /\ chars = text \o TextOf[m.tok]
    BY <1>12
  <2> HIDE DEF fed, new, m, stop, skipped
  <2>2. chars = Spelled(o, n)
    <3>1. Spelled(o, n) = Spelled(o, n - 1) \o TextOf[o[n]]
      BY <1>5, SpelledIs
    <3> QED
      BY <1>5, <1>6, <1>8, <2>1, <3>1
  <2> HIDE DEF chars
  <2>3. chars \in Seq(Chars) /\ Len(chars) \in Nat /\ Len(new) \in Nat /\ Len(chars) = Len(text) + Len(new)
    <3>1. Spelled(o, n) \in Seq(Chars)
      BY <1>5, SpelledGrows
    <3>2. Len(Spelled(o, n)) = Len(Spelled(o, n - 1)) + Len(TextOf[o[n]])
      BY <1>5, SpelledToken
    <3>3. Len(TextOf[o[n]]) \in Nat
      BY <1>3, <1>6, TokenLengths
    <3>4. chars \in Seq(Chars) /\ Len(chars) = Len(text) + Len(new) /\ Len(new) \in Nat
      BY <1>5, <1>6, <1>8, <2>1, <2>2, <3>1, <3>2, <3>3
    <3> QED
      BY <3>4, LenProperties
  <2>4. lo \in Int
    BY <1>7, <1>8
  <2>5. Tracks(fed, o, lo, Len(chars)) /\ (fed.ended <=> Began(ask, o, n))
    <3>1. Tracks(checker, o, lo, Len(Spelled(o, n - 1)))
      BY <1>5, <1>8 DEF FrontAt
    <3>2. checker.ended <=> Began(ask, o, n - 1)
      BY <1>5 DEF FrontAt
    <3> HIDE DEF lo
    <3>3. /\ Tracks(Feed(o[n]), o, lo, Len(Spelled(o, n)))
          /\ Feed(o[n]).ended <=> Began(ask, o, n)
      BY <1>5, <2>4, <3>1, <3>2, TracksToken
    <3> QED
      BY <1>6, <2>1, <2>2, <3>3
  <2>6. ASSUME result' = None PROVE FrontAt(o, Tail(wire), seen', text', checker')
    <3>1. stop = None /\ cut = Len(chars)
      BY <1>10, <2>6
    <3>2. text' = chars
      <4>1. SubSeq(chars, 1, Len(chars)) = chars
        BY <2>3, SubSeqFull
      <4> QED
        BY <1>1, <3>1, <4>1
    <3> PICK late : late = Len(chars) - Longest
      OBVIOUS
    <3>3. late \in Int /\ lo <= late
      BY <1>7, <1>8, <2>3
    <3>4. checker' = [fed EXCEPT !.spans = DiscardBefore(@, late)]
      BY <1>1, <3>1
    <3> HIDE DEF lo, cut
    <3>5. /\ Tracks([fed EXCEPT !.spans = DiscardBefore(@, late)], o, late, Len(chars))
          /\ [fed EXCEPT !.spans = DiscardBefore(@, late)].ended = fed.ended
      BY <2>3, <2>4, <2>5, <3>3, DiscardKeeps
    <3>6. Tracks(checker', o, Len(text') - Longest, Len(text')) /\ (checker'.ended <=> Began(ask, o, n))
      BY <2>5, <3>2, <3>4, <3>5
    <3>7. n + Len(Tail(wire)) = Len(o) /\ n \in Nat /\ seen' = n
      BY <1>1, <1>2, <1>4, <1>5
    <3>8. \A i \in 1..Len(Tail(wire)) : Tail(wire)[i].tok = o[n + i]
      <4> SUFFICES ASSUME NEW i \in 1..Len(Tail(wire)) PROVE Tail(wire)[i].tok = o[n + i]
        OBVIOUS
      <4>1. i \in 1..(Len(wire) - 1) /\ i + 1 \in 1..Len(wire) /\ seen + (i + 1) = n + i
        BY <1>2, <1>4
      <4>2. Tail(wire)[i] = wire[i + 1] /\ wire[i + 1].tok = o[seen + (i + 1)]
        BY <1>2, <1>4, <4>1
      <4> QED
        BY <4>1, <4>2
    <3>9. text' = Spelled(o, n)
      BY <2>2, <3>2
    <3> QED
      BY <3>6, <3>7, <3>8, <3>9 DEF FrontAt
  <2>7. \A k \in DOMAIN Stops, i \in Nat : ask.min < n =>
           (Hit(chars, Len(new), Stops[k], fed.spans, i) <=>
               Occurs(o, n, k, i) /\ i + Len(Stops[k]) > Len(Spelled(o, n - 1)))
    <3>1. Len(Spelled(o, n)) = Len(Spelled(o, n - 1)) + Len(new)
      BY <1>5, <1>8, <2>2, <2>3
    <3>2. Tracks(fed, o, Len(Spelled(o, n - 1)) - Longest, Len(Spelled(o, n)))
      BY <1>5, <1>8, <2>2, <2>5
    <3> HIDE DEF lo, cut
    <3> QED
      BY <1>5, <2>2, <2>3, <3>1, <3>2, HitIsOccurs
  <2>8. \A k \in DOMAIN Stops, i \in Nat : Occurs(o, n, k, i) =>
           ask.min < n /\ Hit(chars, Len(new), Stops[k], fed.spans, i)
    <3> SUFFICES ASSUME NEW k \in DOMAIN Stops, NEW i \in Nat, Occurs(o, n, k, i)
                 PROVE  ask.min < n /\ Hit(chars, Len(new), Stops[k], fed.spans, i)
      OBVIOUS
    <3>1. ~Occurs(o, n - 1, k, i)
      BY <1>5 DEF Unmet
    <3>2. n > ask.min /\ i + Len(Stops[k]) > Len(Spelled(o, n - 1))
      BY <1>5, <3>1, OccursLater
    <3>3. ask.min < n
      BY <1>5, <3>2
    <3> QED
      BY <2>7, <3>2, <3>3
  <2>9. stop = IF n > ask.min THEN CheckStopStrings(chars, Len(new), fed.spans) ELSE None
    BY DEF stop
  <2>10. seen' = n
    BY <1>1
  <2>11. ASSUME result' # "string" PROVE Answer(o, result', seen', text')
    <3>1. stop = None /\ cut = Len(chars)
      BY <1>1, <2>11
    <3>2. text' = chars
      <4>1. SubSeq(chars, 1, Len(chars)) = chars
        BY <2>3, SubSeqFull
      <4> QED
        BY <1>1, <3>1, <4>1
    <3>3. ~(result' \in {"eos", "token"} /\ ~ask.include)
      <4>1. result' = m.end \/ result' = None
        BY <1>1, <3>1
      <4>2. None \notin {"eos", "token"}
        BY SizesAssumption
      <4> QED
        BY <1>12, <4>1, <4>2 DEF skipped
    <3>4. Unmet(o, n)
      <4>1. ASSUME NEW k \in DOMAIN Stops, NEW i \in Nat, Occurs(o, n, k, i) PROVE FALSE
        <5>1. ask.min < n /\ Hit(chars, Len(new), Stops[k], fed.spans, i)
          BY <2>8, <4>1
        <5>2. CheckStopStrings(chars, Len(new), fed.spans) = None
          BY <1>5, <2>9, <3>1, <5>1
        <5> QED
          BY <2>3, <5>1, <5>2, StopIsFound
      <4> QED
        BY <4>1 DEF Unmet
    <3> HIDE DEF cut, lo
    <3> QED
      BY <1>5, <2>2, <2>10, <2>11, <3>2, <3>3, <3>4 DEF Answer
  <2>12. ASSUME result' = "string" PROVE CutAt(o, text') /\ Answer(o, result', seen', text')
    <3>1. stop # None /\ stop = CheckStopStrings(chars, Len(new), fed.spans)
      BY <1>9, <2>12
    <3>2. PICK k \in DOMAIN Stops, i \in Nat :
              /\ stop = <<k, i>> /\ Hit(chars, Len(new), Stops[k], fed.spans, i)
              /\ \A l \in DOMAIN Stops, q \in Nat : Hit(chars, Len(new), Stops[l], fed.spans, q) =>
                    i + Len(Stops[k]) <= q + Len(Stops[l])
      BY <2>3, <3>1, StopIsFound
    <3>3. /\ i + Len(Stops[k]) <= Len(chars) /\ i >= Len(chars) + 1 - Len(new) - Len(Stops[k])
          /\ ~Overlaps(fed.spans, i, i + Len(Stops[k]))
      BY <3>2 DEF Hit
    <3> PICK j : j = i + Len(Stops[k])
      OBVIOUS
    <3>4. Len(Stops[k]) \in Nat \ {0} /\ Len(Stops[k]) <= Longest /\ Longest \in Nat
      BY <1>7
    <3>5. j \in Nat /\ i < j /\ j <= Len(chars) /\ lo <= i
      BY <1>8, <2>3, <3>3, <3>4
    <3>6. cut = IF ask.include THEN j ELSE i
      BY <3>1, <3>2
    <3> HIDE DEF lo, cut
    <3>7. Complete(Stands(o, i)) /\ Complete(Stands(o, j))
      <4>1. Covered(o, fed.spans, lo, Len(chars)) /\ IsSpans(fed.spans, Len(chars)) /\ ~Overlaps(fed.spans, i, j)
        BY <2>5, <3>3 DEF Tracks
      <4>2. i \in i..j /\ j \in i..j
        BY <3>5
      <4>3. \A p \in i..j : Complete(Stands(o, p))
        BY <2>3, <2>4, <3>5, <4>1, UnprotectedIsOutside
      <4> QED
        BY <4>2, <4>3
    <3>8. cut \in 0..Len(chars) /\ Complete(Stands(o, cut))
      BY <2>3, <3>5, <3>6, <3>7
    <3>9. Len(text') = cut
      <4>1. \A q \in 1..cut : chars[q] \in Chars
        BY <2>3, <3>8, ElementOfSeq
      <4> QED
        BY <1>1, <3>8, <4>1, SubSeqProperties
    <3>10. Len(chars) <= Len(Spelled(o, Len(o))) /\ Len(Spelled(o, Len(o))) \in Nat
      <4>1. Len(o) \in 0..Len(o) /\ n \in 0..Len(o)
        BY <1>5
      <4>2. Extends(Spelled(o, Len(o)), Spelled(o, n)) /\ Spelled(o, Len(o)) \in Seq(Chars)
        BY <4>1, SpelledGrows
      <4> QED
        BY <2>2, <4>2, LenProperties DEF Extends
    <3>11. cut \in Nat /\ cut <= Len(Spelled(o, Len(o)))
      BY <2>3, <3>8, <3>10
    <3>12. CutAt(o, text')
      BY <3>8, <3>9, <3>11 DEF CutAt
    <3>13. n > ask.min
      BY <2>9, <3>1
    <3>14. FirstAt(o, n, k, i)
      <4>1. Occurs(o, n, k, i)
        BY <1>5, <2>7, <3>2, <3>13
      <4>2. \A l \in DOMAIN Stops, q \in Nat : Occurs(o, n, l, q) => i + Len(Stops[k]) <= q + Len(Stops[l])
        BY <2>8, <3>2
      <4> QED
        BY <3>2, <4>1, <4>2 DEF FirstAt
    <3>15. text' = SubSeq(Spelled(o, n), 1, IF ask.include THEN i + Len(Stops[k]) ELSE i)
      BY <1>1, <2>2, <3>6
    <3>16. Answer(o, result', seen', text')
      BY <1>5, <2>10, <2>12, <3>14, <3>15 DEF Answer
    <3> QED
      BY <3>12, <3>16
  <2> QED
    BY <2>6, <2>11, <2>12
<1> QED
  BY <1>11, <1>12

-----------------------------------------------------------------------------
(* A caller's stop never interrupts a call.                                *)

\* While the ask stands, so does what was said of the grammar.
LEMMA StandsSame ==
    ASSUME ask' = ask
    PROVE  \A o, p : Stands(o, p)' = Stands(o, p)
<1>1. \A g, s : Read(g, s)' = Read(g, s)
  BY DEF Read, FoldLeft, MapThenFoldSet, After
<1>2. Start(ask') = Start(ask)
  OBVIOUS
<1> QED
  BY <1>1, <1>2 DEF Stands, Hidden

LEMMA EngineAtSame ==
    ASSUME ask' = ask
    PROVE  \A o, st, en, gr : EngineAt(o, st, en, gr) => EngineAt(o, st, en, gr)'
BY StandsSame DEF EngineAt

LEMMA CutAtSame ==
    ASSUME ask' = ask
    PROVE  \A o, t : CutAt(o, t) => CutAt(o, t)'
BY StandsSame DEF CutAt

LEMMA FrontAtSame ==
    ASSUME ask' = ask
    PROVE  \A o, w, n, t, f : FrontAt(o, w, n, t, f) => FrontAt(o, w, n, t, f)'
<1>1. \A o, spans, lo, hi : Covered(o, spans, lo, hi) => Covered(o, spans, lo, hi)'
  BY StandsSame DEF Covered
<1>2. \A o, spans : Exact(o, spans) => Exact(o, spans)'
  BY StandsSame DEF Exact
<1>3. \A f, o, lo, p : Tracks(f, o, lo, p) => Tracks(f, o, lo, p)'
  BY <1>1, <1>2, StandsSame DEF Tracks
<1> QED
  BY <1>3 DEF FrontAt

LEMMA AnswerSame ==
    ASSUME ask' = ask
    PROVE  \A o, r, n, t : Answer(o, r, n, t) => Answer(o, r, n, t)'
<1>1. \A o, n, k, i : Occurs(o, n, k, i)' <=> Occurs(o, n, k, i)
  BY StandsSame DEF Occurs
<1>2. \A o, n : Unmet(o, n) => Unmet(o, n)'
  BY <1>1 DEF Unmet
<1>3. \A o, n, k, i : FirstAt(o, n, k, i) => FirstAt(o, n, k, i)'
  BY <1>1 DEF FirstAt
<1> QED
  BY <1>2, <1>3 DEF Answer

\* The engine stands where its output leads, the front end where the part of it
\* that it has read leads; an answer that a stop cut was cut outside every call
\* and at the first stop, another holds none.
Whole ==
    /\ ask \in Asks /\ out \in Seq(Token) /\ wire \in Seq(Message)
    /\ EngineAt(out, status, ended, grammar)
    /\ result = None => FrontAt(out, wire, seen, text, checker)
    /\ result = "string" => CutAt(out, text)
    /\ Answer(out, result, seen, text)

LEMMA WholeInitially == Init => Whole
<1> SUFFICES ASSUME Init PROVE Whole
  OBVIOUS
<1>1. out = <<>> /\ wire = <<>> /\ text = <<>> /\ seen = 0 /\ status = "running" /\ result = None /\ ask \in Asks
  BY DEF Init
<1>2. out \in Seq(Token) /\ Len(out) = 0 /\ wire \in Seq(Message) /\ Len(wire) = 0 /\ Len(text) = 0
  BY <1>1
<1>3. Spelled(out, 0) = <<>>
  BY <1>2, SpelledIs
<1>4. Stands(out, 0) = Start(ask)
  <2>1. Len(Spelled(out, 0)) = 0
    BY <1>1, <1>2, <1>3
  <2>2. 0 \in 0..Len(Spelled(out, Len(out)))
    BY <1>2, <2>1
  <2>3. Hidden(ask, out) \in Nat
    BY <1>2, HiddenAt
  <2>4. 0 <= Hidden(ask, out)
    BY <2>3
  <2> QED
    BY <1>2, <2>2, <2>4, StandsIs
<1>5. Began(ask, out, 0) <=> ended
  <2>1. \A i \in 1..0 : FALSE
    OBVIOUS
  <2>2. Began(ask, out, 0) <=> ask.choice = "forced" \/ ~ask.thinks
    BY <2>1 DEF Began
  <2>3. ended <=> ask.choice = "forced" \/ ~ask.thinks
    BY DEF Init
  <2> QED
    BY <2>2, <2>3
<1>6. checker = [matcher |-> Start(ask), ended |-> ended, offset |-> 0, spans |-> {}] /\ ended \in BOOLEAN
  BY DEF Init
<1>7. EngineAt(out, status, ended, grammar)
  <2>1. grammar = Start(ask) /\ Len(Spelled(out, 0)) = 0
    BY <1>1, <1>2, <1>3 DEF Init
  <2> QED
    BY <1>1, <1>2, <1>4, <1>5, <2>1 DEF EngineAt
<1>8. FrontAt(out, wire, seen, text, checker)
  <2>1. IsChecker(checker) /\ checker.offset = 0 /\ checker.matcher = Stands(out, 0) /\ checker.spans = {} /\ checker.ended = ended
    BY <1>4, <1>6 DEF IsChecker
  <2>2. IsSpans({}, 0) /\ Covered(out, {}, 0 - Longest, 0) /\ Exact(out, {})
    BY DEF IsSpans, Covered, Exact
  <2>3. Tracks(checker, out, 0 - Longest, 0)
    BY <2>1, <2>2 DEF Tracks
  <2> QED
    BY <1>1, <1>2, <1>3, <1>5, <2>1, <2>3 DEF FrontAt
<1>9. Answer(out, result, seen, text)
  <2>1. ASSUME NEW k \in DOMAIN Stops, NEW i \in Nat, Occurs(out, 0, k, i)
        PROVE  FALSE
    <3>1. i + Len(Stops[k]) <= Len(Spelled(out, 0))
      BY <2>1 DEF Occurs
    <3>2. Len(Spelled(out, 0)) = 0 /\ Len(Stops[k]) \in Nat \ {0}
      BY <1>1, <1>2, <1>3, StopsAreWords
    <3> QED
      BY <3>1, <3>2
  <2>2. Unmet(out, 0)
    BY <2>1 DEF Unmet
  <2>3. result # "string" /\ result \notin {"eos", "token"}
    BY <1>1, SizesAssumption
  <2>4. seen = 0 /\ text = Spelled(out, 0) /\ 0 \in 0..Len(out)
    BY <1>1, <1>2, <1>3
  <2> QED
    BY <2>2, <2>3, <2>4 DEF Answer
<1> QED
  BY <1>1, <1>2, <1>7, <1>8, <1>9, SizesAssumption DEF Whole

LEMMA WholeStep ==
    ASSUME Whole, NEW tok \in Token, Step(tok)
    PROVE  Whole'
<1> PICK m : m = [tok |-> tok, end |-> CheckStop(tok)]
  OBVIOUS
<1>1. m \in Message /\ m.tok = tok
  BY DEF CheckStop, Message
<1>2. /\ ask' = ask /\ seen' = seen /\ text' = text /\ checker' = checker /\ result' = result
      /\ out' = Append(out, tok) /\ wire' = Append(wire, m) /\ status' = CheckStop(tok)
      /\ ended' = (ended \/ tok \in Boundary) /\ grammar' = Read(grammar, Advance(tok))
  BY DEF Step, front
<1>3. out' \in Seq(Token) /\ wire' \in Seq(Message) /\ ask' \in Asks
  BY <1>1, <1>2, AppendProperties DEF Whole
<1>4. EngineAt(out', status', ended', grammar')
  BY <1>2, EngineAtStep DEF Whole
<1>5. result' = None => FrontAt(out', wire', seen', text', checker')
  <2>1. result = None => FrontAt(Append(out, m.tok), Append(wire, m), seen, text, checker)
    BY <1>1, FrontAtStep DEF Whole
  <2> QED
    BY <1>1, <1>2, <2>1
<1>6. result' = "string" => CutAt(out', text')
  BY <1>2, CutAtStep DEF Whole
<1>7. Answer(out', result', seen', text')
  BY <1>2, AnswerStep DEF Whole
<1> QED
  BY <1>2, <1>3, <1>4, <1>5, <1>6, <1>7, EngineAtSame, FrontAtSame, CutAtSame, AnswerSame DEF Whole

LEMMA WholeInductive == Whole /\ [Next]_vars => Whole'
<1> SUFFICES ASSUME Whole, [Next]_vars PROVE Whole'
  OBVIOUS
<1>1. CASE \E tok \in Token : Step(tok)
  BY <1>1, WholeStep
<1>2. CASE Receive
  <2>1. /\ ask' = ask /\ out' = out /\ status' = status /\ ended' = ended /\ grammar' = grammar
        /\ wire # <<>> /\ wire' = Tail(wire) /\ wire \in Seq(Message)
    BY <1>2 DEF Receive, engine, Whole
  <2>2. wire' \in Seq(Message)
    BY <2>1, HeadTailProperties
  <2>3. EngineAt(out', status', ended', grammar')
    BY <2>1 DEF Whole
  <2>4. /\ result' = None => FrontAt(out', wire', seen', text', checker')
        /\ result' = "string" => CutAt(out', text')
        /\ Answer(out', result', seen', text')
    <3>1. CASE result = None
      <4>1. Update(Head(wire)) /\ FrontAt(out, wire, seen, text, checker) /\ ask \in Asks /\ out \in Seq(Token)
        BY <1>2, <3>1 DEF Receive, Whole
      <4>2. Answer(out, None, seen, text) /\ None \notin {"eos", "token", "string"}
        BY <3>1, SizesAssumption DEF Whole
      <4>3. Unmet(out, seen)
        BY <4>2 DEF Answer
      <4> QED
        BY <2>1, <4>1, <4>3, FrontAtReceive
    <3>2. CASE result # None
      <4>1. result' = result /\ text' = text /\ seen' = seen
        BY <1>2, <3>2 DEF Receive, front
      <4> QED
        BY <2>1, <3>2, <4>1 DEF Whole
    <3> QED
      BY <3>1, <3>2
  <2> QED
    BY <2>1, <2>2, <2>3, <2>4, EngineAtSame, FrontAtSame, CutAtSame, AnswerSame DEF Whole
<1>3. CASE Abort
  <2>1. /\ ask' = ask /\ out' = out /\ ended' = ended /\ grammar' = grammar /\ wire' = wire
        /\ seen' = seen /\ text' = text /\ checker' = checker /\ result' = result
        /\ status' = "token" => status = "token"
    BY <1>3 DEF Abort, front
  <2>2. EngineAt(out', status', ended', grammar')
    BY <2>1 DEF Whole, EngineAt
  <2> QED
    BY <2>1, <2>2, EngineAtSame, FrontAtSame, CutAtSame, AnswerSame DEF Whole
<1>4. CASE Over \/ UNCHANGED vars
  <2>1. /\ ask' = ask /\ out' = out /\ status' = status /\ ended' = ended /\ grammar' = grammar /\ wire' = wire
        /\ seen' = seen /\ text' = text /\ checker' = checker /\ result' = result
    BY <1>4 DEF Over, vars, engine, front
  <2> QED
    BY <2>1, EngineAtSame, FrontAtSame, CutAtSame, AnswerSame DEF Whole
<1> QED
  BY <1>1, <1>2, <1>3, <1>4 DEF Next

\* A caller's stop never interrupts a call, for any stop strings, stop tokens
\* and limits: where the client's text was cut, and where the engine stopped on
\* a caller's token, no call was open.
THEOREM CallsAreKept == Spec => []CallsStayWhole
<1>1. Whole => CallsStayWhole
  <2> SUFFICES ASSUME Whole PROVE CallsStayWhole
    OBVIOUS
  <2>1. \A n : Written(n) = Spelled(out, n)
    BY DEF Written, Spelled
  <2>2. Unread = Hidden(ask, out)
    BY <2>1 DEF Unread, Hidden
  <2>3. \A n : StandsAt(n) = Stands(out, n)
    BY <2>1, <2>2 DEF StandsAt, Stands
  <2>4. result = "string" => Complete(StandsAt(Len(text)))
    BY <2>3 DEF Whole, CutAt
  <2>5. status = "token" => Outside(Len(Written(Len(out) - 1)), Len(Written(Len(out))))
    BY <2>1, <2>3 DEF Whole, EngineAt, Outside
  <2> QED
    BY <2>4, <2>5 DEF CallsStayWhole
<1> QED
  BY <1>1, WholeInitially, WholeInductive, PTL DEF Spec

-----------------------------------------------------------------------------
(* The first stop of the whole text.                                       *)

\* A caller's stop string is found as one search of the whole text would find
\* it, for any stop strings and however far the engine had run ahead: the answer
\* is cut at a first that lies outside every call, and an answer that was not cut
\* holds none.
THEOREM FirstStopEnds == Spec => []StopIsTheFirst
<1>1. Whole => StopIsTheFirst
  <2> SUFFICES ASSUME Whole PROVE StopIsTheFirst
    OBVIOUS
  <2>1. \A n : Written(n) = Spelled(out, n)
    BY DEF Written, Spelled
  <2>2. Unread = Hidden(ask, out)
    BY <2>1 DEF Unread, Hidden
  <2>3. \A n : StandsAt(n) = Stands(out, n)
    BY <2>1, <2>2 DEF StandsAt, Stands
  <2>4. Answer(out, result, seen, text) /\ ask \in Asks /\ out \in Seq(Token)
    BY DEF Whole
  <2>5. \A n \in 0..Len(out) : \A k, i :
           <<k, i>> \in Occurrences(n) <=> k \in DOMAIN Stops /\ i \in Nat /\ Occurs(out, n, k, i)
    <3> SUFFICES ASSUME NEW n \in 0..Len(out), NEW k, NEW i
                 PROVE  <<k, i>> \in Occurrences(n) <=>
                           k \in DOMAIN Stops /\ i \in Nat /\ Occurs(out, n, k, i)
      OBVIOUS
    <3> PICK chars : chars = Spelled(out, n)
      OBVIOUS
    <3> PICK least : least = Len(Spelled(out, IF ask.min < n THEN ask.min ELSE n))
      OBVIOUS
    <3> PICK e : e = i + Len(Stops[k])
      OBVIOUS
    <3>1. <<k, i>> \in Occurrences(n) <=>
             /\ k \in DOMAIN Stops /\ i \in 0..Len(chars)
             /\ e \in (least + 1)..Len(chars)
             /\ SubSeq(chars, i + 1, e) = Stops[k]
             /\ \A p \in i..e : Complete(Stands(out, p))
      BY <2>1, <2>3 DEF Occurrences, Outside
    <3>2. Occurs(out, n, k, i) <=>
             /\ e > least /\ e <= Len(chars)
             /\ SubSeq(chars, i + 1, e) = Stops[k]
             /\ \A p \in i..e : Complete(Stands(out, p))
      BY DEF Occurs
    <3>3. Len(chars) \in Nat /\ least \in Nat
      <4>1. Len(out) \in Nat /\ ask.min \in Nat
        BY <2>4, LenProperties, AskTypes
      <4>2. (IF ask.min < n THEN ask.min ELSE n) \in 0..Len(out)
        BY <4>1
      <4> QED
        BY <2>4, <4>2, LengthsGrow
    <3>4. k \in DOMAIN Stops => Len(Stops[k]) \in Nat
      BY StopsAreWords
    <3>5. k \in DOMAIN Stops =>
             (i \in 0..Len(chars) /\ e \in (least + 1)..Len(chars) <=>
                 i \in Nat /\ e > least /\ e <= Len(chars))
      BY <3>3, <3>4
    <3> QED
      BY <3>1, <3>2, <3>5
  <2>6. \A n : \A hit \in Occurrences(n) : hit = <<hit[1], hit[2]>>
    BY DEF Occurrences
  <2>7. Shown = IF result \in {"eos", "token"} /\ ~ask.include THEN seen - 1 ELSE seen
    BY DEF Shown
  <2>8. Shown \in 0..Len(out) /\ seen \in 0..Len(out)
    BY <2>4, <2>7 DEF Answer
  <2>9. CASE result # "string"
    <3>1. Unmet(out, Shown) /\ text = Spelled(out, Shown)
      BY <2>4, <2>7, <2>9 DEF Answer
    <3>2. Occurrences(Shown) = {}
      BY <2>5, <2>6, <2>8, <3>1 DEF Unmet
    <3> QED
      BY <2>1, <2>9, <3>1, <3>2 DEF StopIsTheFirst
  <2>10. CASE result = "string"
    <3>1. Shown = seen
      BY <2>7, <2>10
    <3>2. PICK k, i : /\ FirstAt(out, seen, k, i)
                      /\ text = SubSeq(Spelled(out, seen), 1, IF ask.include THEN i + Len(Stops[k]) ELSE i)
      BY <2>4, <2>10 DEF Answer
    <3>3. <<k, i>> \in Occurrences(seen)
      BY <2>5, <2>8, <3>2 DEF FirstAt
    <3>4. EndOf(<<k, i>>) = i + Len(Stops[k])
      BY DEF EndOf
    <3>5. \A other \in Occurrences(seen) : EndOf(<<k, i>>) <= EndOf(other)
      <4> SUFFICES ASSUME NEW other \in Occurrences(seen) PROVE EndOf(<<k, i>>) <= EndOf(other)
        OBVIOUS
      <4> PICK l, j : l = other[1] /\ j = other[2]
        OBVIOUS
      <4>1. <<l, j>> \in Occurrences(seen) /\ EndOf(other) = j + Len(Stops[l])
        BY <2>6 DEF EndOf
      <4>2. l \in DOMAIN Stops /\ j \in Nat /\ Occurs(out, seen, l, j)
        BY <2>5, <2>8, <4>1
      <4> QED
        BY <3>2, <3>4, <4>1, <4>2 DEF FirstAt
    <3>6. <<k, i>>[2] = i
      OBVIOUS
    <3> PICK first : first = <<k, i>>
      OBVIOUS
    <3>7. text = SubSeq(Written(seen), 1, IF ask.include THEN EndOf(first) ELSE first[2])
      BY <2>1, <3>2, <3>4, <3>6
    <3> QED
      BY <2>10, <3>1, <3>3, <3>5, <3>7 DEF StopIsTheFirst
  <2> QED
    BY <2>9, <2>10
<1> QED
  BY <1>1, WholeInitially, WholeInductive, PTL DEF Spec
=============================================================================
