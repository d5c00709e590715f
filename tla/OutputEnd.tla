------------------------------ MODULE OutputEnd ------------------------------
\* How one generation ends. The engine core samples a token, asks check_stop
\* whether it ends the request, and advances the structural-tag grammar that
\* holds tool calls. The front end reads the tokens later, in order, follows
\* the same grammar over their text and looks for the caller's stop strings;
\* when it finds one it ends the request and asks the engine to abort, which
\* meanwhile goes on sampling. Neither may cut a call in two.
\*
\* A token is named for what it is to the grammar, its text is a sequence of
\* characters: "<" stands for the character that arms a call, ">" for the one
\* that closes it, "/" for </think>, "a" for any other. Decoding, masks by
\* anything but the grammar and min_tokens, ignore_eos and thinking budgets are
\* left out; one token is one step (no speculation).

EXTENDS Integers, Sequences, SequencesExt

CONSTANTS Stops,       \* the caller's stop strings, in the order given
          StopTokens,  \* the stop tokens a caller may give (at most one each)
          Minima,      \* values of min_tokens
          Budgets,     \* values of final_response_token_budget
          MaxTokens,   \* max_tokens
          None

ASSUME SizesAssumption ==
    /\ MaxTokens \in Nat \ {0}
    /\ Minima \subseteq 0..MaxTokens
    /\ Budgets \subseteq (Nat \ {0}) \cup {None}
    /\ None \notin Nat \cup {"eos", "token", "budget", "length", "string"}
    /\ None \notin Nat \X Nat

TextOf == [plain |-> <<"a">>, open |-> <<"<">>, shut |-> <<">">>,
           tail |-> <<">", "a">>, close |-> <<"/">>, eos |-> <<>>]

Token == DOMAIN TextOf

ASSUME StopsAssumption ==
    /\ Stops \in Seq(Seq({"a", "<", ">", "/"}) \ {<<>>}) /\ Stops # <<>>
    /\ StopTokens \subseteq (Token \cup {None})

VARIABLES ask,       \* what the caller asked for
          out,       \* engine: output_token_ids
          status,    \* engine: "running", or why the request ended
          ended,     \* engine: reasoning is over, the grammar is being followed
          grammar,   \* engine: where the grammar stands
          final,     \* engine: final_response_start_index
          wire,      \* the outputs the front end has not read
          aborting,  \* the front end has sent an abort the engine has not read
          text,      \* front end: output_text
          seen,      \* front end: number of tokens read
          checker,   \* front end: the StructuralTagStopChecker
          sent,      \* front end: number of characters streamed to the client
          result     \* front end: None, or why the client's answer ended

engine == <<out, status, ended, grammar, final>>
front  == <<text, seen, checker, sent, result>>
vars   == <<ask, engine, wire, aborting, front>>

-----------------------------------------------------------------------------
\* The grammar. Free text and calls under "auto"; calls only once one is
\* "forced", and when the model thinks first the forced grammar holds the
\* thinking too, up to its closer.

Start(a) ==
    IF a.choice = "auto" THEN "text" ELSE IF a.thinks THEN "think" ELSE "must"

Complete(g) == g \in {"text", "done"}

Matches(g, c) ==
    /\ g \in {"must", "done"} => c = "<"
    /\ g = "think" => c # "<"

After(g, c) ==
    IF c = "<" THEN "call"
    ELSE IF g = "call" /\ c = ">"
         THEN IF ask.choice = "auto" THEN "text" ELSE "done"
    ELSE IF g = "think" /\ c = "/" THEN "must" ELSE g

Read(g, chars) == FoldLeft(After, g, chars)

Valid(g, chars) ==
    \A i \in DOMAIN chars : Matches(Read(g, SubSeq(chars, 1, i - 1)), chars[i])

\* </think> or an implicit <tool_call> ends the reasoning, once.
Boundary == {"close", "open"}

\* What of a boundary token is content: the tool call's opener, nothing else.
ContentOf(tok) == IF tok = "close" THEN <<>> ELSE TextOf[tok]

-----------------------------------------------------------------------------
\* The engine core.

\* Plausible mistake: the boundary token is dropped with the reasoning.
AdvanceTrimmed(tok) == IF ended THEN TextOf[tok] ELSE <<>>

\* trim_reasoning_for_advance, behind should_advance.
Advance(tok) ==
    IF ended THEN TextOf[tok]
    ELSE IF tok \in Boundary THEN ContentOf(tok) ELSE <<>>

\* Plausible mistake: only what the whole token leaves behind is looked at.
ReadsToComplete(tok) == Complete(Read(grammar, TextOf[tok]))

AllowsTextStop(tok) ==
    \A read \in Prefixes(TextOf[tok]) : Complete(Read(grammar, read))

AllowsStopToken(tok) == Advance(tok) = <<>> \/ AllowsTextStop(tok)

FinalBudgetReached ==
    /\ ask.budget # None /\ final # None
    /\ Len(out) + 1 - final >= ask.budget

FinalStart(tok) ==
    IF ask.budget # None /\ final = None /\ tok = "close"
    THEN Len(out) + 1 ELSE final

\* Plausible mistake: min_tokens is looked at before the budget.
CheckStopMinFirst(tok) ==
    IF Len(out) + 1 < ask.min THEN "running"
    ELSE IF tok = "eos" THEN "eos"
    ELSE IF tok = ask.stopToken /\ AllowsStopToken(tok) THEN "token"
    ELSE IF FinalBudgetReached THEN "budget"
    ELSE IF Len(out) + 1 >= MaxTokens THEN "length" ELSE "running"

CheckStop(tok) ==
    IF Len(out) + 1 < ask.min /\ ~FinalBudgetReached THEN "running"
    ELSE IF tok = "eos" THEN "eos"
    ELSE IF tok = ask.stopToken /\ AllowsStopToken(tok) THEN "token"
    ELSE IF FinalBudgetReached THEN "budget"
    ELSE IF Len(out) + 1 >= MaxTokens THEN "length"
    ELSE "running"

\* The masks: min_tokens hides both kinds of stop, the grammar what it rejects
\* and, until it is complete, EOS.
Masked(tok) ==
    \/ tok \in {"eos", ask.stopToken} /\ Len(out) < ask.min
    \/ ended /\ ~Valid(grammar, TextOf[tok])
    \/ ended /\ tok = "eos" /\ ~Complete(grammar)

Step(tok) ==
    /\ status = "running" /\ ~Masked(tok)
    /\ out' = Append(out, tok)
    /\ final' = FinalStart(tok)
    /\ status' = CheckStop(tok)
    /\ grammar' = Read(grammar, Advance(tok))
    /\ ended' = (ended \/ tok \in Boundary)
    /\ wire' = Append(wire, [tok |-> tok, end |-> CheckStop(tok)])
    /\ UNCHANGED <<ask, aborting, front>>

Abort ==
    /\ aborting
    /\ aborting' = FALSE
    /\ status' = IF status = "running" THEN "aborted" ELSE status
    /\ UNCHANGED <<ask, out, ended, grammar, final, wire, front>>

-----------------------------------------------------------------------------
\* The front end.

\* Characters are counted from 0; a span is <<first, one past the last>>. The
\* spans lie apart and in order, so their list is a set, and the last one is the
\* only one that can end where the next character is.
Protect(spans, i) ==
    LET last == {span \in spans : span[2] = i}
    IN  IF last = {} THEN spans \cup {<<i, i + 1>>}
        ELSE (spans \ last) \cup {<<span[1], i + 1>> : span \in last}

FeedChar(f, c) ==
    LET g == After(f.matcher, c)
    IN  [f EXCEPT !.matcher = g, !.offset = @ + 1,
                  !.spans = IF Complete(f.matcher) /\ Complete(g)
                            THEN @ ELSE Protect(@, f.offset)]

Feed(tok) ==
    IF tok = "eos" \/ ~(checker.ended \/ tok \in Boundary)
    THEN [checker EXCEPT !.offset = @ + Len(TextOf[tok])]
    ELSE IF ~checker.ended /\ ContentOf(tok) = <<>>
    THEN [checker EXCEPT !.ended = TRUE, !.offset = @ + Len(TextOf[tok])]
    ELSE FoldLeft(FeedChar, [checker EXCEPT !.ended = TRUE], TextOf[tok])

Overlaps(spans, from, to) ==
    \E span \in spans : span[1] < to /\ span[2] > from

\* Plausible mistake: a stop that began in earlier text is not looked for.
FindInNew(chars, new, s, spans) ==
    LET Here(i) == /\ SubSeq(chars, i + 1, i + Len(s)) = s
                   /\ ~Overlaps(spans, i, i + Len(s))
        hits    == {i \in (Len(chars) - new)..(Len(chars) - Len(s)) : Here(i)}
    IN  IF hits = {} THEN None ELSE CHOOSE i \in hits : \A j \in hits : i <= j

\* The first match of s in chars that uses one of the last new characters and
\* overlaps no protected span.
Find(chars, new, s, spans) ==
    LET from  == Len(chars) + 1 - new - Len(s)
        Here(i) == /\ i >= from
                   /\ SubSeq(chars, i + 1, i + Len(s)) = s
                   /\ ~Overlaps(spans, i, i + Len(s))
        hits  == {i \in 0..(Len(chars) - Len(s)) : Here(i)}
    IN  IF hits = {} THEN None ELSE CHOOSE i \in hits : \A j \in hits : i <= j

\* check_stop_strings: the match that completes earliest, <<stop, place>>. Which
\* of two that end at one character is chosen by upstream code.
CheckStopStrings(chars, new, spans) ==
    LET place == [k \in DOMAIN Stops |-> Find(chars, new, Stops[k], spans)]
        hits  == {k \in DOMAIN Stops : new > 0 /\ place[k] # None}
        End(k) == place[k] + Len(Stops[k])
    IN  IF hits = {} THEN None
        ELSE LET k == CHOOSE k \in hits : \A l \in hits : End(k) <= End(l)
             IN  <<k, place[k]>>

Longest == CHOOSE n \in {Len(Stops[k]) : k \in DOMAIN Stops} :
               \A k \in DOMAIN Stops : Len(Stops[k]) <= n

DiscardBefore(spans, offset) == {span \in spans : span[2] > offset}

\* Plausible mistake: room for the shortest stop only.
ShortestBuffer ==
    IF ask.include THEN 0
    ELSE (CHOOSE n \in {Len(Stops[k]) : k \in DOMAIN Stops} :
             \A k \in DOMAIN Stops : n <= Len(Stops[k])) - 1

\* Text held back from the stream because a stop may still remove it.
StopBufferLength == IF ask.include THEN 0 ELSE Longest - 1

Update(m) ==
    LET skipped == m.end \in {"eos", "token"} /\ ~ask.include
        fed     == IF skipped THEN checker ELSE Feed(m.tok)
        new     == IF skipped THEN <<>> ELSE TextOf[m.tok]
        stop    == IF seen + 1 > ask.min
                   THEN CheckStopStrings(text \o new, Len(new), fed.spans) ELSE None
        cut     == IF stop = None THEN Len(text \o new)
                   ELSE IF ask.include THEN stop[2] + Len(Stops[stop[1]])
                   ELSE stop[2]
        end     == IF stop # None THEN "string"
                   ELSE IF m.end # "running" THEN m.end ELSE None
        ready   == IF end # None THEN cut ELSE cut - StopBufferLength
    IN  /\ text' = SubSeq(text \o new, 1, cut)
        /\ checker' = [fed EXCEPT !.spans = DiscardBefore(@, cut - Longest)]
        /\ seen' = seen + 1
        /\ result' = end
        /\ aborting' = (stop # None /\ m.end = "running")
        /\ sent' = IF sent < ready THEN ready ELSE sent

Receive ==
    /\ wire # <<>> /\ wire' = Tail(wire)
    /\ IF result = None THEN Update(Head(wire)) ELSE UNCHANGED <<aborting, front>>
    /\ UNCHANGED <<ask, engine>>

-----------------------------------------------------------------------------
Asks == [choice : {"auto", "forced"}, thinks : BOOLEAN, include : BOOLEAN,
         stopToken : StopTokens, min : Minima, budget : Budgets]

Init ==
    /\ ask \in Asks
    /\ out = <<>> /\ status = "running" /\ final = None
    /\ ended = (ask.choice = "forced" \/ ~ask.thinks)
    /\ grammar = Start(ask)
    /\ wire = <<>> /\ aborting = FALSE
    /\ text = <<>> /\ seen = 0 /\ sent = 0 /\ result = None
    /\ checker = [matcher |-> Start(ask), ended |-> ended, offset |-> 0, spans |-> {}]

\* The client has its answer and the engine is done with the request: the only
\* place where everything may stop.
Over ==
    /\ result # None /\ status # "running" /\ wire = <<>> /\ ~aborting
    /\ UNCHANGED vars

Next == (\E tok \in Token : Step(tok)) \/ Receive \/ Abort \/ Over

Spec == Init /\ [][Next]_vars

-----------------------------------------------------------------------------
\* What the text is, told from all of it at once.

Written(n) == FlattenSeq([i \in 1..n |-> TextOf[out[i]]])

\* Number of characters the grammar never reads: the reasoning of an
\* unforced choice, its explicit closer included.
Unread ==
    LET ends == {i \in DOMAIN out : out[i] \in Boundary}
        first == CHOOSE i \in ends : \A j \in ends : i <= j
    IN  IF ask.choice = "forced" \/ ~ask.thinks THEN 0
        ELSE IF ends = {} THEN Len(Written(Len(out)))
        ELSE Len(Written(first)) - Len(ContentOf(out[first]))

\* Where the grammar stands after the first n characters of the output.
StandsAt(n) == Read(Start(ask), SubSeq(Written(Len(out)), Unread + 1, n))

Outside(from, to) == \A n \in from..to : Complete(StandsAt(n))

\* Places <<k, i>> where stop string k lies outside every call, i characters
\* into the first n tokens, and is completed by a token beyond min_tokens.
Occurrences(n) ==
    LET chars == Written(n)
        least == Len(Written(IF ask.min < n THEN ask.min ELSE n))
        Here(k, i) ==
            /\ i + Len(Stops[k]) \in (least + 1)..Len(chars)
            /\ SubSeq(chars, i + 1, i + Len(Stops[k])) = Stops[k]
            /\ Outside(i, i + Len(Stops[k]))
    IN  {o \in (DOMAIN Stops) \X (0..Len(chars)) : Here(o[1], o[2])}

EndOf(o) == o[2] + Len(Stops[o[1]])

\* Tokens whose text the client may be shown: a stopping token is left out
\* unless it was asked for.
Shown == IF result \in {"eos", "token"} /\ ~ask.include THEN seen - 1 ELSE seen

-----------------------------------------------------------------------------
\* A caller's stop never interrupts a call: where the client's text was cut, and
\* where the engine stopped on a caller's token, no call (and no forced choice
\* still waiting for its first call) was open.
CallsStayWhole ==
    /\ result = "string" => Complete(StandsAt(Len(text)))
    /\ status = "token" =>
          Outside(Len(Written(Len(out) - 1)), Len(Written(Len(out))))

\* The incremental search, its window, its protected spans and their disposal
\* find exactly what one search of the whole text finds: the answer is cut at
\* a stop that completes first outside the calls, however far the engine had
\* run ahead, and an answer that was not cut has no such stop.
StopIsTheFirst ==
    LET hits == Occurrences(Shown)
    IN  IF result = "string"
        THEN \E first \in hits :
                /\ \A other \in hits : EndOf(first) <= EndOf(other)
                /\ text = SubSeq(Written(seen), 1, IF ask.include THEN EndOf(first)
                                                   ELSE first[2])
        ELSE hits = {} /\ text = Written(Shown)

\* The two followers of the grammar agree: the engine's, over tokens, and the
\* front end's, over text, whenever the front end has caught up.
SameGrammar ==
    wire = <<>> /\ status = "running" /\ result = None =>
        checker.matcher = grammar /\ checker.ended = ended

\* The limits are hard, min_tokens notwithstanding: no output is longer than
\* max_tokens, no response after the first explicit closer longer than its budget;
\* a request that has used either up is over, and none is ended by its budget
\* before.
LimitsAreExact ==
    LET closers == {i \in DOMAIN out : out[i] = "close"}
        used == IF closers = {} THEN 0
                ELSE Len(out) - CHOOSE i \in closers : \A j \in closers : i <= j
    IN  /\ Len(out) <= MaxTokens
        /\ Len(out) = MaxTokens => status # "running"
        /\ ask.budget # None =>
              /\ used <= ask.budget
              /\ used = ask.budget => status # "running"
              /\ status = "budget" => used = ask.budget

\* What was streamed is never taken back: a cut removes no character the client
\* already has.
DeliveredIsFinal == sent <= Len(text)
=============================================================================
