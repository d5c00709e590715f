----------------------------- MODULE Admission -----------------------------
(***************************************************************************)
(* Admission of generation requests by the one API server process:         *)
(* OutputProcessor's kv_scope_requests and request_states, AsyncLLM's      *)
(* admission and abort, the response that owns the admitted streams, and   *)
(* the channel to the engine core process, which runs what it is sent.     *)
(*                                                                         *)
(* A call is one HTTP request.  Its conversations are generation requests, *)
(* admitted one after the other (a batch) or just one (every other route). *)
(* The coroutines of the event loop interleave where they await: between   *)
(* two admissions, while a submission is under way, between two closes.    *)
(***************************************************************************)
EXTENDS Integers, Sequences, FiniteSets

CONSTANTS Calls, Requests, Conversations, Scopes, ScopeOf, NoRequest

ASSUME CallAssumption == Conversations \in [Calls -> Seq(Requests) \ {<<>>}]
ASSUME ScopeAssumption == ScopeOf \in [Requests -> Scopes]
ASSUME NoRequestAssumption == NoRequest \notin Requests

\* Each request belongs to one place in one call.
ASSUME OwnAssumption ==
  \A c, d \in Calls : \A i \in DOMAIN Conversations[c], j \in DOMAIN Conversations[d] :
    Conversations[c][i] = Conversations[d][j] => c = d /\ i = j

\* A batch that lists one ID twice is refused before any admission.
ASSUME DistinctAssumption ==
  \A c \in Calls : \A i, j \in DOMAIN Conversations[c] :
    ScopeOf[Conversations[c][i]] = ScopeOf[Conversations[c][j]] => i = j

RequestsOf(c) == {Conversations[c][i] : i \in DOMAIN Conversations[c]}

VARIABLES
  phase,      \* each call's coroutine: see Phases
  admitted,   \* how many conversations of each call are admitted
  streams,    \* the admitted streams each call owns and has not closed
  states,     \* OutputProcessor.request_states
  inFlight,   \* OutputProcessor.kv_scope_requests
  toEngine,   \* the messages sent to the engine core and not yet received
  engine,     \* the requests the engine core runs
  outputs     \* the final outputs it has produced and the frontend not seen

frontend == <<phase, admitted, streams>>
vars == <<frontend, states, inFlight, toEngine, engine, outputs>>

\* "sent" and "unsent": suspended in add_request_async, which did or did not
\* reach the engine.  "over": answered, refused, failed or disconnected; what
\* streams are left are being closed.
Phases == {"admitting", "sent", "unsent", "open", "over"}
Messages == [op: {"add", "abort"}, request: Requests]
Add(r) == [op |-> "add", request |-> r]
AbortOf(r) == [op |-> "abort", request |-> r]

\* The conversation that a call admits next, or is submitting.
NextOf(c) == Conversations[c][admitted[c] + 1]
Ended(c) == phase[c] = "over" /\ streams[c] = {}

\* _release_kv_scope: only the entry of this very request is deleted.
Released(r) ==
  [inFlight EXCEPT ![ScopeOf[r]] = IF @ = r THEN NoRequest ELSE @]

\* Mutant: an abort leaves the ID taken.
AbortKeepsScope(r) ==
  /\ states' = states \ {r}
  /\ inFlight' = inFlight
  /\ toEngine' = IF r \in states THEN Append(toEngine, AbortOf(r)) ELSE toEngine

\* AsyncLLM.abort(internal=True): a request without a state is skipped.
Abort(r) ==
  /\ states' = states \ {r}
  /\ inFlight' = IF r \in states THEN Released(r) ELSE inFlight
  /\ toEngine' = IF r \in states THEN Append(toEngine, AbortOf(r)) ELSE toEngine
-----------------------------------------------------------------------------
Init ==
  /\ phase = [c \in Calls |-> "admitting"]
  /\ admitted = [c \in Calls |-> 0]
  /\ streams = [c \in Calls |-> {}]
  /\ states = {} /\ engine = {}
  /\ inFlight = [s \in Scopes |-> NoRequest]
  /\ toEngine = <<>> /\ outputs = <<>>

\* _add_request: add_request takes the ID, add_request_async submits.
Submit(c) ==
  LET r == NextOf(c)
  IN  /\ phase[c] = "admitting" /\ inFlight[ScopeOf[r]] = NoRequest
      /\ inFlight' = [inFlight EXCEPT ![ScopeOf[r]] = r]
      /\ states' = states \cup {r}
      /\ \/ phase' = [phase EXCEPT ![c] = "sent"] /\ toEngine' = Append(toEngine, Add(r))
         \/ phase' = [phase EXCEPT ![c] = "unsent"] /\ toEngine' = toEngine
      /\ UNCHANGED <<admitted, streams, engine, outputs>>

\* Mutant: the response waits for one conversation too many.
SubmitReturnsLate(c) ==
  /\ phase[c] = "sent"
  /\ admitted' = [admitted EXCEPT ![c] = @ + 1]
  /\ streams' = [streams EXCEPT ![c] = @ \cup {NextOf(c)}]
  /\ phase' = [phase EXCEPT ![c] = IF admitted'[c] > Len(Conversations[c])
                                   THEN "open" ELSE "admitting"]
  /\ UNCHANGED <<states, inFlight, toEngine, engine, outputs>>

\* add_request_async returns and admit hands over the stream; after the last
\* one the response owns them all.
SubmitReturns(c) ==
  /\ phase[c] = "sent"
  /\ admitted' = [admitted EXCEPT ![c] = @ + 1]
  /\ streams' = [streams EXCEPT ![c] = @ \cup {NextOf(c)}]
  /\ phase' = [phase EXCEPT ![c] = IF admitted'[c] = Len(Conversations[c])
                                   THEN "open" ELSE "admitting"]
  /\ UNCHANGED <<states, inFlight, toEngine, engine, outputs>>

\* add_request_async raises, or its coroutine is cancelled.
SubmitFails(c) ==
  /\ phase[c] \in {"sent", "unsent"}
  /\ Abort(NextOf(c))
  /\ phase' = [phase EXCEPT ![c] = "over"]
  /\ UNCHANGED <<admitted, streams, engine, outputs>>

\* Mutant: the batch forgets the streams it has admitted.
RefuseKeepsStreams(c) ==
  /\ phase[c] = "admitting" /\ inFlight[ScopeOf[NextOf(c)]] # NoRequest
  /\ phase' = [phase EXCEPT ![c] = "over"]
  /\ streams' = [streams EXCEPT ![c] = {}]
  /\ UNCHANGED <<admitted, states, inFlight, toEngine, engine, outputs>>

\* Mutant: a request is refused while another one runs, whatever its ID.
RefuseWhileBusy(c) ==
  /\ phase[c] = "admitting" /\ states \ streams[c] # {}
  /\ phase' = [phase EXCEPT ![c] = "over"]
  /\ UNCHANGED <<admitted, streams, states, inFlight, toEngine, engine, outputs>>

\* add_request raises: the ID already has a request in flight.
Refuse(c) ==
  /\ phase[c] = "admitting" /\ inFlight[ScopeOf[NextOf(c)]] # NoRequest
  /\ phase' = [phase EXCEPT ![c] = "over"]
  /\ UNCHANGED <<admitted, streams, states, inFlight, toEngine, engine, outputs>>

\* The client goes away, or another conversation is refused for its input.
Disconnect(c) ==
  /\ phase[c] \in {"admitting", "open"}
  /\ phase' = [phase EXCEPT ![c] = "over"]
  /\ UNCHANGED <<admitted, streams, states, inFlight, toEngine, engine, outputs>>

\* A stream of a call that is over is closed, which aborts its request.
CloseStream(c, r) ==
  /\ phase[c] = "over" /\ r \in streams[c]
  /\ Abort(r)
  /\ streams' = [streams EXCEPT ![c] = @ \ {r}]
  /\ UNCHANGED <<phase, admitted, engine, outputs>>

\* Every stream of the response is exhausted.
Answer(c) ==
  /\ phase[c] = "open" /\ streams[c] \cap states = {}
  /\ phase' = [phase EXCEPT ![c] = "over"]
  /\ streams' = [streams EXCEPT ![c] = {}]
  /\ UNCHANGED <<admitted, states, inFlight, toEngine, engine, outputs>>

\* Mutant: submissions overtake aborts.
ReceiveAddsFirst ==
  /\ toEngine # <<>>
  /\ LET adds == {i \in DOMAIN toEngine : toEngine[i].op = "add"}
         n == IF adds = {} THEN 1 ELSE CHOOSE i \in adds : \A j \in adds : i <= j
         m == toEngine[n]
     IN  /\ engine' = IF m.op = "add" THEN engine \cup {m.request} ELSE engine \ {m.request}
         /\ toEngine' = [i \in 1..Len(toEngine) - 1 |-> toEngine[IF i < n THEN i ELSE i + 1]]
  /\ UNCHANGED <<frontend, states, inFlight, outputs>>

\* The engine core takes its next message.
Receive ==
  /\ toEngine # <<>>
  /\ LET m == Head(toEngine)
     IN  engine' = IF m.op = "add" THEN engine \cup {m.request} ELSE engine \ {m.request}
  /\ toEngine' = Tail(toEngine)
  /\ UNCHANGED <<frontend, states, inFlight, outputs>>

\* The engine core finishes a request.
Generate(r) ==
  /\ r \in engine
  /\ engine' = engine \ {r}
  /\ outputs' = Append(outputs, r)
  /\ UNCHANGED <<frontend, states, inFlight, toEngine>>

\* Mutant: the output of a request without a state stays in the channel.
ProcessKnownOutput ==
  /\ outputs # <<>>
  /\ LET r == Head(outputs)
     IN  /\ r \in states
         /\ states' = states \ {r}
         /\ inFlight' = Released(r)
  /\ outputs' = Tail(outputs)
  /\ UNCHANGED <<frontend, toEngine, engine>>

\* process_outputs and _finish_request; an unknown request is ignored.
ProcessOutput ==
  /\ outputs # <<>>
  /\ LET r == Head(outputs)
     IN  /\ states' = states \ {r}
         /\ inFlight' = IF r \in states THEN Released(r) ELSE inFlight
  /\ outputs' = Tail(outputs)
  /\ UNCHANGED <<frontend, toEngine, engine>>

Next ==
  \/ \E c \in Calls : \/ Submit(c) \/ SubmitReturns(c) \/ SubmitFails(c)
                      \/ Refuse(c) \/ Disconnect(c) \/ Answer(c)
                      \/ \E r \in streams[c] : CloseStream(c, r)
  \/ Receive
  \/ \E r \in engine : Generate(r)
  \/ ProcessOutput

Spec == Init /\ [][Next]_vars

\* Some await of add_request_async ends, the engine core receives and generates
\* something (every request has a maximum length), the output handler runs.
\* That no single request starves is not assumed: there are finitely many.
\* Nothing is assumed of clients.
Fairness ==
  /\ WF_vars(\E c \in Calls : SubmitReturns(c) \/ SubmitFails(c))
  /\ WF_vars(Receive)
  /\ WF_vars(\E r \in engine : Generate(r))
  /\ WF_vars(ProcessOutput)

FairSpec == Spec /\ Fairness

-----------------------------------------------------------------------------
TypeOK ==
  /\ phase \in [Calls -> Phases]
  /\ admitted \in [Calls -> Nat]
  /\ streams \in [Calls -> SUBSET Requests]
  /\ states \in SUBSET Requests /\ engine \in SUBSET Requests
  /\ inFlight \in [Scopes -> Requests \cup {NoRequest}]
  /\ toEngine \in Seq(Messages) /\ outputs \in Seq(Requests)
  /\ \A c \in Calls : phase[c] \in {"admitting", "sent", "unsent"} =>
                       admitted[c] + 1 \in DOMAIN Conversations[c]

\* kv_scope_requests and request_states never disagree: an ID is taken by r
\* exactly while r has a state.  So an ID has one request in flight, and no
\* refusal, failure, cancellation or late output leaves an ID taken.
InFlightExact ==
  \A s \in Scopes, r \in Requests : inFlight[s] = r <=> r \in states /\ ScopeOf[r] = s

\* The engine core never runs two requests of one ID, although the frontend
\* frees an ID before the engine core has heard of the abort.
EngineSingleFlight ==
  \A r, s \in engine : ScopeOf[r] = ScopeOf[s] => r = s

\* No work outlives its call: a call that is over and has closed its streams has
\* no request in flight, so a refused, failed or abandoned batch gives back every
\* ID it had taken; and what the engine core runs has a state in the frontend, or
\* an abort already on its way to it.
WorkIsOwned ==
  /\ \A c \in Calls : Ended(c) => RequestsOf(c) \cap states = {}
  /\ \A r \in engine : r \in states \/ \E i \in DOMAIN toEngine : toEngine[i] = AbortOf(r)

\* Overlap is the only reason for this refusal: an earlier request of the same
\* ID is in flight for another call, which has not ended.
RefusedOnlyForOverlap ==
  [][\A c \in Calls : Refuse(c) =>
       \E d \in Calls \ {c} : /\ ~Ended(d)
                              /\ \E r \in RequestsOf(d) \cap states :
                                   ScopeOf[r] = ScopeOf[NextOf(c)]]_vars

\* Every ID is freed, whatever the clients do.
ScopesAreFreed ==
  \A r \in Requests : (r \in states) ~> (r \notin states)
=============================================================================
