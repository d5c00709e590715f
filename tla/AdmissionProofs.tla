-------------------------- MODULE AdmissionProofs --------------------------
(***************************************************************************)
(* Proofs about Admission, for any number of calls, requests and IDs.      *)
(*                                                                         *)
(* What makes EngineSingleFlight true is the order of the channel: an ID   *)
(* is freed by sending the abort of its request, or by a final output that *)
(* the engine core sends after it has stopped running the request; so the  *)
(* submission of the ID's next request is behind the one or the other.     *)
(* Channel says this of the requests the engine core runs (place 0) and of *)
(* the submissions on their way to it (the places of toEngine).            *)
(***************************************************************************)
EXTENDS Admission, SequenceTheorems, TLAPS

Places(q) == 0..Len(q)
AddedAt(q, E, i, r) == (i = 0 /\ r \in E) \/ (i \in 1..Len(q) /\ q[i] = Add(r))
AbortedIn(q, r, i, j) == \E k \in 1..Len(q) : i < k /\ k < j /\ q[k] = AbortOf(r)

Absent(q, E, r) == \A i \in Places(q) : ~AddedAt(q, E, i, r)

\* A request is submitted once.
Once(q, E) ==
  \A r \in Requests : \A i, j \in Places(q) :
    AddedAt(q, E, i, r) /\ AddedAt(q, E, j, r) => i = j

\* Between two submissions of one ID is the abort of the first.
Ordered(q, E) ==
  \A r, s \in Requests : \A i, j \in Places(q) :
    AddedAt(q, E, i, r) /\ AddedAt(q, E, j, s) /\ i <= j
      /\ r # s /\ ScopeOf[r] = ScopeOf[s] => AbortedIn(q, r, i, j)

\* A submission without a state is followed by its abort.
Owned(q, E, S) ==
  \A r \in Requests : \A i \in Places(q) :
    AddedAt(q, E, i, r) => r \in S \/ AbortedIn(q, r, i, Len(q) + 1)

Channel(q, E, S) == Once(q, E) /\ Ordered(q, E) /\ Owned(q, E, S)

\* Conversation i of call c has not been submitted, and may yet be.
Ahead(c, i) ==
  /\ i \in DOMAIN Conversations[c]
  /\ \/ phase[c] = "admitting" /\ i > admitted[c]
     \/ phase[c] \in {"sent", "unsent"} /\ i > admitted[c] + 1

Fresh ==
  \A c \in Calls, i \in Nat : Ahead(c, i) =>
    /\ Absent(toEngine, engine, Conversations[c][i])
    /\ \A j \in 1..Len(outputs) : outputs[j] # Conversations[c][i]

FinishedAbsent ==
  \A j \in 1..Len(outputs) : Absent(toEngine, engine, outputs[j])

\* Call c answers for the state of r: it is submitting r or owns its stream.
Owns(c, r) == r \in streams[c] \/ (phase[c] \in {"sent", "unsent"} /\ r = NextOf(c))

StatesOwned == \A r \in states : \E c \in Calls : Owns(c, r)

StreamsAdmitted ==
  \A c \in Calls : \A r \in streams[c] :
    \E i \in DOMAIN Conversations[c] : i <= admitted[c] /\ r = Conversations[c][i]

IInv ==
  /\ TypeOK
  /\ InFlightExact
  /\ Channel(toEngine, engine, states)
  /\ Fresh
  /\ FinishedAbsent
  /\ StatesOwned
  /\ StreamsAdmitted

-----------------------------------------------------------------------------
(* Lemmas about the channel.                                               *)

LEMMA AppendAt ==
  ASSUME NEW S, NEW q \in Seq(S), NEW m \in S
  PROVE  /\ Append(q, m) \in Seq(S)
         /\ Len(Append(q, m)) = Len(q) + 1 /\ Len(q) \in Nat
         /\ \A i \in 1..Len(q) : Append(q, m)[i] = q[i]
         /\ Append(q, m)[Len(q) + 1] = m
BY AppendProperties, LenProperties

LEMMA TailAt ==
  ASSUME NEW S, NEW q \in Seq(S), q # <<>>
  PROVE  /\ Tail(q) \in Seq(S) /\ Len(q) \in Nat \ {0}
         /\ Len(Tail(q)) = Len(q) - 1
         /\ \A i \in 1..Len(q) - 1 : Tail(q)[i] = q[i + 1]
         /\ Head(q) = q[1] /\ q[1] \in S
BY HeadTailProperties, EmptySeq, LenProperties, ElementOfSeq

LEMMA MessageTypes ==
  ASSUME NEW r \in Requests
  PROVE  Add(r) \in Messages /\ AbortOf(r) \in Messages
BY DEF Add, AbortOf, Messages

\* The messages are distinct.
LEMMA MessagesDiffer ==
  ASSUME NEW r, NEW s
  PROVE  /\ Add(r) # AbortOf(s)
         /\ Add(r) = Add(s) => r = s
         /\ AbortOf(r) = AbortOf(s) => r = s
BY DEF Add, AbortOf

\* Sending an abort keeps the channel in order, and its request may go.
LEMMA AbortSent ==
  ASSUME NEW q \in Seq(Messages), NEW E, NEW S, NEW r \in Requests, Channel(q, E, S)
  PROVE  /\ Channel(Append(q, AbortOf(r)), E, S \ {r})
         /\ \A s \in Requests : Absent(q, E, s) => Absent(Append(q, AbortOf(r)), E, s)
<1> DEFINE p == Append(q, AbortOf(r))
<1>1. /\ p \in Seq(Messages) /\ Len(p) = Len(q) + 1 /\ Len(q) \in Nat
      /\ \A i \in 1..Len(q) : p[i] = q[i]
      /\ p[Len(q) + 1] = AbortOf(r)
  BY AppendAt, MessageTypes
<1>2. \A s \in Requests : \A i \in Places(p) :
        AddedAt(p, E, i, s) => i \in Places(q) /\ AddedAt(q, E, i, s)
  BY <1>1, MessagesDiffer DEF Places, AddedAt
<1>3. \A s, i, j : AbortedIn(q, s, i, j) => AbortedIn(p, s, i, j)
  BY <1>1 DEF AbortedIn
<1>4. Once(p, E)
  BY <1>2 DEF Channel, Once
<1>5. Ordered(p, E)
  BY <1>2, <1>3 DEF Channel, Ordered
<1>6. Owned(p, E, S \ {r})
  <2> SUFFICES ASSUME NEW s \in Requests, NEW i \in Places(p), AddedAt(p, E, i, s)
               PROVE  s \in S \ {r} \/ AbortedIn(p, s, i, Len(p) + 1)
    BY DEF Owned
  <2>1. i \in Places(q) /\ AddedAt(q, E, i, s)
    BY <1>2
  <2>2. CASE s = r
    BY <2>1, <2>2, <1>1 DEF AbortedIn, Places
  <2>3. CASE s # r
    <3>1. s \in S \/ AbortedIn(q, s, i, Len(q) + 1)
      BY <2>1 DEF Channel, Owned
    <3>2. AbortedIn(q, s, i, Len(q) + 1) => AbortedIn(p, s, i, Len(p) + 1)
      BY <1>1, <2>1 DEF AbortedIn, Places
    <3> QED BY <2>3, <3>1, <3>2
  <2> QED BY <2>2, <2>3
<1>7. \A s \in Requests : Absent(q, E, s) => Absent(p, E, s)
  BY <1>2 DEF Absent
<1> QED BY <1>4, <1>5, <1>6, <1>7 DEF Channel

\* Sending a new submission of an ID that no state holds.
LEMMA AddSent ==
  ASSUME NEW q \in Seq(Messages), NEW E, NEW S, NEW r \in Requests, Channel(q, E, S),
         Absent(q, E, r), \A s \in S : ScopeOf[s] # ScopeOf[r]
  PROVE  /\ Channel(Append(q, Add(r)), E, S \cup {r})
         /\ \A s \in Requests \ {r} : Absent(q, E, s) => Absent(Append(q, Add(r)), E, s)
<1> DEFINE p == Append(q, Add(r))
           n == Len(q) + 1
<1>1. /\ p \in Seq(Messages) /\ Len(p) = n /\ Len(q) \in Nat
      /\ \A i \in 1..Len(q) : p[i] = q[i]
      /\ p[n] = Add(r)
  BY AppendAt, MessageTypes
<1>2. \A s \in Requests : \A i \in Places(p) : AddedAt(p, E, i, s) =>
        (i \in Places(q) /\ AddedAt(q, E, i, s) /\ s # r) \/ (i = n /\ s = r)
  <2> SUFFICES ASSUME NEW s \in Requests, NEW i \in Places(p), AddedAt(p, E, i, s)
               PROVE  (i \in Places(q) /\ AddedAt(q, E, i, s) /\ s # r) \/ (i = n /\ s = r)
    OBVIOUS
  <2>1. CASE i = n
    BY <2>1, <1>1, MessagesDiffer DEF AddedAt
  <2>2. CASE i # n
    <3>1. i \in Places(q) /\ AddedAt(q, E, i, s)
      BY <2>2, <1>1 DEF Places, AddedAt
    <3> QED BY <3>1 DEF Absent
  <2> QED BY <2>1, <2>2
<1>3. \A s, i, j : AbortedIn(q, s, i, j) => AbortedIn(p, s, i, j)
  BY <1>1 DEF AbortedIn
<1>4. Once(p, E)
  BY <1>2 DEF Channel, Once
<1>5. Ordered(p, E)
  <2> SUFFICES ASSUME NEW s \in Requests, NEW t \in Requests,
                      NEW i \in Places(p), NEW j \in Places(p),
                      AddedAt(p, E, i, s), AddedAt(p, E, j, t), i <= j,
                      s # t, ScopeOf[s] = ScopeOf[t]
               PROVE  AbortedIn(p, s, i, j)
    BY DEF Ordered
  <2>1. CASE j = n /\ t = r
    <3>1. i \in Places(q) /\ AddedAt(q, E, i, s)
      BY <2>1, <1>2
    <3>2. s \notin S
      BY <2>1
    <3>3. AbortedIn(q, s, i, Len(q) + 1)
      BY <3>1, <3>2 DEF Channel, Owned
    <3> QED BY <3>3, <1>3, <2>1
  <2>2. CASE j \in Places(q) /\ AddedAt(q, E, j, t) /\ t # r
    <3>1. i \in Places(q) /\ AddedAt(q, E, i, s)
      BY <2>2, <1>2, <1>1 DEF Places
    <3>2. AbortedIn(q, s, i, j)
      BY <2>2, <3>1 DEF Channel, Ordered
    <3> QED BY <3>2, <1>3
  <2> QED BY <2>1, <2>2, <1>2
<1>6. Owned(p, E, S \cup {r})
  <2> SUFFICES ASSUME NEW s \in Requests, NEW i \in Places(p), AddedAt(p, E, i, s)
               PROVE  s \in S \cup {r} \/ AbortedIn(p, s, i, Len(p) + 1)
    BY DEF Owned
  <2>1. CASE s = r
    BY <2>1
  <2>2. CASE s # r
    <3>1. i \in Places(q) /\ AddedAt(q, E, i, s)
      BY <2>2, <1>2
    <3>2. s \in S \/ AbortedIn(q, s, i, Len(q) + 1)
      BY <3>1 DEF Channel, Owned
    <3>3. AbortedIn(q, s, i, Len(q) + 1) => AbortedIn(p, s, i, Len(p) + 1)
      BY <1>1, <3>1 DEF AbortedIn, Places
    <3> QED BY <3>2, <3>3
  <2> QED BY <2>1, <2>2
<1>7. \A s \in Requests \ {r} : Absent(q, E, s) => Absent(p, E, s)
  BY <1>2 DEF Absent
<1> QED BY <1>4, <1>5, <1>6, <1>7 DEF Channel

\* A submission that never leaves the frontend.
LEMMA AddUnsent ==
  ASSUME NEW q \in Seq(Messages), NEW E, NEW S, NEW T, S \subseteq T, Channel(q, E, S)
  PROVE  Channel(q, E, T)
<1>1. Owned(q, E, T)
  BY DEF Channel, Owned
<1> QED BY <1>1 DEF Channel

\* A request that is nowhere in the channel may lose its state.
LEMMA StateDropped ==
  ASSUME NEW q \in Seq(Messages), NEW E, NEW S, NEW r \in Requests, Channel(q, E, S),
         Absent(q, E, r)
  PROVE  Channel(q, E, S \ {r})
<1>1. Owned(q, E, S \ {r})
  BY DEF Channel, Owned, Absent
<1> QED BY <1>1 DEF Channel

\* A request that the engine core finishes is nowhere in the channel.
LEMMA Finished ==
  ASSUME NEW q \in Seq(Messages), NEW E \in SUBSET Requests, NEW S, NEW r \in E, Channel(q, E, S)
  PROVE  /\ Channel(q, E \ {r}, S)
         /\ Absent(q, E \ {r}, r)
         /\ \A s \in Requests : Absent(q, E, s) => s # r /\ Absent(q, E \ {r}, s)
<1>1. \A s \in Requests : \A i \in Places(q) :
        AddedAt(q, E \ {r}, i, s) => AddedAt(q, E, i, s)
  BY DEF AddedAt
<1>2. Len(q) \in Nat /\ 0 \in Places(q) /\ AddedAt(q, E, 0, r)
  BY LenProperties DEF Places, AddedAt
<1>3. Absent(q, E \ {r}, r)
  <2> SUFFICES ASSUME NEW i \in Places(q), AddedAt(q, E \ {r}, i, r)
               PROVE  FALSE
    BY DEF Absent
  <2>1. i = 0
    BY <1>1, <1>2 DEF Channel, Once
  <2> QED BY <2>1, <1>2 DEF AddedAt
<1>4. Once(q, E \ {r}) /\ Ordered(q, E \ {r}) /\ Owned(q, E \ {r}, S)
  BY <1>1 DEF Channel, Once, Ordered, Owned
<1>5. \A s \in Requests : Absent(q, E, s) => s # r /\ Absent(q, E \ {r}, s)
  BY <1>1, <1>2 DEF Absent
<1> QED BY <1>3, <1>4, <1>5 DEF Channel

\* What the engine core runs after it has taken its next message.
Running(q, E) ==
  IF Head(q).op = "add" THEN E \cup {Head(q).request} ELSE E \ {Head(q).request}

\* Every place of the channel after a receipt was a place before it.
LEMMA Taken ==
  ASSUME NEW q \in Seq(Messages), q # <<>>, NEW E \in SUBSET Requests,
         NEW s \in Requests, NEW i \in Places(Tail(q)), AddedAt(Tail(q), Running(q, E), i, s)
  PROVE  \/ i + 1 \in Places(q) /\ AddedAt(q, E, i + 1, s)
         \/ i = 0 /\ 0 \in Places(q) /\ AddedAt(q, E, 0, s) /\ q[1] # AbortOf(s)
<1>1. /\ Len(q) \in Nat \ {0} /\ Len(Tail(q)) = Len(q) - 1
      /\ \A k \in 1..Len(q) - 1 : Tail(q)[k] = q[k + 1]
      /\ Head(q) = q[1] /\ q[1] \in Messages
  BY TailAt
<1>2. CASE i = 0
  <2>1. s \in Running(q, E)
    BY <1>2, <1>1 DEF AddedAt
  <2>2. CASE s \in E /\ q[1] # AbortOf(s)
    BY <2>2, <1>1, <1>2 DEF AddedAt, Places
  <2>3. CASE ~(s \in E /\ q[1] # AbortOf(s))
    <3>1. q[1].op = "add" /\ q[1].request = s
      BY <2>1, <2>3, <1>1 DEF Running, AbortOf, Messages
    <3>2. q[1] = Add(s)
      BY <3>1, <1>1 DEF Add, Messages
    <3> QED BY <3>2, <1>1, <1>2 DEF AddedAt, Places
  <2> QED BY <2>2, <2>3
<1>3. CASE i # 0
  <2>1. i \in 1..Len(q) - 1 /\ Tail(q)[i] = Add(s)
    BY <1>3, <1>1 DEF AddedAt
  <2> QED BY <2>1, <1>1 DEF AddedAt, Places
<1> QED BY <1>2, <1>3

\* The engine core takes a message: the channel stays in order.
LEMMA Received ==
  ASSUME NEW q \in Seq(Messages), q # <<>>, NEW E \in SUBSET Requests, NEW S, Channel(q, E, S)
  PROVE  /\ Channel(Tail(q), Running(q, E), S)
         /\ \A s \in Requests : Absent(q, E, s) => Absent(Tail(q), Running(q, E), s)
<1> DEFINE p == Tail(q)
           F == Running(q, E)
<1>1. /\ Len(q) \in Nat \ {0} /\ Len(p) = Len(q) - 1
      /\ \A k \in 1..Len(q) - 1 : p[k] = q[k + 1]
  BY TailAt
<1>2. \A s \in Requests : \A i \in Places(p) : AddedAt(p, F, i, s) =>
        \/ i + 1 \in Places(q) /\ AddedAt(q, E, i + 1, s)
        \/ i = 0 /\ 0 \in Places(q) /\ AddedAt(q, E, 0, s) /\ q[1] # AbortOf(s)
  BY Taken
<1>3. Once(p, F)
  <2> SUFFICES ASSUME NEW s \in Requests, NEW i \in Places(p), NEW j \in Places(p),
                      AddedAt(p, F, i, s), AddedAt(p, F, j, s)
               PROVE  i = j
    BY DEF Once
  <2>1. i \in Nat /\ j \in Nat
    BY <1>1 DEF Places
  <2> QED BY <2>1, <1>2 DEF Channel, Once
\* An abort behind a submission is still behind it.
<1>4. ASSUME NEW s \in Requests, NEW i \in Places(p), NEW j \in Int, NEW k \in {i + 1, 0},
             k = i + 1 \/ (i = 0 /\ q[1] # AbortOf(s)), AbortedIn(q, s, k, j + 1)
      PROVE  AbortedIn(p, s, i, j)
  <2>1. PICK l \in 1..Len(q) : k < l /\ l < j + 1 /\ q[l] = AbortOf(s)
    BY <1>4 DEF AbortedIn
  <2>2. i \in Nat
    BY <1>1 DEF Places
  <2>3. l # 1 \/ k = i + 1
    BY <2>1, <1>4
  <2>4. l - 1 \in 1..Len(p) /\ i < l - 1 /\ l - 1 < j
    BY <2>1, <2>2, <2>3, <1>1, <1>4
  <2>5. p[l - 1] = AbortOf(s)
    BY <2>1, <2>4, <1>1
  <2> QED BY <2>4, <2>5 DEF AbortedIn
<1>5. Ordered(p, F)
  <2> SUFFICES ASSUME NEW s \in Requests, NEW t \in Requests,
                      NEW i \in Places(p), NEW j \in Places(p),
                      AddedAt(p, F, i, s), AddedAt(p, F, j, t), i <= j,
                      s # t, ScopeOf[s] = ScopeOf[t]
               PROVE  AbortedIn(p, s, i, j)
    BY DEF Ordered
  <2>1. i \in Nat /\ j \in Nat
    BY <1>1 DEF Places
  <2>2. PICK k \in {i + 1, 0} : /\ k \in Places(q) /\ AddedAt(q, E, k, s)
                                /\ k = i + 1 \/ (i = 0 /\ q[1] # AbortOf(s))
    BY <1>2
  <2>3. PICK l \in {j + 1, 0} : /\ l \in Places(q) /\ AddedAt(q, E, l, t)
                                /\ l = j + 1 \/ (j = 0 /\ q[1] # AbortOf(t))
    BY <1>2
  <2>4. CASE k <= l
    <3>1. AbortedIn(q, s, k, l)
      BY <2>2, <2>3, <2>4 DEF Channel, Ordered
    <3>2. AbortedIn(q, s, k, j + 1)
      BY <3>1, <2>1, <2>3, <1>1 DEF AbortedIn
    <3> QED BY <3>2, <2>1, <2>2, <1>4
  <2>5. CASE l < k
    <3>1. l = 0 /\ k = 1 /\ i = 0 /\ j = 0
      BY <2>1, <2>2, <2>3, <2>5
    <3>2. AbortedIn(q, t, 0, 1)
      BY <2>2, <2>3, <3>1 DEF Channel, Ordered
    <3> QED BY <3>2, <1>1 DEF AbortedIn
  <2> QED
    <3>1. k \in Int /\ l \in Int
      BY <2>1
    <3> QED BY <3>1, <2>4, <2>5
<1>6. Owned(p, F, S)
  <2> SUFFICES ASSUME NEW s \in Requests, NEW i \in Places(p), AddedAt(p, F, i, s), s \notin S
               PROVE  AbortedIn(p, s, i, Len(p) + 1)
    BY DEF Owned
  <2>1. PICK k \in {i + 1, 0} : /\ k \in Places(q) /\ AddedAt(q, E, k, s)
                                /\ k = i + 1 \/ (i = 0 /\ q[1] # AbortOf(s))
    BY <1>2
  <2>2. AbortedIn(q, s, k, Len(q) + 1)
    BY <2>1 DEF Channel, Owned
  <2>3. Len(q) = Len(p) + 1 /\ Len(p) + 1 \in Int
    BY <1>1
  <2> QED BY <2>1, <2>2, <2>3, <1>4
<1>7. \A s \in Requests : Absent(q, E, s) => Absent(p, F, s)
  BY <1>2 DEF Absent
<1> QED BY <1>3, <1>5, <1>6, <1>7 DEF Channel

-----------------------------------------------------------------------------
(* The invariant.                                                          *)

LEMMA InitIInv == Init => IInv
<1> SUFFICES ASSUME Init
             PROVE  IInv
  OBVIOUS
<1> USE DEF Init
<1>1. TypeOK
  BY CallAssumption, ScopeAssumption, EmptySeq, LenProperties DEF TypeOK, Phases
<1>2. InFlightExact
  BY NoRequestAssumption DEF InFlightExact
<1>3. \A r : Absent(toEngine, engine, r)
  BY EmptySeq DEF Absent, AddedAt, Places
<1>4. Channel(toEngine, engine, states)
  BY <1>3 DEF Channel, Once, Ordered, Owned, Absent
<1>5. Fresh /\ FinishedAbsent
  BY <1>3, EmptySeq DEF Fresh, FinishedAbsent
<1>6. StatesOwned /\ StreamsAdmitted
  BY DEF StatesOwned, StreamsAdmitted
<1> QED BY <1>1, <1>2, <1>4, <1>5, <1>6 DEF IInv

\* The conversation a call is about to submit, or is submitting.
LEMMA NextOfType ==
  ASSUME IInv, NEW c \in Calls, phase[c] \in {"admitting", "sent", "unsent"}
  PROVE  /\ NextOf(c) \in Requests /\ admitted[c] \in Nat
         /\ admitted[c] + 1 \in DOMAIN Conversations[c]
         /\ phase[c] = "admitting" => Ahead(c, admitted[c] + 1)
<1>1. admitted[c] \in Nat /\ admitted[c] + 1 \in DOMAIN Conversations[c]
  BY DEF IInv, TypeOK
<1>2. Conversations[c] \in Seq(Requests)
  BY CallAssumption
<1>3. NextOf(c) \in Requests
  BY <1>1, <1>2, ElementOfSeq, LenProperties DEF NextOf
<1> QED BY <1>1, <1>3 DEF Ahead

\* Dropping the state of r and its entry in kv_scope_requests.
LEMMA DropState ==
  ASSUME IInv, NEW r \in Requests,
         states' = states \ {r},
         inFlight' = IF r \in states THEN Released(r) ELSE inFlight
  PROVE  /\ states' \in SUBSET Requests
         /\ inFlight' \in [Scopes -> Requests \cup {NoRequest}]
         /\ InFlightExact'
<1>1. states \in SUBSET Requests /\ inFlight \in [Scopes -> Requests \cup {NoRequest}]
  BY DEF IInv, TypeOK
<1>2. ScopeOf[r] \in Scopes
  BY ScopeAssumption
<1>3. inFlight' \in [Scopes -> Requests \cup {NoRequest}]
  BY <1>1, <1>2 DEF Released
<1>4. CASE r \in states
  <2>1. inFlight[ScopeOf[r]] = r
    BY <1>2, <1>4 DEF IInv, InFlightExact
  <2>2. \A s \in Scopes : inFlight'[s] = IF s = ScopeOf[r] THEN NoRequest ELSE inFlight[s]
    BY <1>1, <1>2, <1>4, <2>1 DEF Released
  <2>3. InFlightExact'
    BY <1>2, <1>4, <2>2, NoRequestAssumption DEF IInv, InFlightExact
  <2> QED BY <1>1, <1>3, <2>3
<1>5. CASE r \notin states
  BY <1>1, <1>3, <1>5 DEF IInv, InFlightExact
<1> QED BY <1>4, <1>5

\* What Abort does to the frontend's state and to the channel.
LEMMA AbortStep ==
  ASSUME IInv, NEW r \in Requests, Abort(r), UNCHANGED <<engine, outputs>>
  PROVE  /\ states' \in SUBSET Requests
         /\ inFlight' \in [Scopes -> Requests \cup {NoRequest}]
         /\ toEngine' \in Seq(Messages)
         /\ InFlightExact' /\ Channel(toEngine, engine, states)' /\ FinishedAbsent'
         /\ \A s \in Requests : Absent(toEngine, engine, s) => Absent(toEngine, engine, s)'
<1>0. /\ states \in SUBSET Requests /\ toEngine \in Seq(Messages) /\ outputs \in Seq(Requests)
      /\ Channel(toEngine, engine, states)
  BY DEF IInv, TypeOK
<1>1. /\ states' \in SUBSET Requests /\ InFlightExact'
      /\ inFlight' \in [Scopes -> Requests \cup {NoRequest}]
  BY DropState DEF Abort
<1>2. /\ toEngine' \in Seq(Messages) /\ Channel(toEngine', engine, states')
      /\ \A s \in Requests : Absent(toEngine, engine, s) => Absent(toEngine', engine, s)
  <2>1. CASE r \in states
    BY <2>1, <1>0, AbortSent, AppendAt, MessageTypes DEF Abort
  <2>2. CASE r \notin states
    <3>1. states' = states /\ toEngine' = toEngine
      BY <2>2 DEF Abort
    <3> QED BY <3>1, <1>0
  <2> QED BY <2>1, <2>2
<1>3. FinishedAbsent'
  BY <1>0, <1>2, ElementOfSeq DEF IInv, FinishedAbsent
<1> QED BY <1>1, <1>2, <1>3

\* What is ahead stays ahead or is submitted: no step adds to it.
LEMMA FreshKept ==
  ASSUME IInv,
         \A c \in Calls, i \in Nat : Ahead(c, i)' => Ahead(c, i),
         outputs' = outputs,
         \A s \in Requests : Absent(toEngine, engine, s) => Absent(toEngine, engine, s)'
  PROVE  Fresh'
<1>1. \A c \in Calls, i \in Nat : Ahead(c, i) => Conversations[c][i] \in Requests
  BY CallAssumption, ElementOfSeq, LenProperties DEF Ahead
<1> QED BY <1>1 DEF IInv, Fresh

-----------------------------------------------------------------------------
(* One lemma per action.                                                   *)

LEMMA SubmitStep ==
  ASSUME IInv, NEW c \in Calls, Submit(c)
  PROVE  IInv'
<1> DEFINE r == NextOf(c)
<1>0. /\ states \in SUBSET Requests /\ inFlight \in [Scopes -> Requests \cup {NoRequest}]
      /\ toEngine \in Seq(Messages) /\ engine \in SUBSET Requests
      /\ Channel(toEngine, engine, states)
      /\ r \in Requests /\ Ahead(c, admitted[c] + 1) /\ ScopeOf[r] \in Scopes
  BY NextOfType, ScopeAssumption DEF IInv, TypeOK, Submit
<1>1. \A s \in states : ScopeOf[s] # ScopeOf[r]
  BY <1>0, NoRequestAssumption DEF Submit, IInv, InFlightExact
<1>2. Absent(toEngine, engine, r) /\ \A j \in 1..Len(outputs) : outputs[j] # r
  <2>1. admitted[c] + 1 \in Nat
    BY NextOfType DEF Submit
  <2> QED BY <1>0, <2>1 DEF IInv, Fresh, NextOf
<1>3. /\ toEngine' \in Seq(Messages) /\ Channel(toEngine, engine, states)'
      /\ \A s \in Requests \ {r} : Absent(toEngine, engine, s) => Absent(toEngine, engine, s)'
  <2>1. CASE toEngine' = Append(toEngine, Add(r))
    BY <2>1, <1>0, <1>1, <1>2, AddSent, AppendAt, MessageTypes DEF Submit
  <2>2. CASE toEngine' = toEngine
    BY <2>2, <1>0, AddUnsent DEF Submit
  <2> QED BY <2>1, <2>2 DEF Submit
<1>4. TypeOK'
  BY <1>0, <1>3, NextOfType DEF Submit, IInv, TypeOK, Phases
<1>5. InFlightExact'
  BY <1>0, <1>1, NoRequestAssumption DEF Submit, IInv, InFlightExact
<1>6. Fresh'
  <2> SUFFICES ASSUME NEW d \in Calls, NEW i \in Nat, Ahead(d, i)'
               PROVE  /\ Absent(toEngine, engine, Conversations[d][i])'
                      /\ \A j \in 1..Len(outputs') : outputs'[j] # Conversations[d][i]
    BY DEF Fresh
  <2>1. Ahead(d, i) /\ (d = c => i # admitted[c] + 1)
    BY NextOfType DEF Submit, Ahead, IInv, TypeOK
  <2>2. Conversations[d][i] # r
    BY <2>1, <1>0, OwnAssumption DEF NextOf, Ahead
  <2>3. Conversations[d][i] \in Requests
    BY <2>1, CallAssumption, ElementOfSeq, LenProperties DEF Ahead
  <2> QED BY <2>1, <2>2, <2>3, <1>3 DEF Submit, IInv, Fresh
<1>7. FinishedAbsent'
  BY <1>2, <1>3, ElementOfSeq DEF Submit, IInv, TypeOK, FinishedAbsent
<1>8. StatesOwned'
  BY DEF Submit, IInv, TypeOK, StatesOwned, Owns, NextOf
<1>9. StreamsAdmitted'
  BY DEF Submit, IInv, StreamsAdmitted
<1> QED BY <1>3, <1>4, <1>5, <1>6, <1>7, <1>8, <1>9 DEF IInv

LEMMA SubmitReturnsStep ==
  ASSUME IInv, NEW c \in Calls, SubmitReturns(c)
  PROVE  IInv'
<1>0. /\ NextOf(c) \in Requests /\ admitted[c] \in Nat
      /\ admitted[c] + 1 \in DOMAIN Conversations[c]
      /\ DOMAIN Conversations[c] = 1..Len(Conversations[c]) /\ Len(Conversations[c]) \in Nat
      /\ admitted' = [admitted EXCEPT ![c] = admitted[c] + 1]
      /\ streams' = [streams EXCEPT ![c] = streams[c] \cup {NextOf(c)}]
      /\ phase' = [phase EXCEPT ![c] = IF admitted[c] + 1 = Len(Conversations[c])
                                       THEN "open" ELSE "admitting"]
  BY NextOfType, CallAssumption, LenProperties DEF SubmitReturns, IInv, TypeOK
<1>1. TypeOK'
  BY <1>0 DEF SubmitReturns, IInv, TypeOK, Phases
<1>2. InFlightExact' /\ Channel(toEngine, engine, states)' /\ FinishedAbsent'
  BY DEF SubmitReturns, IInv, InFlightExact, FinishedAbsent
<1>3. Fresh'
  <2>1. \A d \in Calls, i \in Nat : Ahead(d, i)' => Ahead(d, i)
    BY <1>0 DEF SubmitReturns, Ahead, IInv, TypeOK
  <2>2. \A s \in Requests : Absent(toEngine, engine, s) => Absent(toEngine, engine, s)'
    BY DEF SubmitReturns
  <2> QED BY <2>1, <2>2, FreshKept DEF SubmitReturns
<1>4. StatesOwned'
  <2> SUFFICES ASSUME NEW s \in states
               PROVE  \E d \in Calls : Owns(d, s)'
    BY DEF SubmitReturns, StatesOwned
  <2>1. PICK d \in Calls : Owns(d, s)
    BY DEF IInv, StatesOwned
  <2>2. CASE d = c
    BY <1>0, <2>1, <2>2 DEF IInv, TypeOK, Owns
  <2>3. CASE d # c
    <3>1. phase'[d] = phase[d] /\ admitted'[d] = admitted[d] /\ streams'[d] = streams[d]
      BY <1>0, <2>3 DEF IInv, TypeOK
    <3> QED BY <2>1, <3>1 DEF Owns, NextOf
  <2> QED BY <2>2, <2>3
<1>5. StreamsAdmitted'
  BY <1>0 DEF SubmitReturns, IInv, TypeOK, StreamsAdmitted, NextOf
<1> QED BY <1>1, <1>2, <1>3, <1>4, <1>5 DEF IInv

LEMMA SubmitFailsStep ==
  ASSUME IInv, NEW c \in Calls, SubmitFails(c)
  PROVE  IInv'
<1>0. NextOf(c) \in Requests
  BY NextOfType DEF SubmitFails
<1>1. /\ states' \in SUBSET Requests
      /\ inFlight' \in [Scopes -> Requests \cup {NoRequest}]
      /\ toEngine' \in Seq(Messages)
      /\ InFlightExact' /\ Channel(toEngine, engine, states)' /\ FinishedAbsent'
      /\ \A s \in Requests : Absent(toEngine, engine, s) => Absent(toEngine, engine, s)'
  BY <1>0, AbortStep DEF SubmitFails
<1>2. TypeOK'
  BY <1>1 DEF SubmitFails, IInv, TypeOK, Phases
<1>3. Fresh'
  <2>1. \A d \in Calls, i \in Nat : Ahead(d, i)' => Ahead(d, i)
    BY DEF SubmitFails, Ahead, IInv, TypeOK
  <2> QED BY <2>1, <1>1, FreshKept DEF SubmitFails
<1>4. StatesOwned'
  <2> SUFFICES ASSUME NEW s \in states'
               PROVE  \E d \in Calls : Owns(d, s)'
    BY DEF StatesOwned
  <2>1. s \in states /\ s # NextOf(c)
    BY DEF SubmitFails, Abort
  <2>2. PICK d \in Calls : Owns(d, s)
    BY <2>1 DEF IInv, StatesOwned
  <2>3. d # c => phase'[d] = phase[d]
    BY DEF SubmitFails, IInv, TypeOK
  <2> QED BY <2>1, <2>2, <2>3 DEF SubmitFails, Owns, NextOf
<1>5. StreamsAdmitted'
  BY DEF SubmitFails, IInv, StreamsAdmitted
<1> QED BY <1>1, <1>2, <1>3, <1>4, <1>5 DEF IInv

\* Refusals and disconnections only change the phase of the call.
LEMMA OverStep ==
  ASSUME IInv, NEW c \in Calls, phase[c] \in {"admitting", "open"},
         phase' = [phase EXCEPT ![c] = "over"],
         UNCHANGED <<admitted, streams, states, inFlight, toEngine, engine, outputs>>
  PROVE  IInv'
<1>1. TypeOK'
  BY DEF IInv, TypeOK, Phases
<1>2. InFlightExact' /\ Channel(toEngine, engine, states)' /\ FinishedAbsent'
  BY DEF IInv, InFlightExact, FinishedAbsent
<1>3. Fresh'
  BY FreshKept DEF Ahead, IInv, TypeOK
<1>4. StatesOwned'
  <2> SUFFICES ASSUME NEW s \in states
               PROVE  \E d \in Calls : Owns(d, s)'
    BY DEF StatesOwned
  <2>1. PICK d \in Calls : Owns(d, s)
    BY DEF IInv, StatesOwned
  <2>2. d # c => phase'[d] = phase[d]
    BY DEF IInv, TypeOK
  <2> QED BY <2>1, <2>2 DEF Owns, NextOf
<1>5. StreamsAdmitted'
  BY DEF IInv, StreamsAdmitted
<1> QED BY <1>1, <1>2, <1>3, <1>4, <1>5 DEF IInv

LEMMA CloseStreamStep ==
  ASSUME IInv, NEW c \in Calls, NEW r \in streams[c], CloseStream(c, r)
  PROVE  IInv'
<1>0. r \in Requests
  BY DEF IInv, TypeOK
<1>1. /\ states' \in SUBSET Requests
      /\ inFlight' \in [Scopes -> Requests \cup {NoRequest}]
      /\ toEngine' \in Seq(Messages)
      /\ InFlightExact' /\ Channel(toEngine, engine, states)' /\ FinishedAbsent'
      /\ \A s \in Requests : Absent(toEngine, engine, s) => Absent(toEngine, engine, s)'
  BY <1>0, AbortStep DEF CloseStream
<1>2. TypeOK'
  BY <1>1 DEF CloseStream, IInv, TypeOK
<1>3. Fresh'
  BY <1>1, FreshKept DEF CloseStream, Ahead
<1>4. StatesOwned'
  <2> SUFFICES ASSUME NEW s \in states'
               PROVE  \E d \in Calls : Owns(d, s)'
    BY DEF StatesOwned
  <2>1. s \in states /\ s # r
    BY DEF CloseStream, Abort
  <2>2. PICK d \in Calls : Owns(d, s)
    BY <2>1 DEF IInv, StatesOwned
  <2>3. s \in streams[d] => s \in streams'[d]
    BY <2>1 DEF CloseStream, IInv, TypeOK
  <2> QED BY <2>2, <2>3 DEF CloseStream, Owns, NextOf
<1>5. StreamsAdmitted'
  BY DEF CloseStream, IInv, TypeOK, StreamsAdmitted
<1> QED BY <1>1, <1>2, <1>3, <1>4, <1>5 DEF IInv

LEMMA AnswerStep ==
  ASSUME IInv, NEW c \in Calls, Answer(c)
  PROVE  IInv'
<1>1. TypeOK'
  BY DEF Answer, IInv, TypeOK, Phases
<1>2. InFlightExact' /\ Channel(toEngine, engine, states)' /\ FinishedAbsent'
  BY DEF Answer, IInv, InFlightExact, FinishedAbsent
<1>3. Fresh'
  BY FreshKept DEF Answer, Ahead, IInv, TypeOK
<1>4. StatesOwned' /\ StreamsAdmitted'
  BY DEF Answer, IInv, TypeOK, StatesOwned, Owns, NextOf, StreamsAdmitted
<1> QED BY <1>1, <1>2, <1>3, <1>4 DEF IInv

LEMMA ReceiveStep ==
  ASSUME IInv, Receive
  PROVE  IInv'
<1>0. /\ toEngine \in Seq(Messages) /\ toEngine # <<>> /\ engine \in SUBSET Requests
      /\ Channel(toEngine, engine, states) /\ outputs \in Seq(Requests)
      /\ engine' = Running(toEngine, engine) /\ toEngine' = Tail(toEngine)
  BY DEF Receive, Running, IInv, TypeOK
<1>1. /\ Channel(toEngine, engine, states)'
      /\ \A s \in Requests : Absent(toEngine, engine, s) => Absent(toEngine, engine, s)'
  BY <1>0, Received DEF Receive
<1>2. TypeOK'
  <2>1. toEngine' \in Seq(Messages) /\ engine' \in SUBSET Requests
    <3>1. toEngine' \in Seq(Messages) /\ Head(toEngine) \in Messages
      BY <1>0, TailAt
    <3>2. Head(toEngine).request \in Requests
      BY <3>1 DEF Messages
    <3> QED BY <1>0, <3>1, <3>2 DEF Running
  <2> QED BY <2>1 DEF Receive, frontend, IInv, TypeOK
<1>3. Fresh'
  BY <1>1, FreshKept DEF Receive, frontend, Ahead
<1>4. FinishedAbsent'
  BY <1>0, <1>1, ElementOfSeq DEF Receive, IInv, FinishedAbsent
<1>5. InFlightExact' /\ StatesOwned' /\ StreamsAdmitted'
  BY DEF Receive, frontend, IInv, InFlightExact, StatesOwned, Owns, NextOf, StreamsAdmitted
<1> QED BY <1>1, <1>2, <1>3, <1>4, <1>5 DEF IInv

LEMMA GenerateStep ==
  ASSUME IInv, NEW r \in engine, Generate(r)
  PROVE  IInv'
<1>0. /\ toEngine \in Seq(Messages) /\ engine \in SUBSET Requests /\ r \in Requests
      /\ Channel(toEngine, engine, states) /\ outputs \in Seq(Requests)
  BY DEF IInv, TypeOK
<1>1. /\ Channel(toEngine, engine, states)' /\ Absent(toEngine, engine, r)'
      /\ \A s \in Requests : Absent(toEngine, engine, s) =>
                               s # r /\ Absent(toEngine, engine, s)'
  BY <1>0, Finished DEF Generate
<1>2. /\ outputs' \in Seq(Requests) /\ Len(outputs') = Len(outputs) + 1 /\ Len(outputs) \in Nat
      /\ \A i \in 1..Len(outputs) : outputs'[i] = outputs[i]
      /\ outputs'[Len(outputs) + 1] = r
  BY <1>0, AppendAt DEF Generate
<1>3. TypeOK'
  BY <1>0, <1>2 DEF Generate, frontend, IInv, TypeOK
<1>4. Fresh'
  <2> SUFFICES ASSUME NEW d \in Calls, NEW i \in Nat, Ahead(d, i)'
               PROVE  /\ Absent(toEngine, engine, Conversations[d][i])'
                      /\ \A j \in 1..Len(outputs') : outputs'[j] # Conversations[d][i]
    BY DEF Fresh
  <2>1. Ahead(d, i)
    BY DEF Generate, frontend, Ahead
  <2>2. Conversations[d][i] \in Requests
    BY <2>1, CallAssumption, ElementOfSeq, LenProperties DEF Ahead
  <2> QED BY <2>1, <2>2, <1>1, <1>2 DEF IInv, Fresh
<1>5. FinishedAbsent'
  BY <1>0, <1>1, <1>2, ElementOfSeq DEF IInv, FinishedAbsent
<1>6. InFlightExact' /\ StatesOwned' /\ StreamsAdmitted'
  BY DEF Generate, frontend, IInv, InFlightExact, StatesOwned, Owns, NextOf, StreamsAdmitted
<1> QED BY <1>1, <1>3, <1>4, <1>5, <1>6 DEF IInv

LEMMA ProcessOutputStep ==
  ASSUME IInv, ProcessOutput
  PROVE  IInv'
<1> DEFINE r == Head(outputs)
<1>0. /\ toEngine \in Seq(Messages) /\ Channel(toEngine, engine, states)
      /\ outputs \in Seq(Requests) /\ outputs # <<>>
      /\ Tail(outputs) \in Seq(Requests) /\ Len(outputs) \in Nat \ {0}
      /\ Len(Tail(outputs)) = Len(outputs) - 1
      /\ \A i \in 1..Len(outputs) - 1 : Tail(outputs)[i] = outputs[i + 1]
      /\ r = outputs[1] /\ r \in Requests
  BY TailAt DEF ProcessOutput, IInv, TypeOK
<1>1. /\ states' \in SUBSET Requests /\ InFlightExact'
      /\ inFlight' \in [Scopes -> Requests \cup {NoRequest}]
  BY <1>0, DropState DEF ProcessOutput
<1>2. Channel(toEngine, engine, states)'
  <2>1. Absent(toEngine, engine, r)
    BY <1>0 DEF IInv, FinishedAbsent
  <2> QED BY <2>1, <1>0, StateDropped DEF ProcessOutput
<1>3. TypeOK'
  BY <1>0, <1>1 DEF ProcessOutput, frontend, IInv, TypeOK
<1>4. Fresh' /\ FinishedAbsent'
  BY <1>0 DEF ProcessOutput, frontend, IInv, Fresh, FinishedAbsent, Ahead
<1>5. StatesOwned' /\ StreamsAdmitted'
  BY DEF ProcessOutput, frontend, IInv, StatesOwned, Owns, NextOf, StreamsAdmitted
<1> QED BY <1>1, <1>2, <1>3, <1>4, <1>5 DEF IInv

LEMMA NextIInv == IInv /\ [Next]_vars => IInv'
<1> SUFFICES ASSUME IInv, [Next]_vars
             PROVE  IInv'
  OBVIOUS
<1>1. ASSUME NEW c \in Calls, Submit(c)
      PROVE  IInv'
  BY <1>1, SubmitStep
<1>2. ASSUME NEW c \in Calls, SubmitReturns(c)
      PROVE  IInv'
  BY <1>2, SubmitReturnsStep
<1>3. ASSUME NEW c \in Calls, SubmitFails(c)
      PROVE  IInv'
  BY <1>3, SubmitFailsStep
<1>4. ASSUME NEW c \in Calls, Refuse(c) \/ Disconnect(c)
      PROVE  IInv'
  BY <1>4, OverStep DEF Refuse, Disconnect
<1>5. ASSUME NEW c \in Calls, Answer(c)
      PROVE  IInv'
  BY <1>5, AnswerStep
<1>6. ASSUME NEW c \in Calls, NEW r \in streams[c], CloseStream(c, r)
      PROVE  IInv'
  BY <1>6, CloseStreamStep
<1>7. CASE Receive
  BY <1>7, ReceiveStep
<1>8. ASSUME NEW r \in engine, Generate(r)
      PROVE  IInv'
  BY <1>8, GenerateStep
<1>9. CASE ProcessOutput
  BY <1>9, ProcessOutputStep
<1>10. CASE UNCHANGED vars
  BY <1>10 DEF vars, frontend, IInv, TypeOK, InFlightExact, Fresh, FinishedAbsent, Ahead,
               StatesOwned, Owns, NextOf, StreamsAdmitted
<1> QED
  BY <1>1, <1>2, <1>3, <1>4, <1>5, <1>6, <1>7, <1>8, <1>9, <1>10 DEF Next

LEMMA Invariance == Spec => []IInv
<1>1. Init => IInv
  BY InitIInv
<1>2. IInv /\ [Next]_vars => IInv'
  BY NextIInv
<1> QED BY <1>1, <1>2, PTL DEF Spec

-----------------------------------------------------------------------------
\* The variables keep their types: no call submits beyond its conversations.
THEOREM TypeCorrect == Spec => []TypeOK
<1>1. IInv => TypeOK
  BY DEF IInv
<1> QED BY <1>1, Invariance, PTL

\* kv_scope_requests always names the requests that have a state, by ID.
THEOREM ScopesAreExact == Spec => []InFlightExact
<1>1. IInv => InFlightExact
  BY DEF IInv
<1> QED BY <1>1, Invariance, PTL

\* The engine core never runs two requests of one ID: both would be at place 0
\* of the channel, with no room for an abort between them.
THEOREM SingleFlight == Spec => []EngineSingleFlight
<1>1. IInv => EngineSingleFlight
  <2> SUFFICES ASSUME IInv, NEW r \in engine, NEW s \in engine,
                      ScopeOf[r] = ScopeOf[s], r # s
               PROVE  FALSE
    BY DEF EngineSingleFlight
  <2>1. /\ r \in Requests /\ s \in Requests /\ 0 \in Places(toEngine)
        /\ AddedAt(toEngine, engine, 0, r) /\ AddedAt(toEngine, engine, 0, s)
    BY LenProperties DEF IInv, TypeOK, Places, AddedAt
  <2>2. AbortedIn(toEngine, r, 0, 0)
    BY <2>1 DEF IInv, Channel, Ordered
  <2> QED BY <2>2, LenProperties DEF AbortedIn, IInv, TypeOK
<1> QED BY <1>1, Invariance, PTL

\* No work outlives its call: what the engine core runs has a state or an abort on
\* the way, and a call that is over and has closed its streams holds no ID.
THEOREM NoOrphanedWork == Spec => []WorkIsOwned
<1>1. ASSUME IInv, NEW r \in engine, r \notin states
      PROVE  \E i \in DOMAIN toEngine : toEngine[i] = AbortOf(r)
  <2>1. /\ r \in Requests /\ 0 \in Places(toEngine)
        /\ AddedAt(toEngine, engine, 0, r) /\ DOMAIN toEngine = 1..Len(toEngine)
    BY <1>1, LenProperties DEF IInv, TypeOK, Places, AddedAt
  <2> QED BY <1>1, <2>1 DEF IInv, Channel, Owned, AbortedIn
<1>2. ASSUME IInv, NEW c \in Calls, Ended(c), NEW r \in RequestsOf(c) \cap states
      PROVE  FALSE
  <2>1. PICK d \in Calls : Owns(d, r)
    BY <1>2 DEF IInv, StatesOwned
  <2>2. \E i \in DOMAIN Conversations[d] : r = Conversations[d][i]
    BY <1>2, <2>1, NextOfType DEF Owns, NextOf, IInv, StreamsAdmitted
  <2>3. d = c
    BY <2>2, OwnAssumption DEF RequestsOf
  <2> QED BY <1>2, <2>1, <2>3 DEF Owns, Ended
<1>3. IInv => WorkIsOwned
  BY <1>1, <1>2 DEF WorkIsOwned
<1> QED BY <1>3, Invariance, PTL

\* A request is refused only while an earlier one of its ID is in flight for a
\* call that has not ended.
THEOREM RefusalsAreJust == Spec => RefusedOnlyForOverlap
<1> DEFINE Just(c) == \E d \in Calls \ {c} :
                        /\ ~Ended(d)
                        /\ \E r \in RequestsOf(d) \cap states : ScopeOf[r] = ScopeOf[NextOf(c)]
<1>1. IInv => \A c \in Calls : Refuse(c) => Just(c)
  <2> SUFFICES ASSUME IInv, NEW c \in Calls, Refuse(c)
               PROVE  Just(c)
    OBVIOUS
  <2> DEFINE r == inFlight[ScopeOf[NextOf(c)]]
  <2>1. /\ NextOf(c) \in Requests /\ ScopeOf[NextOf(c)] \in Scopes
        /\ admitted[c] \in Nat /\ admitted[c] + 1 \in DOMAIN Conversations[c]
    BY NextOfType, ScopeAssumption DEF Refuse
  <2>2. r \in states /\ ScopeOf[r] = ScopeOf[NextOf(c)]
    BY <2>1 DEF Refuse, IInv, TypeOK, InFlightExact
  <2>3. PICK d \in Calls : Owns(d, r)
    BY <2>2 DEF IInv, StatesOwned
  <2>4. r \in RequestsOf(d) /\ ~Ended(d)
    BY <2>3, NextOfType DEF Owns, NextOf, Ended, RequestsOf, IInv, StreamsAdmitted
  <2>5. d # c
    <3> SUFFICES ASSUME d = c
                 PROVE  FALSE
      OBVIOUS
    <3>1. PICK i \in DOMAIN Conversations[c] : i <= admitted[c] /\ r = Conversations[c][i]
      BY <2>3 DEF Owns, Refuse, IInv, StreamsAdmitted
    <3>2. i = admitted[c] + 1
      BY <2>1, <2>2, <3>1, DistinctAssumption DEF NextOf
    <3> QED BY <2>1, <3>1, <3>2
  <2> QED BY <2>2, <2>4, <2>5
<1>2. IInv /\ [Next]_vars => [\A c \in Calls : Refuse(c) => Just(c)]_vars
  BY <1>1
<1> QED BY <1>2, Invariance, PTL DEF Spec, RefusedOnlyForOverlap
=============================================================================
