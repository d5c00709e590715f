-------------------------- MODULE CpuOffloadProofs --------------------------
(***************************************************************************)
(* Proofs about CpuOffload, for any requests, agents, keys and capacity.   *)
(***************************************************************************)
EXTENDS CpuOffload, TLAPS

USE AgentAssumption, KeyAssumption, PrefixAssumption, ContentAssumption, NoRequestAssumption

-----------------------------------------------------------------------------
(* The bookkeeping of contexts, apart from the rows.                       *)

\* The retention state is well formed: its references are exact, only live
\* contexts have keys and requirements, an idle turn is a live context of its
\* agent.
WellFormed(t) ==
  /\ t \in Retention
  /\ \A k \in Keys : t.references[k] = {r \in t.live : k \in t.keys[r]}
  /\ \A r \in Requests \ t.live : t.keys[r] = {}
  /\ \A r \in Requests, k \in Keys : k \notin t.keys[r] => t.required[r][k] = {}
  /\ \A a \in Agents : t.idle[a] # NoRequest => t.idle[a] \in t.live /\ AgentOf[t.idle[a]] = a

\* Every idle turn of u was idle in t, with the same working set.
KeepsIdle(t, u) ==
  \A a \in Agents : u.idle[a] # NoRequest =>
    /\ u.idle[a] = t.idle[a]
    /\ u.keys[u.idle[a]] = t.keys[u.idle[a]]
    /\ u.required[u.idle[a]] = t.required[u.idle[a]]

\* What an order holds after a removal, and after the two kinds of insertion.
LEMMA DropTyping ==
  ASSUME NEW S, NEW R \in SUBSET (S \X S), NEW X
  PROVE  Drop(R, X) \in SUBSET (S \X S) /\ Members(Drop(R, X)) \in SUBSET S
BY DEF Drop, Members

LEMMA PutLastTyping ==
  ASSUME NEW S, NEW R \in SUBSET (S \X S), NEW x \in S
  PROVE  PutLast(R, x) \in SUBSET (S \X S)
<1> DEFINE rest == Drop(R, {x})
<1>1. rest \in SUBSET (S \X S) /\ Members(rest) \in SUBSET S
  BY DropTyping
<1> HIDE DEF rest
<1>2. rest \cup {<<y, x>> : y \in Members(rest)} \cup {<<x, x>>} \in SUBSET (S \X S)
  BY <1>1
<1> QED  BY <1>2 DEF PutLast, rest

LEMMA PutAllLastTyping ==
  ASSUME NEW S, NEW R \in SUBSET (S \X S), NEW X \in SUBSET S
  PROVE  PutAllLast(R, X) \in SUBSET (S \X S)
<1>1. Drop(R, X) \in SUBSET (S \X S) /\ Members(Drop(R, X)) \in SUBSET S
  BY DropTyping
<1> QED  BY <1>1 DEF PutAllLast

\* A call for r gives it a context, and touches no other (_context).
LEMMA TouchWellFormed ==
  ASSUME NEW t, WellFormed(t), NEW r \in Requests
  PROVE  WellFormed(Touch(t, r)) /\ KeepsIdle(t, Touch(t, r)) /\ r \in Touch(t, r).live
<1> DEFINE u == Touch(t, r)
<1>1. t \in Retention
  BY DEF WellFormed
<1>2. /\ u.live = t.live \cup {r}
      /\ u.keys = t.keys /\ u.required = t.required /\ u.references = t.references
      /\ u.agents = [t.agents EXCEPT ![AgentOf[r]] = t.agents[AgentOf[r]] \cup {r}]
      /\ u.order = PutLast(t.order, AgentOf[r]) /\ u.idle = t.idle
  BY <1>1 DEF Touch, Retention
<1>3. PutLast(t.order, AgentOf[r]) \in SUBSET (Agents \X Agents)
  <2>1. t.order \in SUBSET (Agents \X Agents) /\ AgentOf[r] \in Agents
    BY <1>1 DEF Retention
  <2> QED  BY <2>1, PutLastTyping
<1>4. u \in Retention
  BY <1>1, <1>3 DEF Retention, Touch
<1>5. \A k \in Keys : u.references[k] = {s \in u.live : k \in u.keys[s]}
  BY <1>1, <1>2 DEF WellFormed, Retention
<1> HIDE DEF u
<1>6. WellFormed(u)
  BY <1>1, <1>2, <1>4, <1>5 DEF WellFormed
<1>7. KeepsIdle(t, u) /\ r \in u.live
  BY <1>2 DEF KeepsIdle
<1> QED  BY <1>6, <1>7 DEF u

\* Forgetting contexts takes exactly their references and their idle turns.
LEMMA ForgetWellFormed ==
  ASSUME NEW t, WellFormed(t), NEW R \in SUBSET Requests
  PROVE  WellFormed(Forget(t, R)) /\ KeepsIdle(t, Forget(t, R))
<1> DEFINE u == Forget(t, R)
<1>1. t \in Retention
  BY DEF WellFormed
<1>2. /\ u.live = t.live \ R
      /\ u.keys = [r \in Requests |-> IF r \in R THEN {} ELSE t.keys[r]]
      /\ u.required = [r \in Requests |-> IF r \in R THEN [k \in Keys |-> {}] ELSE t.required[r]]
      /\ u.references = [k \in Keys |-> t.references[k] \ {r \in R : k \in t.keys[r]}]
      /\ u.idle = [a \in Agents |-> IF t.idle[a] \in R THEN NoRequest ELSE t.idle[a]]
  BY DEF Forget
<1>3. Drop(t.order, {a \in Agents : t.agents[a] \subseteq R}) \in SUBSET (Agents \X Agents)
  BY <1>1 DEF Drop, Retention
<1>4. u \in Retention
  BY <1>1, <1>3 DEF Forget, Retention
<1> HIDE DEF u
<1>5. \A k \in Keys : u.references[k] = {s \in u.live : k \in u.keys[s]}
  BY <1>1, <1>2 DEF WellFormed, Retention
<1>6. WellFormed(u)
  <2>1. \A r \in Requests \ u.live : u.keys[r] = {}
    BY <1>2 DEF WellFormed
  <2>2. \A r \in Requests, k \in Keys : k \notin u.keys[r] => u.required[r][k] = {}
    BY <1>2 DEF WellFormed
  <2>3. \A a \in Agents : u.idle[a] # NoRequest => u.idle[a] \in u.live /\ AgentOf[u.idle[a]] = a
    BY <1>2 DEF WellFormed
  <2> QED  BY <1>4, <1>5, <2>1, <2>2, <2>3 DEF WellFormed
<1>7. KeepsIdle(t, u)
  BY <1>1, <1>2 DEF KeepsIdle, WellFormed, Retention
<1> QED  BY <1>6, <1>7 DEF u

\* Replacing the working set of a live context keeps the references exact.
LEMMA ReferenceWellFormed ==
  ASSUME NEW t, WellFormed(t), NEW r \in t.live, NEW K \in SUBSET Keys,
         NEW needed \in [Keys -> SUBSET Units],
         \A a \in Agents : t.idle[a] # r
  PROVE  WellFormed(Reference(t, r, K, needed)) /\ KeepsIdle(t, Reference(t, r, K, needed))
<1> DEFINE u == Reference(t, r, K, needed)
           f == [k \in Keys |-> IF k \in K THEN needed[k] ELSE {}]
<1>1. t \in Retention /\ r \in Requests /\ f \in [Keys -> SUBSET Units]
  BY DEF WellFormed, Retention
<1>2. /\ u.live = t.live /\ u.agents = t.agents /\ u.order = t.order /\ u.idle = t.idle
      /\ u.keys = [t.keys EXCEPT ![r] = K]
      /\ u.required = [t.required EXCEPT ![r] = f]
      /\ u.references = [k \in Keys |-> IF k \in K THEN t.references[k] \cup {r}
                                                  ELSE t.references[k] \ {r}]
  BY <1>1 DEF Reference, Retention
<1>3. u \in Retention
  <2> DEFINE g == [k \in Keys |-> IF k \in K THEN t.references[k] \cup {r}
                                             ELSE t.references[k] \ {r}]
  <2>1. g \in [Keys -> SUBSET Requests]
    BY <1>1 DEF Retention
  <2>2. u = [t EXCEPT !.keys = [t.keys EXCEPT ![r] = K],
                      !.required = [t.required EXCEPT ![r] = f], !.references = g]
    BY <1>1 DEF Reference, Retention
  <2> HIDE DEF f, g, u
  <2>3. [t.keys EXCEPT ![r] = K] \in [Requests -> SUBSET Keys]
    BY <1>1 DEF Retention
  <2>4. [t.required EXCEPT ![r] = f] \in [Requests -> [Keys -> SUBSET Units]]
    BY <1>1 DEF Retention
  <2> QED  BY <1>1, <2>1, <2>2, <2>3, <2>4 DEF Retention
<1>4. \A k \in Keys : u.references[k] = {s \in u.live : k \in u.keys[s]}
  BY <1>1, <1>2 DEF WellFormed, Retention
<1>5. \A s \in Requests, k \in Keys : k \notin u.keys[s] => u.required[s][k] = {}
  BY <1>1, <1>2 DEF WellFormed, Retention
<1>6. \A s \in Requests \ u.live : u.keys[s] = {}
  BY <1>1, <1>2 DEF WellFormed, Retention
<1> HIDE DEF u, f
<1>7. WellFormed(u)
  BY <1>2, <1>3, <1>4, <1>5, <1>6 DEF WellFormed
<1>8. KeepsIdle(t, u)
  BY <1>1, <1>2 DEF KeepsIdle, Retention
<1> QED  BY <1>7, <1>8 DEF u

LEMMA KeepsIdleTransitive ==
  ASSUME NEW t, NEW u, NEW v, KeepsIdle(t, u), KeepsIdle(u, v)
  PROVE  KeepsIdle(t, v)
BY DEF KeepsIdle

\* The superseded turn is a request other than r.
LEMMA SupersededTyping ==
  ASSUME NEW t, WellFormed(t), NEW r \in Requests
  PROVE  Superseded(t, r) \in SUBSET Requests /\ r \notin Superseded(t, r)
BY DEF Superseded, WellFormed, Retention

\* retain_context by a running request costs other agents nothing.
LEMMA RetainWellFormed ==
  ASSUME NEW t, WellFormed(t), NEW r \in Requests, NEW K \in SUBSET Keys,
         NEW needed \in [Keys -> SUBSET Units],
         \A a \in Agents : t.idle[a] # r
  PROVE  WellFormed(Retain(t, r, K, needed)) /\ KeepsIdle(t, Retain(t, r, K, needed))
<1> DEFINE u == Touch(t, r)
           v == Reference(u, r, K, needed)
           w == Retain(t, r, K, needed)
<1>1. WellFormed(u) /\ KeepsIdle(t, u) /\ r \in u.live
  BY TouchWellFormed
<1>2. \A a \in Agents : u.idle[a] # r
  BY <1>1 DEF KeepsIdle
<1> HIDE DEF u
<1>3. WellFormed(v) /\ KeepsIdle(u, v)
  BY <1>1, <1>2, ReferenceWellFormed
<1>4. (IF K = {} THEN {} ELSE Superseded(v, r)) \in SUBSET Requests
  BY <1>3, SupersededTyping
<1>5. w = Forget(v, IF K = {} THEN {} ELSE Superseded(v, r))
  BY DEF Retain, u
<1> HIDE DEF v
<1>6. WellFormed(w) /\ KeepsIdle(v, w)
  BY <1>3, <1>4, <1>5, ForgetWellFormed
<1> HIDE DEF w
<1>7. KeepsIdle(t, v)
  BY <1>1, <1>3, KeepsIdleTransitive
<1>8. KeepsIdle(t, w)
  BY <1>6, <1>7, KeepsIdleTransitive
<1> QED  BY <1>6, <1>8 DEF w

-----------------------------------------------------------------------------
(* The inductive invariant.                                                *)

\* An idle turn is a finished request's: no later call of it changes its
\* working set.  A row that is not resident holds nothing.
IInv ==
  /\ TypeOK
  /\ WellFormed(retention)
  /\ \A a \in Agents : retention.idle[a] # NoRequest => phase[retention.idle[a]] = "finished"
  /\ \A k \in Keys \ blocks : available[k] = {}
  /\ RetainedServable

LEMMA InitIInv == Init => IInv
<1> SUFFICES ASSUME Init PROVE IInv
  OBVIOUS
<1>1. Content \in [Keys -> SUBSET Units]
  BY DEF Units
<1>2. NoRetention \in Retention
  BY DEF NoRetention, Retention
<1>3. TypeOK
  BY <1>1, <1>2 DEF Init, TypeOK
<1>4. WellFormed(retention)
  BY <1>2 DEF Init, NoRetention, WellFormed
<1> QED  BY <1>3, <1>4 DEF IInv, Init, NoRetention, RetainedServable

\* A step that leaves the rows of the turns it keeps leaves them servable.
LEMMA ServableKept ==
  ASSUME RetainedServable, KeepsIdle(retention, retention'),
         \A a \in Agents : retention'.idle[a] # NoRequest =>
           \A k \in blocks \cap retention.keys[retention'.idle[a]] :
             k \in blocks' /\ available[k] \subseteq available'[k]
  PROVE  RetainedServable'
<1> SUFFICES ASSUME NEW a \in Agents, retention'.idle[a] # NoRequest
             PROVE  Servable(retention, retention.idle[a])'
  BY DEF RetainedServable
<1>1. Servable(retention, retention.idle[a])
  BY DEF RetainedServable, KeepsIdle
<1>2. /\ retention'.idle[a] = retention.idle[a]
      /\ retention'.keys[retention.idle[a]] = retention.keys[retention.idle[a]]
      /\ retention'.required[retention.idle[a]] = retention.required[retention.idle[a]]
  BY DEF KeepsIdle
<1> QED  BY <1>1, <1>2 DEF Servable, HasContent

\* The first keys of an order are keys of it.
LEMMA FirstTyping ==
  ASSUME NEW R, NEW S, NEW n
  PROVE  First(R, S, n) \subseteq S
BY DEF First

\* The plan evicts only resident idle rows that the released agents' requests
\* alone refer to, and none of the keys being stored.
LEMMA PlanRespectsReferences ==
  ASSUME NEW t, WellFormed(t), evictable \in SUBSET (Keys \X Keys),
         NEW r \in Requests, NEW K \in SUBSET Keys
  PROVE  LET plan == Plan(t, r, K) IN
           /\ RequestsOf(t, plan.victims) \in SUBSET Requests
           /\ plan.evict \in SUBSET (Keys \ K)
           /\ \A k \in plan.evict : t.references[k] \subseteq RequestsOf(t, plan.victims)
<1> DEFINE spare == Reclaimable(t, K, {})
           victims == Victims(t, r, K)
           all == Reclaimable(t, K, RequestsOf(t, victims))
<1>1. t \in Retention
  BY DEF WellFormed
<1>2. Members(t.order) \in SUBSET Agents
  BY <1>1 DEF Retention, Members
<1>3. victims \in SUBSET Agents
  BY <1>2 DEF Victims
<1>4. \A A \in SUBSET Agents : RequestsOf(t, A) \in SUBSET Requests
  BY <1>1 DEF RequestsOf, Retention
<1>5. Members(evictable) \in SUBSET Keys
  BY DEF Members
<1>6. \A R : /\ Reclaimable(t, K, R) \in SUBSET (Keys \ K)
             /\ \A k \in Reclaimable(t, K, R) : t.references[k] \subseteq R
  BY <1>5 DEF Reclaimable
<1>7. CASE Cardinality(spare) >= Deficit(K)
  <2>1. Plan(t, r, K) = [victims |-> {}, evict |-> First(evictable, spare, Deficit(K))]
    BY <1>7 DEF Plan
  <2>2. First(evictable, spare, Deficit(K)) \subseteq spare
    BY FirstTyping
  <2>3. {} \in SUBSET Agents /\ RequestsOf(t, {}) \in SUBSET Requests
    BY <1>4
  <2> HIDE DEF spare
  <2>4. \A k \in spare : k \in Keys \ K /\ t.references[k] \subseteq {}
    BY <1>6 DEF spare
  <2> QED  BY <2>1, <2>2, <2>3, <2>4
<1>8. CASE ~(Cardinality(spare) >= Deficit(K))
  <2>1. Plan(t, r, K) = [victims |-> victims, evict |-> all]
    BY <1>8 DEF Plan
  <2> HIDE DEF victims
  <2> QED  BY <2>1, <1>3, <1>4, <1>6
<1> QED  BY <1>7, <1>8

\* No running request is an idle turn.
LEMMA RunningIsNotIdle ==
  ASSUME IInv, NEW r \in Requests, phase[r] # "finished"
  PROVE  \A a \in Agents : retention.idle[a] # r
BY DEF IInv

\* What a call of r that replaces its working set does to the bookkeeping.
LEMMA RetainCall ==
  ASSUME IInv, NEW r \in Requests, phase[r] = "running", NEW K \in SUBSET Keys,
         NEW needed \in [Keys -> SUBSET Units]
  PROVE  /\ WellFormed(Retain(retention, r, K, needed))
         /\ KeepsIdle(retention, Retain(retention, r, K, needed))
         /\ Retain(retention, r, K, needed) \in Retention
<1>1. WellFormed(retention) /\ \A a \in Agents : retention.idle[a] # r
  BY RunningIsNotIdle DEF IInv
<1>2. WellFormed(Retain(retention, r, K, needed)) /\ KeepsIdle(retention, Retain(retention, r, K, needed))
  BY <1>1, RetainWellFormed
<1> QED  BY <1>2 DEF WellFormed

LEMMA KeepsPhase ==
  ASSUME IInv, KeepsIdle(retention, retention'),
         \A r \in Requests : phase[r] = "finished" => phase'[r] = "finished"
  PROVE  \A a \in Agents : retention'.idle[a] # NoRequest => phase'[retention'.idle[a]] = "finished"
BY DEF IInv, KeepsIdle, WellFormed, Retention

LEMMA NewRequestStep ==
  ASSUME IInv, NEW r \in Requests, OnNewRequest(r)
  PROVE  IInv' /\ KeepsIdle(retention, retention')
<1>1. WellFormed(retention') /\ KeepsIdle(retention, retention')
  BY TouchWellFormed DEF IInv, OnNewRequest
<1>2. TypeOK'
  BY <1>1 DEF IInv, TypeOK, OnNewRequest, rows, WellFormed
<1>3. RetainedServable'
  BY <1>1, ServableKept DEF IInv, OnNewRequest, rows
<1>4. \A s \in Requests : phase[s] = "finished" => phase'[s] = "finished"
  BY DEF OnNewRequest, IInv, TypeOK
<1>5. \A a \in Agents : retention'.idle[a] # NoRequest => phase'[retention'.idle[a]] = "finished"
  BY <1>1, <1>4, KeepsPhase
<1> QED  BY <1>1, <1>2, <1>3, <1>5 DEF IInv, OnNewRequest, rows

LEMMA RetainStep ==
  ASSUME IInv, NEW r \in Requests, NEW K \in SUBSET OffloadKeys[r],
         NEW N \in Choices(K), RetainContext(r, K, N)
  PROVE  IInv' /\ KeepsIdle(retention, retention')
<1>1. need' \in [Requests -> [Keys -> SUBSET Units]]
  BY DEF IInv, TypeOK, RetainContext, Choices
<1>2. WellFormed(retention') /\ KeepsIdle(retention, retention')
  BY <1>1, RetainCall DEF RetainContext
<1>3. TypeOK'
  BY <1>1, <1>2 DEF IInv, TypeOK, RetainContext, rows, WellFormed
<1>4. RetainedServable'
  BY <1>2, ServableKept DEF IInv, RetainContext, rows
<1>5. \A a \in Agents : retention'.idle[a] # NoRequest => phase'[retention'.idle[a]] = "finished"
  BY <1>2, KeepsPhase DEF RetainContext
<1> QED  BY <1>2, <1>3, <1>4, <1>5 DEF IInv, RetainContext, rows

LEMMA PrepareLoadStep ==
  ASSUME IInv, NEW r \in Requests, NEW K \in SUBSET OffloadKeys[r], PrepareLoad(r, K)
  PROVE  IInv' /\ KeepsIdle(retention, retention')
<1>1. need[r] \in [Keys -> SUBSET Units] /\ retention.keys[r] \cup K \in SUBSET Keys
  BY DEF IInv, TypeOK, Retention
<1>2. WellFormed(retention') /\ KeepsIdle(retention, retention')
  BY <1>1, RetainCall DEF PrepareLoad
<1>3. evictable' \in SUBSET (Keys \X Keys)
  BY DropTyping DEF PrepareLoad, IInv, TypeOK
<1>4. refCnt' \in [Keys -> Int] /\ loading' \in [Requests -> SUBSET Keys]
  BY DEF PrepareLoad, IInv, TypeOK
<1>5. TypeOK'
  BY <1>2, <1>3, <1>4 DEF IInv, TypeOK, PrepareLoad, WellFormed
<1>6. RetainedServable'
  BY <1>2, ServableKept DEF IInv, PrepareLoad
<1>7. \A a \in Agents : retention'.idle[a] # NoRequest => phase'[retention'.idle[a]] = "finished"
  BY <1>2, KeepsPhase DEF PrepareLoad
<1> QED  BY <1>2, <1>5, <1>6, <1>7 DEF IInv, PrepareLoad

\* Steps that end a transfer leave the bookkeeping, or forget contexts.
LEMMA CompleteLoadStep ==
  ASSUME IInv, NEW r \in Requests, CompleteLoad(r)
  PROVE  IInv' /\ KeepsIdle(retention, retention')
<1>1. evictable' \in SUBSET (Keys \X Keys)
  BY PutAllLastTyping DEF CompleteLoad, IInv, TypeOK
<1>2. refCnt' \in [Keys -> Int] /\ loading' \in [Requests -> SUBSET Keys]
  BY DEF CompleteLoad, IInv, TypeOK
<1>3. TypeOK'
  BY <1>1, <1>2 DEF IInv, TypeOK, CompleteLoad
<1>4. RetainedServable'
  BY DEF IInv, CompleteLoad, RetainedServable, Servable, HasContent
<1> QED  BY <1>3, <1>4 DEF IInv, CompleteLoad, WellFormed, KeepsIdle

LEMMA CompleteStoreStep ==
  ASSUME IInv, NEW r \in Requests, NEW J \in storing[r], CompleteStore(r, J)
  PROVE  IInv' /\ KeepsIdle(retention, retention')
<1>1. J \in SUBSET Keys
  BY DEF IInv, TypeOK
<1>2. evictable' \in SUBSET (Keys \X Keys)
  BY <1>1, PutAllLastTyping DEF CompleteStore, IInv, TypeOK
<1>3. refCnt' \in [Keys -> Int] /\ storing' \in [Requests -> SUBSET SUBSET Keys]
  BY DEF CompleteStore, IInv, TypeOK
<1>4. TypeOK'
  BY <1>2, <1>3 DEF IInv, TypeOK, CompleteStore
<1>5. RetainedServable'
  BY DEF IInv, CompleteStore, RetainedServable, Servable, HasContent
<1> QED  BY <1>4, <1>5 DEF IInv, CompleteStore, WellFormed, KeepsIdle

LEMMA FailStoreStep ==
  ASSUME IInv, NEW r \in Requests, NEW J \in storing[r], FailStore(r, J)
  PROVE  IInv' /\ KeepsIdle(retention, retention')
<1> DEFINE R == UNION {retention.references[k] : k \in J}
<1>1. J \in SUBSET Keys
  BY DEF IInv, TypeOK
<1>2. R \in SUBSET Requests
  BY <1>1 DEF IInv, TypeOK, Retention
<1>3. retention' = Forget(retention, R)
  BY DEF FailStore
<1> HIDE DEF R
<1>4. WellFormed(retention') /\ KeepsIdle(retention, retention')
  BY <1>2, <1>3, ForgetWellFormed DEF IInv
<1>5. TypeOK'
  <2>1. evictable' \in SUBSET (Keys \X Keys)
    BY DropTyping DEF FailStore, IInv, TypeOK
  <2>2. refCnt' \in [Keys -> Int] /\ storing' \in [Requests -> SUBSET SUBSET Keys]
    BY DEF FailStore, IInv, TypeOK
  <2>3. available' \in [Keys -> SUBSET Units]
    BY DEF FailStore, IInv, TypeOK, RemovedAvailable
  <2> QED  BY <1>4, <2>1, <2>2, <2>3 DEF IInv, TypeOK, FailStore, WellFormed
\* An idle turn that survives refers to none of the failed rows.
<1>6. RetainedServable'
  <2> SUFFICES ASSUME NEW a \in Agents, retention'.idle[a] # NoRequest,
                      NEW k \in blocks \cap retention.keys[retention'.idle[a]]
               PROVE  k \in blocks' /\ available[k] \subseteq available'[k]
    BY <1>4, ServableKept DEF IInv
  <2>1. k \in Keys /\ retention'.idle[a] \in retention.live \ R
    BY <1>3, <1>4 DEF IInv, TypeOK, WellFormed, Forget
  <2>2. retention'.idle[a] \in retention.references[k]
    BY <2>1 DEF IInv, WellFormed
  <2>3. k \notin J
    BY <2>1, <2>2 DEF R
  <2> QED  BY <2>1, <2>3 DEF FailStore, RemovedAvailable
<1>7. \A a \in Agents : retention'.idle[a] # NoRequest => phase'[retention'.idle[a]] = "finished"
  BY <1>4, KeepsPhase DEF FailStore
<1>8. \A k \in Keys \ blocks' : available'[k] = {}
  BY DEF FailStore, IInv, RemovedAvailable
<1> QED  BY <1>4, <1>5, <1>6, <1>7, <1>8 DEF IInv

LEMMA StoreNothingStep ==
  ASSUME IInv, NEW r \in Requests, phase[r] = "running", NEW K \in SUBSET OffloadKeys[r],
         NEW f \in Choices(K), StoreNothing(r, K, f), UNCHANGED <<phase, need, loading>>
  PROVE  IInv' /\ KeepsIdle(retention, retention')
<1>1. need[r] \in [Keys -> SUBSET Units] /\ retention.keys[r] \cup K \in SUBSET Keys
  BY DEF IInv, TypeOK, Retention
<1>2. WellFormed(retention') /\ KeepsIdle(retention, retention')
  BY <1>1, RetainCall DEF StoreNothing
<1>3. TypeOK'
  BY <1>2 DEF IInv, TypeOK, StoreNothing, rows, WellFormed
<1>4. RetainedServable'
  BY <1>2, ServableKept DEF IInv, StoreNothing, rows
<1>5. \A a \in Agents : retention'.idle[a] # NoRequest => phase'[retention'.idle[a]] = "finished"
  BY <1>2, KeepsPhase
<1> QED  BY <1>2, <1>3, <1>4, <1>5 DEF IInv, StoreNothing, rows

LEMMA StoreAdmittedStep ==
  ASSUME IInv, NEW r \in Requests, phase[r] = "running", NEW K \in SUBSET OffloadKeys[r],
         NEW f \in Choices(K), StoreAdmitted(r, K, f), UNCHANGED <<phase, need, loading>>
  PROVE  IInv' /\ KeepsIdle(retention, retention')
<1> DEFINE t == Retain(retention, r, retention.keys[r] \cup K, need[r])
           upgrades == Upgrades(K, f)
           write == NewKeys(K) \cup upgrades
           plan == Plan(t, r, K)
           R == RequestsOf(t, plan.victims)
           content(k) == IF k \in upgrades THEN available[k] \cup f[k] ELSE f[k]
<1>1. need[r] \in [Keys -> SUBSET Units] /\ retention.keys[r] \cup K \in SUBSET Keys
  BY DEF IInv, TypeOK, Retention
<1>2. WellFormed(t) /\ KeepsIdle(retention, t)
  BY <1>1, RetainCall
<1>3. K \in SUBSET Keys /\ evictable \in SUBSET (Keys \X Keys)
  BY DEF IInv, TypeOK
<1>4. /\ R \in SUBSET Requests
      /\ plan.evict \in SUBSET (Keys \ K)
      /\ \A k \in plan.evict : t.references[k] \subseteq R
  <2> HIDE DEF t
  <2> QED  BY <1>2, <1>3, PlanRespectsReferences
<1>5. write \in SUBSET K /\ \A k \in write : content(k) \in SUBSET Units /\ (k \in blocks => k \in upgrades)
  BY <1>3 DEF Upgrades, NewKeys, Choices, IInv, TypeOK
<1>6. /\ retention' = Forget(t, R)
      /\ blocks' = (blocks \ plan.evict) \cup write
      /\ refCnt' = [k \in Keys |-> IF k \in write THEN -1 ELSE refCnt[k]]
      /\ available' = [k \in Keys |-> IF k \in write THEN content(k)
                                                     ELSE RemovedAvailable(plan.evict)[k]]
      /\ complete' = (complete \ plan.evict) \cup {k \in write : content(k) = Content[k]}
      /\ evictable' = Drop(evictable, plan.evict \cup upgrades)
      /\ storing' = [storing EXCEPT ![r] = @ \cup {write}]
  BY DEF StoreAdmitted
<1>7. \A k \in upgrades : available[k] \subseteq content(k)
  OBVIOUS
<1> HIDE DEF t, upgrades, write, plan, R, content
<1>8. WellFormed(retention') /\ KeepsIdle(t, retention')
  BY <1>2, <1>4, <1>6, ForgetWellFormed
<1>9. KeepsIdle(retention, retention')
  BY <1>2, <1>8, KeepsIdleTransitive
<1>10. TypeOK'
  <2>1. evictable' \in SUBSET (Keys \X Keys)
    <3>1. \A X : Drop(evictable, X) \in SUBSET (Keys \X Keys)
      BY <1>3 DEF Drop
    <3> QED  BY <1>6, <3>1
  <2>2. refCnt' \in [Keys -> Int] /\ storing' \in [Requests -> SUBSET SUBSET Keys]
    BY <1>3, <1>5, <1>6 DEF IInv, TypeOK
  <2>3. available' \in [Keys -> SUBSET Units]
    BY <1>5, <1>6 DEF IInv, TypeOK, RemovedAvailable
  <2>4. blocks' \in SUBSET Keys /\ complete' \in SUBSET Keys
    BY <1>3, <1>5, <1>6 DEF IInv, TypeOK
  <2> QED  BY <1>8, <2>1, <2>2, <2>3, <2>4 DEF IInv, TypeOK, WellFormed
\* A surviving turn refers to no evicted row, and writes only add to its rows.
<1>11. RetainedServable'
  <2> SUFFICES ASSUME NEW a \in Agents, retention'.idle[a] # NoRequest,
                      NEW k \in blocks \cap retention.keys[retention'.idle[a]]
               PROVE  k \in blocks' /\ available[k] \subseteq available'[k]
    BY <1>9, ServableKept DEF IInv
  <2> DEFINE i == retention'.idle[a]
  <2>1. k \in Keys /\ i \in t.live \ R
    BY <1>6, <1>8 DEF IInv, TypeOK, WellFormed, Forget
  <2>2. i = t.idle[a] /\ t.keys[i] = retention.keys[i]
    BY <1>2, <1>8 DEF KeepsIdle
  <2>3. i \in t.references[k]
    BY <1>2, <2>1, <2>2 DEF WellFormed
  <2>4. k \notin plan.evict
    BY <1>4, <2>1, <2>3
  <2>5. k \in write => k \in upgrades
    BY <1>5
  <2> QED  BY <1>6, <1>7, <2>1, <2>4, <2>5 DEF RemovedAvailable
<1>12. \A a \in Agents : retention'.idle[a] # NoRequest => phase'[retention'.idle[a]] = "finished"
  BY <1>9, KeepsPhase
<1>13. \A k \in Keys \ blocks' : available'[k] = {}
  BY <1>6 DEF IInv, RemovedAvailable
<1> QED  BY <1>8, <1>9, <1>10, <1>11, <1>12, <1>13 DEF IInv

\* Keeping r as the idle turn of its agent.
LEMMA KeepWellFormed ==
  ASSUME NEW t, WellFormed(t), NEW r \in t.live, \A a \in Agents : t.idle[a] # r
  PROVE  /\ WellFormed(Keep(t, r))
         /\ \A a \in Agents : Keep(t, r).idle[a] # NoRequest =>
              LET i == Keep(t, r).idle[a] IN
                /\ i = r \/ i = t.idle[a]
                /\ i = r => a = AgentOf[r]
                /\ Keep(t, r).keys[i] = t.keys[i]
                /\ Keep(t, r).required[i] = t.required[i]
<1> DEFINE S == Superseded(t, r)
           u == Forget(t, S)
           v == [u EXCEPT !.idle[AgentOf[r]] = r]
           idlers == {a \in Agents : v.idle[a] # NoRequest}
           excess == First(v.order, idlers, Cardinality(idlers) - NumBlocks)
           X == {v.idle[a] : a \in excess}
           w == Keep(t, r)
<1>1. r \in Requests /\ AgentOf[r] \in Agents
  BY DEF WellFormed, Retention
<1>2. S \in SUBSET Requests /\ r \notin S
  BY <1>1, SupersededTyping
<1>3. w = Forget(v, X)
  BY DEF Keep
<1> HIDE DEF S
<1>4. WellFormed(u) /\ KeepsIdle(t, u)
  BY <1>2, ForgetWellFormed
<1>5. r \in u.live /\ u.keys[r] = t.keys[r] /\ u.required[r] = t.required[r]
  BY <1>1, <1>2 DEF Forget
<1> HIDE DEF u
<1>6. /\ v.live = u.live /\ v.keys = u.keys /\ v.required = u.required
      /\ v.references = u.references /\ v.agents = u.agents /\ v.order = u.order
      /\ v.idle = [u.idle EXCEPT ![AgentOf[r]] = r]
  BY <1>4 DEF WellFormed, Retention
<1>7. v \in Retention
  BY <1>1, <1>4 DEF WellFormed, Retention
<1> HIDE DEF v
<1>8. WellFormed(v)
  <2>1. \A a \in Agents : v.idle[a] # NoRequest => v.idle[a] \in v.live /\ AgentOf[v.idle[a]] = a
    BY <1>1, <1>4, <1>5, <1>6 DEF WellFormed, Retention
  <2> QED  BY <1>4, <1>6, <1>7, <2>1 DEF WellFormed
<1>9. X \in SUBSET Requests
  <2>1. excess \subseteq idlers
    BY FirstTyping
  <2> HIDE DEF excess
  <2> QED  BY <1>7, <2>1 DEF Retention
<1> HIDE DEF X, w
<1>10. WellFormed(w) /\ KeepsIdle(v, w)
  BY <1>3, <1>8, <1>9, ForgetWellFormed
<1>11. ASSUME NEW a \in Agents, w.idle[a] # NoRequest
       PROVE  /\ w.idle[a] = r \/ w.idle[a] = t.idle[a]
              /\ w.idle[a] = r => a = AgentOf[r]
              /\ w.keys[w.idle[a]] = t.keys[w.idle[a]]
              /\ w.required[w.idle[a]] = t.required[w.idle[a]]
  <2>1. /\ w.idle[a] = v.idle[a] /\ w.keys[w.idle[a]] = u.keys[w.idle[a]]
        /\ w.required[w.idle[a]] = u.required[w.idle[a]]
    BY <1>6, <1>10, <1>11 DEF KeepsIdle
  <2>2. CASE a = AgentOf[r]
    <3>1. w.idle[a] = r
      BY <1>1, <1>4, <1>6, <2>1, <2>2 DEF WellFormed, Retention
    <3> QED  BY <1>5, <2>1, <2>2, <3>1
  <2>3. CASE a # AgentOf[r]
    <3>1. w.idle[a] = u.idle[a] /\ u.idle[a] # NoRequest
      BY <1>4, <1>6, <1>11, <2>1, <2>3 DEF WellFormed, Retention
    <3>2. w.idle[a] = t.idle[a] /\ w.idle[a] # r
      BY <1>4, <3>1 DEF KeepsIdle
    <3> QED  BY <1>4, <2>1, <3>1, <3>2 DEF KeepsIdle
  <2> QED  BY <2>2, <2>3
<1> QED  BY <1>10, <1>11 DEF w

\* What the end of request r does to the idle turns: r's own may be the new one.
LEMMA FinishEffect ==
  ASSUME IInv, NEW r \in Requests, OnRequestFinished(r)
  PROVE  /\ WellFormed(retention')
         /\ \A a \in Agents : retention'.idle[a] # NoRequest =>
              LET i == retention'.idle[a] IN
                /\ (i = r /\ a = AgentOf[r] /\ Servable(retention, r)) \/ i = retention.idle[a]
                /\ retention'.keys[i] = retention.keys[i]
                /\ retention'.required[i] = retention.required[i]
<1>1. \A a \in Agents : retention.idle[a] # r
  BY RunningIsNotIdle DEF OnRequestFinished
<1>2. CASE r \notin retention.live
  BY <1>2 DEF IInv, OnRequestFinished
<1>3. CASE r \in retention.live /\ Servable(retention, r)
  <2>1. WellFormed(retention)
    BY DEF IInv
  <2>2. retention' = Keep(retention, r)
    BY <1>3 DEF OnRequestFinished
  <2> QED  BY <1>1, <1>3, <2>1, <2>2, KeepWellFormed
<1>4. CASE r \in retention.live /\ ~Servable(retention, r)
  <2>1. retention' = Forget(retention, {r})
    BY <1>4 DEF OnRequestFinished
  <2>2. WellFormed(retention') /\ KeepsIdle(retention, retention')
    BY <2>1, ForgetWellFormed DEF IInv
  <2> QED  BY <2>2 DEF KeepsIdle
<1> QED  BY <1>2, <1>3, <1>4

LEMMA FinishStep ==
  ASSUME IInv, NEW r \in Requests, OnRequestFinished(r)
  PROVE  IInv'
<1>1. phase[r] = "running" /\ phase' = [phase EXCEPT ![r] = "finished"]
      /\ UNCHANGED <<rows, loading, storing>>
  BY DEF OnRequestFinished
<1>3. /\ WellFormed(retention')
      /\ \A a \in Agents : retention'.idle[a] # NoRequest =>
           LET i == retention'.idle[a] IN
             /\ (i = r /\ Servable(retention, r)) \/ i = retention.idle[a]
             /\ retention'.keys[i] = retention.keys[i]
             /\ retention'.required[i] = retention.required[i]
  BY FinishEffect
<1>4. Content \in [Keys -> SUBSET Units]
  BY DEF Units
<1>5. need' \in [Requests -> [Keys -> SUBSET Units]]
  BY <1>4 DEF OnRequestFinished, IInv, TypeOK
<1>6. TypeOK'
  BY <1>1, <1>3, <1>5 DEF IInv, TypeOK, rows, WellFormed
<1>7. RetainedServable'
  <2> SUFFICES ASSUME NEW a \in Agents, retention'.idle[a] # NoRequest
               PROVE  Servable(retention, retention.idle[a])'
    BY DEF RetainedServable
  <2> DEFINE i == retention'.idle[a]
  <2>1. Servable(retention, i)
    BY <1>3 DEF IInv, RetainedServable
  <2>2. retention'.keys[i] = retention.keys[i] /\ retention'.required[i] = retention.required[i]
    BY <1>3
  <2> QED  BY <1>1, <2>1, <2>2 DEF Servable, HasContent, rows
<1>8. \A a \in Agents : retention'.idle[a] # NoRequest => phase'[retention'.idle[a]] = "finished"
  BY <1>1, <1>3 DEF IInv, TypeOK, WellFormed, Retention
<1>9. \A k \in Keys \ blocks' : available'[k] = {}
  BY <1>1 DEF IInv, rows
<1> QED  BY <1>3, <1>6, <1>7, <1>8, <1>9 DEF IInv

LEMMA ResetStep == IInv /\ ResetCache => IInv' /\ KeepsIdle(retention, retention')
<1> SUFFICES ASSUME IInv, ResetCache PROVE IInv' /\ KeepsIdle(retention, retention')
  OBVIOUS
<1>1. NoRetention \in Retention
  BY DEF NoRetention, Retention
<1>2. TypeOK'
  BY <1>1 DEF ResetCache, IInv, TypeOK
<1>3. WellFormed(retention') /\ \A a \in Agents : retention'.idle[a] = NoRequest
  BY <1>1 DEF ResetCache, NoRetention, WellFormed
<1> QED  BY <1>2, <1>3 DEF IInv, ResetCache, RetainedServable, KeepsIdle

\* Only the end of a request gives an agent a turn it did not have.
LEMMA NextStep ==
  ASSUME IInv, [Next]_vars
  PROVE  /\ IInv'
         /\ KeepsIdle(retention, retention') \/ \E r \in Requests : OnRequestFinished(r)
<1> DEFINE Goal == IInv' /\ (KeepsIdle(retention, retention')
                             \/ \E r \in Requests : OnRequestFinished(r))
<1>1. ASSUME NEW r \in Requests, OnNewRequest(r) PROVE Goal
  BY <1>1, NewRequestStep
<1>2. ASSUME NEW r \in Requests, CompleteLoad(r) PROVE Goal
  BY <1>2, CompleteLoadStep
<1>3. ASSUME NEW r \in Requests, OnRequestFinished(r) PROVE Goal
  BY <1>3, FinishStep
<1>4. ASSUME NEW r \in Requests, NEW K \in SUBSET OffloadKeys[r], PrepareLoad(r, K) PROVE Goal
  BY <1>4, PrepareLoadStep
<1>5. ASSUME NEW r \in Requests, NEW K \in SUBSET OffloadKeys[r], NEW f \in Choices(K),
             RetainContext(r, K, f) PROVE Goal
  BY <1>5, RetainStep
<1>6. ASSUME NEW r \in Requests, NEW K \in SUBSET OffloadKeys[r], NEW f \in Choices(K),
             PrepareStore(r, K, f) PROVE Goal
  <2>1. phase[r] = "running" /\ UNCHANGED <<phase, need, loading>>
    BY <1>6 DEF PrepareStore
  <2>2. CASE StoreNothing(r, K, f)
    BY <2>1, <2>2, StoreNothingStep
  <2>3. CASE StoreAdmitted(r, K, f)
    BY <2>1, <2>3, StoreAdmittedStep
  <2> QED  BY <1>6, <2>2, <2>3 DEF PrepareStore
<1>7. ASSUME NEW r \in Requests, NEW J \in storing[r], CompleteStore(r, J) PROVE Goal
  BY <1>7, CompleteStoreStep
<1>8. ASSUME NEW r \in Requests, NEW J \in storing[r], FailStore(r, J) PROVE Goal
  BY <1>8, FailStoreStep
<1>9. ASSUME ResetCache PROVE Goal
  BY <1>9, ResetStep
<1>10. ASSUME UNCHANGED vars PROVE Goal
  <2>1. TypeOK' /\ RetainedServable'
    BY <1>10 DEF vars, rows, IInv, TypeOK, RetainedServable, Servable, HasContent
  <2>2. WellFormed(retention') /\ KeepsIdle(retention, retention')
    BY <1>10 DEF vars, IInv, KeepsIdle
  <2> QED  BY <1>10, <2>1, <2>2 DEF vars, rows, IInv
<1> SUFFICES Goal
  OBVIOUS
<1> HIDE DEF Goal
<1>11. CASE \E r \in Requests : \E K \in SUBSET OffloadKeys[r] :
              \/ PrepareLoad(r, K)
              \/ \E f \in Choices(K) : RetainContext(r, K, f) \/ PrepareStore(r, K, f)
  BY <1>4, <1>5, <1>6, <1>11
<1>12. CASE \E r \in Requests : \E J \in storing[r] : CompleteStore(r, J) \/ FailStore(r, J)
  BY <1>7, <1>8, <1>12
<1>13. CASE \E r \in Requests : OnNewRequest(r) \/ CompleteLoad(r) \/ OnRequestFinished(r)
  BY <1>1, <1>2, <1>3, <1>13
<1> QED  BY <1>9, <1>10, <1>11, <1>12, <1>13 DEF Next

LEMMA NextIInv == IInv /\ [Next]_vars => IInv'
BY NextStep

-----------------------------------------------------------------------------
(* Theorems.                                                               *)

\* The strengthened invariant holds of every execution of the manager.
THEOREM Invariance == Spec => []IInv
BY InitIInv, NextIInv, PTL DEF Spec

\* The manager's state and the scheduler's jobs keep their types.
THEOREM TypeCorrect == Spec => []TypeOK
<1>1. IInv => TypeOK
  BY DEF IInv
<1> QED  BY <1>1, Invariance, PTL

\* _references is always the exact inverse of the contexts' keys, through
\* retention, whole-agent release, failed transfers, the bound and resets.
THEOREM ReferencesAreExact == Spec => []ReferencesExact
<1>1. IInv => ReferencesExact
  BY DEF IInv, WellFormed, ReferencesExact
<1> QED  BY <1>1, Invariance, PTL

\* Every turn the tier retains for an agent's next request can be resumed: no
\* eviction, fill, failure or interleaving leaves it with a row missing or short.
THEOREM RetainedTurnsAreServable == Spec => []RetainedServable
<1>1. IInv => RetainedServable
  BY DEF IInv
<1> QED  BY <1>1, Invariance, PTL

-----------------------------------------------------------------------------
(* The manager implements AgentRetention.                                  *)

\* The abstract state is well typed, and covers what it promises.
PromiseCovered ==
  /\ Retained \in [Agents -> [Keys -> SUBSET Units]]
  /\ \A a \in Agents : Promise!Covers(available, Retained[a])

LEMMA RetainedIsPromise == IInv => PromiseCovered
<1> SUFFICES ASSUME IInv PROVE PromiseCovered
  OBVIOUS
<1>1. Retained \in [Agents -> [Keys -> SUBSET Units]]
  BY DEF IInv, WellFormed, Retained, Retention
<1>2. ASSUME NEW a \in Agents, NEW k \in Keys PROVE Retained[a][k] \subseteq available[k]
  <2>1. CASE retention.idle[a] = NoRequest
    BY <2>1 DEF Retained
  <2>2. CASE retention.idle[a] # NoRequest
    <3>1. Servable(retention, retention.idle[a]) /\ retention.idle[a] \in Requests
      BY <2>2 DEF IInv, RetainedServable, WellFormed, Retention
    <3>2. k \notin retention.keys[retention.idle[a]] => retention.required[retention.idle[a]][k] = {}
      BY <3>1 DEF IInv, WellFormed
    <3> QED  BY <2>2, <3>1, <3>2 DEF Retained, Servable, HasContent
  <2> QED  BY <2>1, <2>2
<1> QED  BY <1>1, <1>2 DEF Promise!Covers, PromiseCovered

\* Every execution of the manager, seen through the idle turns' requirements
\* and the rows' contents, is one that AgentRetention allows: a retained turn
\* stays whole until it is dropped as a whole.
THEOREM ManagerKeepsPromise == Spec => KeepsPromise
<1>1. Init => Promise!Init
  BY DEF Init, Promise!Init, Promise!Nothing, Retained, NoRetention
<1>2. IInv' => PromiseCovered'
  BY RetainedIsPromise, PTL
<1>3. ASSUME IInv, [Next]_vars, KeepsIdle(retention, retention')
      PROVE  Promise!Change
  <2>1. \A a \in Agents : Retained'[a] \in {Retained[a], Promise!Nothing}
    BY <1>3 DEF KeepsIdle, Retained, Promise!Nothing
  <2>2. IInv'
    BY <1>3, NextStep
  <2>3. available' \in [Keys -> SUBSET Units]
    BY <2>2 DEF IInv, TypeOK
  <2> QED  BY <1>2, <2>1, <2>2, <2>3 DEF Promise!Change, PromiseCovered
<1>4. ASSUME IInv, [Next]_vars, NEW r \in Requests, OnRequestFinished(r)
      PROVE  Promise!Finish(AgentOf[r])
  <2>1. IInv'
    BY <1>4, NextStep
  <2>2. available' = available
    BY <1>4 DEF OnRequestFinished, rows
  <2>3. \A b \in Agents \ {AgentOf[r]} : Retained'[b] \in {Retained[b], Promise!Nothing}
    BY <1>4, FinishEffect DEF Retained, Promise!Nothing
  <2>4. Promise!Covers(available, Retained'[AgentOf[r]])
    BY <1>2, <2>1, <2>2 DEF Promise!Covers, PromiseCovered
  <2> QED  BY <1>2, <2>1, <2>2, <2>3, <2>4 DEF Promise!Finish, PromiseCovered
<1>5. ASSUME IInv, [Next]_vars
      PROVE  [Promise!Next]_<<available, Retained>>
  <2>1. CASE KeepsIdle(retention, retention')
    BY <1>3, <1>5, <2>1 DEF Promise!Next
  <2>2. CASE \E r \in Requests : OnRequestFinished(r)
    BY <1>4, <1>5, <2>2 DEF Promise!Next
  <2> QED  BY <1>5, <2>1, <2>2, NextStep
<1> QED  BY <1>1, <1>5, Invariance, PTL DEF Spec, KeepsPromise, Promise!Spec

=============================================================================
