----------------------------- MODULE CpuOffload -----------------------------
(***************************************************************************)
(* CPUOffloadingManager (vllm/v1/kv_offload/cpu/manager.py): the CPU tier  *)
(* of the KV cache, its content-addressed rows, and the working sets that  *)
(* agents retain in it between turns.  Each action is one call of the      *)
(* manager by the engine core's offloading scheduler, which runs them one  *)
(* at a time; the transfers that prepare_load and prepare_store start end  *)
(* later, in any order, with complete_load and complete_store.             *)
(*                                                                         *)
(* A key is numbered by its place in a request's prefix, the order in      *)
(* which the scheduler lists keys.  OffloadKeys[r] are the keys of r's own *)
(* prefix, Content[k] is the canonical content that key k names; a row may *)
(* hold a part of it.                                                      *)
(***************************************************************************)
EXTENDS Integers, FiniteSets, OrderedKeys

CONSTANTS Requests, Agents, AgentOf, Keys, OffloadKeys, Content, NumBlocks, NoRequest

ASSUME AgentAssumption == AgentOf \in [Requests -> Agents]
ASSUME KeyAssumption == Keys \subseteq Nat /\ IsFiniteSet(Keys)
ASSUME PrefixAssumption == OffloadKeys \in [Requests -> SUBSET Keys]
ASSUME ContentAssumption == Content = [k \in Keys |-> Content[k]] /\ \A k \in Keys : Content[k] # {}
ASSUME CapacityAssumption == NumBlocks \in Nat
ASSUME NoRequestAssumption == NoRequest \notin Requests
ASSUME RequestAssumption == IsFiniteSet(Requests)

Units == UNION {Content[k] : k \in Keys}
\* What a key's row can hold, and what a request can need of it.
Parts(k) == SUBSET Content[k] \ {{}}

VARIABLES
  retention,   \* contexts, references, agents and idle turns (see Retention)
  blocks,      \* _blocks: the keys of resident rows
  refCnt,      \* BlockStatus.ref_cnt: -1 being written, else its readers
  available,   \* _available_content: the content a resident row holds
  complete,    \* _complete_blocks
  evictable,   \* _evictable_blocks: idle rows, least recently used first
  phase,       \* where each request is in its life at the scheduler
  need,        \* ReqContext.prefix_required, else the canonical content
  loading,     \* the keys of each request's load job in flight
  storing      \* each request's store jobs in flight, a set of key sets

rows == <<blocks, refCnt, available, complete, evictable>>
vars == <<retention, rows, phase, need, loading, storing>>

-----------------------------------------------------------------------------
(* Retention: _contexts (live, keys, required), _references, _agents in    *)
(* least-recently-used order, and _idle_context.                           *)

Retention ==
  [live: SUBSET Requests, keys: [Requests -> SUBSET Keys],
   required: [Requests -> [Keys -> SUBSET Units]],
   references: [Keys -> SUBSET Requests], agents: [Agents -> SUBSET Requests],
   order: SUBSET (Agents \X Agents), idle: [Agents -> Requests \cup {NoRequest}]]

NoRetention ==
  [live |-> {}, keys |-> [r \in Requests |-> {}],
   required |-> [r \in Requests |-> [k \in Keys |-> {}]],
   references |-> [k \in Keys |-> {}], agents |-> [a \in Agents |-> {}],
   order |-> {}, idle |-> [a \in Agents |-> NoRequest]]

\* _context: the request's context exists and its agent is the most recent.
Touch(t, r) ==
  [t EXCEPT !.live = @ \cup {r},
            !.agents[AgentOf[r]] = @ \cup {r},
            !.order = PutLast(@, AgentOf[r])]

\* _forget_context, for every request of R; requests without one are skipped.
Forget(t, R) ==
  [live |-> t.live \ R,
   keys |-> [r \in Requests |-> IF r \in R THEN {} ELSE t.keys[r]],
   required |-> [r \in Requests |-> IF r \in R THEN [k \in Keys |-> {}] ELSE t.required[r]],
   references |-> [k \in Keys |-> t.references[k] \ {r \in R : k \in t.keys[r]}],
   agents |-> [a \in Agents |-> t.agents[a] \ R],
   order |-> Drop(t.order, {a \in Agents : t.agents[a] \subseteq R}),
   idle |-> [a \in Agents |-> IF t.idle[a] \in R THEN NoRequest ELSE t.idle[a]]]

\* Mutant: the references of the keys that leave the working set stay.
ReferenceKeepsOld(t, r, K, needed) ==
  [t EXCEPT !.keys[r] = K,
            !.required[r] = [k \in Keys |-> IF k \in K THEN needed[k] ELSE {}],
            !.references = [k \in Keys |-> IF k \in K THEN t.references[k] \cup {r}
                                                      ELSE t.references[k]]]

\* retain_context up to its last statement: K replaces the working set of r.
Reference(t, r, K, needed) ==
  [t EXCEPT !.keys[r] = K,
            !.required[r] = [k \in Keys |-> IF k \in K THEN needed[k] ELSE {}],
            !.references = [k \in Keys |-> IF k \in K THEN t.references[k] \cup {r}
                                                      ELSE t.references[k] \ {r}]]

\* The agent's idle turn, when it is another request than r.
Superseded(t, r) == {t.idle[AgentOf[r]]} \ {r, NoRequest}

\* retain_context: a nonempty working set replaces the agent's idle turn.
Retain(t, r, K, needed) ==
  LET u == Reference(Touch(t, r), r, K, needed)
  IN  Forget(u, IF K = {} THEN {} ELSE Superseded(u, r))

-----------------------------------------------------------------------------
(* Rows.                                                                    *)

\* _has_content, of a row described by its canonical content.
HasContent(k, required) == k \in blocks /\ required \subseteq available[k]

\* lookup returns HIT.
Hit(k, r) == HasContent(k, need[r][k]) /\ refCnt[k] >= 0

\* The rows of K leave the tier (_remove_block).
RemovedAvailable(K) == [k \in Keys |-> IF k \in K THEN {} ELSE available[k]]

\* Mutant: shared references do not protect a row.
ReclaimableShared(t, K, released) ==
  {k \in Members(evictable) \ K : t.references[k] \cap released # {} \/ t.references[k] = {}}

\* reclaimable(): idle rows that only released requests refer to, except the
\* keys of the store itself.
Reclaimable(t, K, released) ==
  {k \in Members(evictable) \ K : t.references[k] \subseteq released}

\* new_keys, and the partial rows that `produced` would extend.
NewKeys(K) == K \ blocks
Upgrades(K, produced) ==
  {k \in (K \cap blocks) \ complete : ~(produced[k] \subseteq available[k])}

\* Slots the store needs beyond the free ones.
Deficit(K) == Cardinality(NewKeys(K)) - (NumBlocks - Cardinality(blocks))

\* The requests of the agents in A.
RequestsOf(t, A) == UNION {t.agents[a] : a \in A}

\* The agents the loop over _agents releases: every agent but the storing one,
\* in LRU order, until what the released requests held covers the deficit.
Victims(t, r, K) ==
  LET others == Members(t.order) \ {AgentOf[r]}
      enough(A) == Cardinality(Reclaimable(t, K, RequestsOf(t, A))) >= Deficit(K)
  IN  {v \in others : \A u \in UpTo(t.order, others, v) \ {v} :
                        ~enough(UpTo(t.order, others, u))}

\* Mutant: the loop over agents runs before the unreferenced rows are counted.
PlanAgentsFirst(t, r, K) ==
  IF Deficit(K) <= 0 THEN [victims |-> {}, evict |-> {}]
  ELSE [victims |-> Victims(t, r, K),
        evict |-> Reclaimable(t, K, RequestsOf(t, Victims(t, r, K)))]

\* The plan of _prepare_store: the agents to release and the rows to evict.
Plan(t, r, K) ==
  LET spare == Reclaimable(t, K, {})
  IN  IF Cardinality(spare) >= Deficit(K)
      THEN [victims |-> {}, evict |-> First(evictable, spare, Deficit(K))]
      ELSE [victims |-> Victims(t, r, K),
            evict |-> Reclaimable(t, K, RequestsOf(t, Victims(t, r, K)))]
-----------------------------------------------------------------------------
Init ==
  /\ retention = NoRetention
  /\ blocks = {} /\ complete = {} /\ evictable = {}
  /\ refCnt = [k \in Keys |-> 0]
  /\ available = [k \in Keys |-> {}]
  /\ phase = [r \in Requests |-> "new"]
  /\ need = [r \in Requests |-> Content]
  /\ loading = [r \in Requests |-> {}]
  /\ storing = [r \in Requests |-> {}]

\* on_new_request
OnNewRequest(r) ==
  /\ phase[r] = "new"
  /\ phase' = [phase EXCEPT ![r] = "running"]
  /\ retention' = Touch(retention, r)
  /\ UNCHANGED <<rows, need, loading, storing>>

\* The scheduler selects the working set K, and what it needs of each key.
RetainContext(r, K, N) ==
  /\ phase[r] = "running"
  /\ need' = [need EXCEPT ![r] = [k \in Keys |-> IF k \in K THEN N[k] ELSE @[k]]]
  /\ retention' = Retain(retention, r, K, need'[r])
  /\ UNCHANGED <<rows, phase, loading, storing>>

\* prepare_load of keys whose lookups have just returned HIT.
PrepareLoad(r, K) ==
  /\ phase[r] = "running" /\ loading[r] = {} /\ storing[r] = {}
  /\ K # {} /\ \A k \in K : Hit(k, r)
  /\ retention' = Retain(retention, r, retention.keys[r] \cup K, need[r])
  /\ refCnt' = [k \in Keys |-> IF k \in K THEN refCnt[k] + 1 ELSE refCnt[k]]
  /\ evictable' = Drop(evictable, {k \in K : refCnt[k] = 0})
  /\ loading' = [loading EXCEPT ![r] = K]
  /\ UNCHANGED <<blocks, available, complete, phase, need, storing>>

\* Mutant: a row becomes evictable when the first of its readers is done.
CompleteLoadUnpins(r) ==
  LET K == loading[r]
  IN  /\ K # {}
      /\ refCnt' = [k \in Keys |-> IF k \in K THEN refCnt[k] - 1 ELSE refCnt[k]]
      /\ evictable' = PutAllLast(evictable, K)
      /\ loading' = [loading EXCEPT ![r] = {}]
      /\ UNCHANGED <<retention, blocks, available, complete, phase, need, storing>>

\* complete_load
CompleteLoad(r) ==
  LET K == loading[r]
  IN  /\ K # {}
      /\ refCnt' = [k \in Keys |-> IF k \in K THEN refCnt[k] - 1 ELSE refCnt[k]]
      /\ evictable' = PutAllLast(evictable, {k \in K : refCnt[k] = 1})
      /\ loading' = [loading EXCEPT ![r] = {}]
      /\ UNCHANGED <<retention, blocks, available, complete, phase, need, storing>>

\* Mutant: the victims are released before the plan is known to suffice.
StoreNothingReleases(r, K, produced) ==
  LET t == Retain(retention, r, retention.keys[r] \cup K, need[r])
      write == NewKeys(K) \cup Upgrades(K, produced)
      plan == Plan(t, r, K)
      busy == \E k \in Upgrades(K, produced) : refCnt[k] # 0
  IN  /\ busy \/ write = {} \/ Cardinality(plan.evict) < Deficit(K)
      /\ retention' = Forget(t, IF busy THEN {} ELSE RequestsOf(t, plan.victims))
      /\ UNCHANGED <<rows, storing>>

\* prepare_store returns None, or has nothing to write: only the working set
\* changes.
StoreNothing(r, K, produced) ==
  LET t == Retain(retention, r, retention.keys[r] \cup K, need[r])
      write == NewKeys(K) \cup Upgrades(K, produced)
      plan == Plan(t, r, K)
      busy == \E k \in Upgrades(K, produced) : refCnt[k] # 0
  IN  /\ busy \/ write = {} \/ Cardinality(plan.evict) < Deficit(K)
      /\ retention' = t
      /\ UNCHANGED <<rows, storing>>

\* prepare_store makes room and starts the transfer of `write`.
StoreAdmitted(r, K, produced) ==
  LET t == Retain(retention, r, retention.keys[r] \cup K, need[r])
      upgrades == Upgrades(K, produced)
      write == NewKeys(K) \cup upgrades
      plan == Plan(t, r, K)
      content(k) == IF k \in upgrades THEN available[k] \cup produced[k] ELSE produced[k]
  IN  /\ \A k \in upgrades : refCnt[k] = 0
      /\ write # {} /\ Cardinality(plan.evict) >= Deficit(K)
      /\ retention' = Forget(t, RequestsOf(t, plan.victims))
      /\ blocks' = (blocks \ plan.evict) \cup write
      /\ refCnt' = [k \in Keys |-> IF k \in write THEN -1 ELSE refCnt[k]]
      /\ available' = [k \in Keys |-> IF k \in write THEN content(k)
                                                     ELSE RemovedAvailable(plan.evict)[k]]
      /\ complete' = (complete \ plan.evict) \cup {k \in write : content(k) = Content[k]}
      /\ evictable' = Drop(evictable, plan.evict \cup upgrades)
      /\ storing' = [storing EXCEPT ![r] = @ \cup {write}]

\* prepare_store: keys K, of which the GPU holds the data `produced`.
PrepareStore(r, K, produced) ==
  /\ phase[r] = "running" /\ loading[r] = {} /\ K # {}
  /\ StoreNothing(r, K, produced) \/ StoreAdmitted(r, K, produced)
  /\ UNCHANGED <<phase, need, loading>>

\* complete_store(success=True)
CompleteStore(r, J) ==
  /\ J \in storing[r]
  /\ refCnt' = [k \in Keys |-> IF k \in J THEN 0 ELSE refCnt[k]]
  /\ evictable' = PutAllLast(evictable, J)
  /\ storing' = [storing EXCEPT ![r] = @ \ {J}]
  /\ UNCHANGED <<retention, blocks, available, complete, phase, need, loading>>

\* Mutant: only the storing request's context goes with the failed rows.
FailStoreDropsOwn(r, J) ==
  /\ J \in storing[r]
  /\ retention' = Forget(retention, {r})
  /\ blocks' = blocks \ J
  /\ refCnt' = [k \in Keys |-> IF k \in J THEN 0 ELSE refCnt[k]]
  /\ available' = RemovedAvailable(J)
  /\ complete' = complete \ J
  /\ evictable' = Drop(evictable, J)
  /\ storing' = [storing EXCEPT ![r] = @ \ {J}]
  /\ UNCHANGED <<phase, need, loading>>

\* Mutant: a failed row's completeness flag outlives it.
FailStoreKeepsFlag(r, J) ==
  /\ J \in storing[r]
  /\ retention' = Forget(retention, UNION {retention.references[k] : k \in J})
  /\ blocks' = blocks \ J
  /\ refCnt' = [k \in Keys |-> IF k \in J THEN 0 ELSE refCnt[k]]
  /\ available' = RemovedAvailable(J)
  /\ complete' = complete
  /\ evictable' = Drop(evictable, J)
  /\ storing' = [storing EXCEPT ![r] = @ \ {J}]
  /\ UNCHANGED <<phase, need, loading>>

\* complete_store(success=False): the rows and every context on them go.
FailStore(r, J) ==
  /\ J \in storing[r]
  /\ retention' = Forget(retention, UNION {retention.references[k] : k \in J})
  /\ blocks' = blocks \ J
  /\ refCnt' = [k \in Keys |-> IF k \in J THEN 0 ELSE refCnt[k]]
  /\ available' = RemovedAvailable(J)
  /\ complete' = complete \ J
  /\ evictable' = Drop(evictable, J)
  /\ storing' = [storing EXCEPT ![r] = @ \ {J}]
  /\ UNCHANGED <<phase, need, loading>>

\* Mutant: completeness is not checked, as if every store had succeeded.
ServableUnchecked(t, r) == t.keys[r] # {}

\* The context of r can serve the next turn of its agent.
Servable(t, r) ==
  /\ t.keys[r] # {}
  /\ \A k \in t.keys[r] : t.required[r][k] # {} /\ HasContent(k, t.required[r][k])

\* Mutant: the previous idle turn is overwritten, not forgotten.
KeepOverwrites(t, r) ==
  LET v == [t EXCEPT !.idle[AgentOf[r]] = r]
      idlers == {a \in Agents : v.idle[a] # NoRequest}
      excess == First(v.order, idlers, Cardinality(idlers) - NumBlocks)
  IN  Forget(v, {v.idle[a] : a \in excess})

\* Mutant: retained turns are not bounded.
KeepUnbounded(t, r) ==
  [Forget(t, Superseded(t, r)) EXCEPT !.idle[AgentOf[r]] = r]

\* Mutant: the agent's ID is recorded in place of the request's.
KeepAgentId(t, r) ==
  [Forget(t, Superseded(t, r)) EXCEPT !.idle[AgentOf[r]] = AgentOf[r]]

\* on_request_finished keeps r as its agent's idle turn, then drops the least
\* recently used idle turns beyond the number of chunks.
Keep(t, r) ==
  LET u == Forget(t, Superseded(t, r))
      v == [u EXCEPT !.idle[AgentOf[r]] = r]
      idlers == {a \in Agents : v.idle[a] # NoRequest}
      excess == First(v.order, idlers, Cardinality(idlers) - NumBlocks)
  IN  Forget(v, {v.idle[a] : a \in excess})

\* on_request_finished
OnRequestFinished(r) ==
  /\ phase[r] = "running"
  /\ phase' = [phase EXCEPT ![r] = "finished"]
  /\ need' = [need EXCEPT ![r] = Content]
  /\ retention' = IF r \notin retention.live THEN retention
                  ELSE IF Servable(retention, r) THEN Keep(retention, r)
                  ELSE Forget(retention, {r})
  /\ UNCHANGED <<rows, loading, storing>>

\* reset_cache, with which the scheduler discards every job in flight.
ResetCache ==
  /\ retention' = NoRetention
  /\ blocks' = {} /\ complete' = {} /\ evictable' = {}
  /\ refCnt' = [k \in Keys |-> 0]
  /\ available' = [k \in Keys |-> {}]
  /\ loading' = [r \in Requests |-> {}]
  /\ storing' = [r \in Requests |-> {}]
  /\ UNCHANGED <<phase, need>>

\* What a request may need, or have produced, of each key of K.
Choices(K) == {f \in [K -> SUBSET Units] : \A k \in K : f[k] \in Parts(k)}

Next ==
  \/ \E r \in Requests :
       \/ OnNewRequest(r)
       \/ CompleteLoad(r)
       \/ OnRequestFinished(r)
       \/ \E K \in SUBSET OffloadKeys[r] :
            \/ PrepareLoad(r, K)
            \/ \E f \in Choices(K) : RetainContext(r, K, f) \/ PrepareStore(r, K, f)
       \/ \E J \in storing[r] : CompleteStore(r, J) \/ FailStore(r, J)
  \/ ResetCache

Spec == Init /\ [][Next]_vars

-----------------------------------------------------------------------------
(* Properties.                                                             *)

\* The types of the manager's state and of the transfers in flight.
TypeOK ==
  /\ retention \in Retention
  /\ blocks \in SUBSET Keys /\ complete \in SUBSET Keys
  /\ evictable \in SUBSET (Keys \X Keys)
  /\ refCnt \in [Keys -> Int]
  /\ available \in [Keys -> SUBSET Units]
  /\ phase \in [Requests -> {"new", "running", "finished"}]
  /\ need \in [Requests -> [Keys -> SUBSET Units]]
  /\ loading \in [Requests -> SUBSET Keys]
  /\ storing \in [Requests -> SUBSET SUBSET Keys]

\* _references is the exact inverse of the contexts' keys, whatever mixture of
\* retention, release and failure built it: a reference too many would pin a
\* row for ever, one too few would let pressure break a retained turn.
ReferencesExact ==
  \A k \in Keys : retention.references[k] = {r \in retention.live : k \in retention.keys[r]}

\* No context is leaked: _agents holds the agents of exactly the contexts there
\* are, in one total order of use, and a finished request leaves a context only
\* as its agent's idle turn, which a later turn or pressure will forget.
ContextsAreAccountedFor ==
  /\ \A a \in Agents : retention.agents[a] = {r \in retention.live : AgentOf[r] = a}
  /\ LET users == {a \in Agents : retention.agents[a] # {}}
     IN  /\ Members(retention.order) = users
         /\ \A a, b \in users : (<<a, b>> \in retention.order) # (<<b, a>> \in retention.order)
                                \/ a = b
  /\ \A r \in retention.live : phase[r] = "finished" <=> retention.idle[AgentOf[r]] = r

\* Every idle turn can be resumed: each key of its working set is resident and
\* its row holds (or is receiving) the content the turn requires of it.
RetainedServable ==
  \A a \in Agents : retention.idle[a] # NoRequest => Servable(retention, retention.idle[a])

\* Retained turns are bounded by the number of chunks, however much they share.
RetainedBounded == Cardinality({a \in Agents : retention.idle[a] # NoRequest}) <= NumBlocks

\* The loads reading a row, and the store jobs writing it.
Readers(k) == {r \in Requests : k \in loading[r]}
Writers(k) == {w \in Requests \X SUBSET Keys : w[2] \in storing[w[1]] /\ k \in w[2]}

\* ref_cnt counts the transfers in flight, no row is read and written at once
\* or written twice, every row in transfer is resident, the tier never exceeds
\* its slots, and exactly the rows without a transfer can be evicted.
TransfersPinRows ==
  /\ Cardinality(blocks) <= NumBlocks
  /\ Members(evictable) = {k \in blocks : Readers(k) = {} /\ Writers(k) = {}}
  /\ \A k \in Keys :
       /\ Readers(k) \cup {w[1] : w \in Writers(k)} # {} => k \in blocks
       /\ refCnt[k] = IF Writers(k) = {} THEN Cardinality(Readers(k)) ELSE -1
       /\ Writers(k) # {} => Readers(k) = {} /\ Cardinality(Writers(k)) = 1
\* A row is advertised as canonical (to secondary storage, and to cache events)
\* exactly when it holds, or is receiving, the whole content its key names: a
\* sparse window is never exported, nor a filled one left behind as sparse.
CompleteRowsAreWhole == complete = {k \in blocks : available[k] = Content[k]}

\* The row of a key that a surviving context goes on using stays, with all the
\* content it holds: no eviction, fill or failure takes data from under a
\* context without dropping the context in the same step.
ContextsKeepTheirData ==
  [][\A r \in retention.live \cap retention'.live :
       \A k \in blocks \cap retention.keys[r] \cap retention'.keys[r] :
         k \in blocks' /\ available[k] \subseteq available'[k]]_vars

\* A step in which request r starts a store job.
Starts(r) == storing'[r] \ storing[r] # {}
Lost == retention.live \ retention'.live

\* Pressure of r's store releases other agents whole, an agent only after every
\* less recently used one, and the last only because the store did not fit in
\* the tier together with the rows that releasing it freed.
PressureReleasesWholeAgents ==
  [][\A r \in Requests : Starts(r) =>
       LET me == AgentOf[r]
           released == {AgentOf[s] : s \in Lost} \ {me}
           needless(a) == {k \in blocks \ blocks' : retention.references[k] \cap
                                                    retention.agents[a] # {}}
       IN  /\ \A s \in retention'.live : AgentOf[s] \notin released
           /\ \A a \in released, b \in Agents \ {me} :
                <<b, a>> \in retention.order => b \in released
           /\ \A a \in released :
                (\A b \in released : <<b, a>> \in retention.order) =>
                  Cardinality(blocks') + Cardinality(needless(a)) > NumBlocks]_vars

\* A store that is declined, and any other call that moves no data, costs no
\* agent its turn: what it drops is at most the caller's agent's own idle turn,
\* which the caller's nonempty working set replaces.
OnlyOwnTurnIsReplaced ==
  [][(blocks' = blocks /\ storing' = storing /\ phase' = phase /\ retention'.live # {}) =>
       \A s \in Lost :
         /\ retention.idle[AgentOf[s]] = s
         /\ \E r \in retention'.live : AgentOf[r] = AgentOf[s] /\ retention'.keys[r] # {}]_vars

\* The promise of AgentRetention: held is what the rows hold, an agent retains
\* what its idle turn requires.
Retained ==
  [a \in Agents |-> IF retention.idle[a] = NoRequest THEN [k \in Keys |-> {}]
                    ELSE retention.required[retention.idle[a]]]
Promise == INSTANCE AgentRetention WITH held <- available, retained <- Retained
KeepsPromise == Promise!Spec
=============================================================================
