---------------------- MODULE CpuOffloadAccountProofs ----------------------
(***************************************************************************)
(* The accounts CpuOffload keeps: which contexts and idle turns there are, *)
(* which rows are being read or written, and what a store under pressure   *)
(* releases, for any requests, agents, keys and capacity.                  *)
(***************************************************************************)
EXTENDS CpuOffloadProofs, OrderedKeysProofs

USE AgentAssumption, KeyAssumption, PrefixAssumption, ContentAssumption, NoRequestAssumption

-----------------------------------------------------------------------------
(* What each operation does to the contexts.                               *)

Users(t) == {a \in Agents : t.agents[a] # {}}
Idlers(t) == {a \in Agents : t.idle[a] # NoRequest}

\* The idle turn that a working set K of request r replaces, if any.
Replaced(t, r, K) == IF K = {} THEN {} ELSE {t.idle[AgentOf[r]]} \ {NoRequest}

\* The agents of t are those of its contexts, in one order of use.
Accounted(t) ==
  /\ \A a \in Agents : t.agents[a] = {r \in t.live : AgentOf[r] = a}
  /\ IsOrder(t.order, Users(t))

\* The contexts of the requests in F are idle turns.
Settled(t, F) == \A r \in t.live \cap F : t.idle[AgentOf[r]] = r

\* A call for r adds its context, and its agent becomes the most recent.
LEMMA TouchAccounted ==
  ASSUME NEW t, WellFormed(t), Accounted(t), NEW r \in Requests
  PROVE  Accounted(Touch(t, r))
<1> DEFINE u == Touch(t, r)
<1>1. t \in Retention /\ AgentOf[r] \in Agents
  BY DEF WellFormed
<1>2. /\ u.live = t.live \cup {r}
      /\ u.agents = [t.agents EXCEPT ![AgentOf[r]] = t.agents[AgentOf[r]] \cup {r}]
      /\ u.order = PutLast(t.order, AgentOf[r])
  BY <1>1 DEF Touch, Retention
<1> HIDE DEF u
<1>3. \A a \in Agents : u.agents[a] = {s \in u.live : AgentOf[s] = a}
  BY <1>1, <1>2 DEF Accounted, Retention
<1>4. Users(u) = Users(t) \cup {AgentOf[r]}
  <2>1. t.agents \in [Agents -> SUBSET Requests]
    BY <1>1 DEF Retention
  <2>2. \A a \in Agents : u.agents[a] = IF a = AgentOf[r] THEN t.agents[a] \cup {r} ELSE t.agents[a]
    BY <1>2, <2>1
  <2> QED  BY <1>1, <2>2 DEF Users
<1>5. IsOrder(u.order, Users(u))
  BY <1>2, <1>4, PutLastOrder DEF Accounted
<1> QED  BY <1>3, <1>5 DEF Accounted, u

\* Forgetting contexts removes the agents left without one.
LEMMA ForgetAccounted ==
  ASSUME NEW t, WellFormed(t), Accounted(t), NEW R \in SUBSET Requests
  PROVE  Accounted(Forget(t, R))
<1> DEFINE u == Forget(t, R)
           gone == {a \in Agents : t.agents[a] \subseteq R}
<1>1. /\ u.live = t.live \ R
      /\ u.agents = [a \in Agents |-> t.agents[a] \ R]
      /\ u.order = Drop(t.order, gone)
  BY DEF Forget
<1> HIDE DEF u
<1>2. \A a \in Agents : u.agents[a] = {s \in u.live : AgentOf[s] = a}
  BY <1>1 DEF Accounted
<1>3. Users(u) = Users(t) \ gone
  BY <1>1 DEF Users
<1> HIDE DEF gone
<1>4. IsOrder(u.order, Users(u))
  BY <1>1, <1>3, DropOrder DEF Accounted
<1> QED  BY <1>2, <1>4 DEF Accounted, u

\* What retain_context does besides replacing the working set of r: only the
\* idle turn it supersedes is lost, and that for a nonempty working set.
LEMMA RetainAccounted ==
  ASSUME NEW t, WellFormed(t), Accounted(t), NEW r \in Requests, NEW K \in SUBSET Keys,
         NEW needed \in [Keys -> SUBSET Units],
         \A a \in Agents : t.idle[a] # r
  PROVE  LET w == Retain(t, r, K, needed)
             S == Replaced(t, r, K)
         IN  /\ Accounted(w)
             /\ w.live = (t.live \cup {r}) \ S
             /\ w.keys[r] = K
             /\ \A s \in Requests \ ({r} \cup S) : w.keys[s] = t.keys[s]
             /\ \A a \in Agents : w.idle[a] = IF t.idle[a] \in S THEN NoRequest ELSE t.idle[a]
             /\ \A a \in Agents \ {AgentOf[r]} : w.agents[a] = t.agents[a]
             /\ \A a, b \in Agents \ {AgentOf[r]} : <<a, b>> \in w.order <=> <<a, b>> \in t.order
<1> DEFINE u == Touch(t, r)
           v == Reference(u, r, K, needed)
           S == Replaced(t, r, K)
           w == Retain(t, r, K, needed)
<1>1. t \in Retention /\ AgentOf[r] \in Agents
  BY DEF WellFormed
<1>2. WellFormed(u) /\ KeepsIdle(t, u) /\ r \in u.live /\ Accounted(u)
  BY TouchWellFormed, TouchAccounted
<1>3. /\ u.live = t.live \cup {r} /\ u.idle = t.idle /\ u.keys = t.keys
      /\ u.agents = [t.agents EXCEPT ![AgentOf[r]] = t.agents[AgentOf[r]] \cup {r}]
      /\ u.order = PutLast(t.order, AgentOf[r])
  BY <1>1 DEF Touch, Retention
<1> HIDE DEF u
<1>4. WellFormed(v)
  BY <1>2, <1>3, ReferenceWellFormed
<1>5. /\ v.live = u.live /\ v.agents = u.agents /\ v.order = u.order /\ v.idle = u.idle
      /\ v.keys = [u.keys EXCEPT ![r] = K]
  BY <1>2 DEF Reference, Retention, WellFormed
<1>6. w = Forget(v, IF K = {} THEN {} ELSE Superseded(v, r))
  BY DEF Retain, u, v
<1> HIDE DEF v
<1>7. Accounted(v)
  BY <1>2, <1>5 DEF Accounted, Users
<1>8. (IF K = {} THEN {} ELSE Superseded(v, r)) = S
  BY <1>1, <1>3, <1>5, ZenonT(60) DEF Superseded, Replaced
<1>9. S \in SUBSET Requests /\ r \notin S /\ \A s \in S : AgentOf[s] = AgentOf[r]
  BY <1>1 DEF WellFormed, Retention, Replaced
<1>10. w = Forget(v, S)
  BY <1>6, <1>8
<1> HIDE DEF w, S
<1>11. Accounted(w)
  BY <1>4, <1>7, <1>9, <1>10, ForgetAccounted
<1>12. w.live = (t.live \cup {r}) \ S
  BY <1>3, <1>5, <1>10 DEF Forget
<1>13. w.keys[r] = K /\ \A s \in Requests \ ({r} \cup S) : w.keys[s] = t.keys[s]
  BY <1>1, <1>3, <1>5, <1>9, <1>10 DEF Forget, Retention
<1>14. \A a \in Agents : w.idle[a] = IF t.idle[a] \in S THEN NoRequest ELSE t.idle[a]
  BY <1>3, <1>5, <1>10 DEF Forget
<1>15. ASSUME NEW a \in Agents \ {AgentOf[r]}
       PROVE  w.agents[a] = t.agents[a] /\ (a \in Users(t) => v.agents[a] \ S # {})
  <2>1. v.agents[a] = t.agents[a] /\ w.agents[a] = v.agents[a] \ S
    BY <1>1, <1>3, <1>5, <1>10 DEF Forget, Retention
  <2>2. v.agents[a] = {s \in v.live : AgentOf[s] = a}
    BY <1>7 DEF Accounted
  <2>3. v.agents[a] \cap S = {}
    BY <1>9, <2>2
  <2> QED  BY <2>1, <2>3 DEF Users
<1>16. ASSUME NEW a \in Agents \ {AgentOf[r]}, NEW b \in Agents \ {AgentOf[r]}
       PROVE  <<a, b>> \in w.order <=> <<a, b>> \in t.order
  <2> DEFINE gone == {c \in Agents : v.agents[c] \subseteq S}
  <2>1. w.order = Drop(v.order, gone)
    BY <1>10 DEF Forget
  <2>2. v.order = PutLast(t.order, AgentOf[r])
    BY <1>3, <1>5
  <2>3. <<a, b>> \in v.order <=> <<a, b>> \in t.order
    BY <2>2 DEF PutLast, Drop
  <2>4. <<a, b>> \in t.order => a \in Users(t) /\ b \in Users(t)
    BY DEF Accounted, IsOrder
  <2>5. <<a, b>> \in t.order => a \notin gone /\ b \notin gone
    BY <1>15, <2>4
  <2> HIDE DEF gone
  <2> QED  BY <2>1, <2>3, <2>5 DEF Drop
<1> QED  BY <1>11, <1>12, <1>13, <1>14, <1>15, <1>16 DEF S, w

\* Only finitely many agents ever have a request.
LEMMA FiniteAgents == IsFiniteSet({AgentOf[s] : s \in Requests})
<1> DEFINE T == {AgentOf[s] : s \in Requests}
           f == [s \in Requests |-> AgentOf[s]]
<1>1. f \in Surjection(Requests, T)
  BY DEF Surjection
<1> QED  BY <1>1, RequestAssumption, FS_Surjection

\* Keeping r as its agent's idle turn forgets the turn it supersedes, and the
\* least recently used ones beyond the number of chunks.
LEMMA KeepAccounted ==
  ASSUME NEW t, WellFormed(t), Accounted(t), NEW r \in t.live, \A a \in Agents : t.idle[a] # r
  PROVE  /\ Accounted(Keep(t, r))
         /\ Keep(t, r).live \in SUBSET t.live
         /\ \A s \in Keep(t, r).live \ {r} : t.idle[AgentOf[s]] = s => Keep(t, r).idle[AgentOf[s]] = s
         /\ r \in Keep(t, r).live => Keep(t, r).idle[AgentOf[r]] = r
         /\ Cardinality(Idlers(Keep(t, r))) <= NumBlocks
<1> DEFINE S == Superseded(t, r)
           u == Forget(t, S)
           v == [u EXCEPT !.idle[AgentOf[r]] = r]
           I == Idlers(v)
           excess == First(v.order, I, Cardinality(I) - NumBlocks)
           X == {v.idle[a] : a \in excess}
           w == Keep(t, r)
<1>1. r \in Requests /\ AgentOf[r] \in Agents /\ t \in Retention
  BY DEF WellFormed, Retention
<1>2. S \in SUBSET Requests /\ r \notin S /\ \A s \in S : AgentOf[s] = AgentOf[r]
  <2>1. S \in SUBSET Requests /\ r \notin S
    BY <1>1, SupersededTyping
  <2> QED  BY <1>1, <2>1 DEF Superseded, WellFormed
<1>3. w = Forget(v, X)
  BY DEF Keep, Idlers
<1>4. S = {t.idle[AgentOf[r]]} \ {NoRequest}
  BY <1>1 DEF Superseded
<1> HIDE DEF S
<1>5. WellFormed(u) /\ Accounted(u) /\ KeepsIdle(t, u)
  BY <1>2, ForgetWellFormed, ForgetAccounted
<1>6. /\ u.live = t.live \ S
      /\ u.idle = [a \in Agents |-> IF t.idle[a] \in S THEN NoRequest ELSE t.idle[a]]
  BY DEF Forget
<1> HIDE DEF u
<1>7. /\ v.live = u.live /\ v.keys = u.keys /\ v.required = u.required
      /\ v.references = u.references /\ v.agents = u.agents /\ v.order = u.order
      /\ v.idle = [u.idle EXCEPT ![AgentOf[r]] = r]
  BY <1>5 DEF WellFormed, Retention
<1>8. v \in Retention
  BY <1>1, <1>5 DEF WellFormed, Retention
<1> HIDE DEF v
<1>9. WellFormed(v) /\ Accounted(v)
  <2>1. \A a \in Agents : v.idle[a] # NoRequest => v.idle[a] \in v.live /\ AgentOf[v.idle[a]] = a
    BY <1>1, <1>2, <1>5, <1>6, <1>7 DEF WellFormed, Retention
  <2>2. WellFormed(v)
    BY <1>5, <1>7, <1>8, <2>1 DEF WellFormed
  <2>3. Accounted(v)
    BY <1>5, <1>7 DEF Accounted, Users
  <2> QED  BY <2>2, <2>3
<1>10. excess \in SUBSET I /\ I \in SUBSET Agents
  BY FirstTyping DEF Idlers
<1>11. X \in SUBSET Requests
  <2> HIDE DEF excess
  <2> QED  BY <1>8, <1>10 DEF Retention, Idlers
<1>12. Accounted(w)
  BY <1>3, <1>9, <1>11, ForgetAccounted
<1>13. /\ w.live = v.live \ X
       /\ \A a \in Agents : w.idle[a] = IF v.idle[a] \in X THEN NoRequest ELSE v.idle[a]
  BY <1>3 DEF Forget
<1>14. ASSUME NEW s \in w.live, s = r \/ t.idle[AgentOf[s]] = s PROVE w.idle[AgentOf[s]] = s
  <2>1. s \in Requests /\ AgentOf[s] \in Agents /\ s \notin S /\ s \notin X
    BY <1>6, <1>7, <1>8, <1>13 DEF Retention
  <2>2. CASE s = r
    <3>1. v.idle[AgentOf[s]] = s
      BY <1>5, <1>7, <2>1, <2>2 DEF WellFormed, Retention
    <3> QED  BY <1>13, <2>1, <3>1
  <2>3. CASE s # r /\ t.idle[AgentOf[s]] = s
    <3>1. AgentOf[s] # AgentOf[r]
      BY <1>4, <2>1, <2>3
    <3>2. v.idle[AgentOf[s]] = s
      BY <1>5, <1>6, <1>7, <2>1, <2>3, <3>1 DEF WellFormed, Retention
    <3> QED  BY <1>13, <2>1, <3>2
  <2> QED  BY <1>14, <2>2, <2>3
\* The bound: as many idle turns are dropped as there are too many.
<1>15. Cardinality(Idlers(w)) <= NumBlocks
  <2>1. IsFiniteSet(I) /\ Cardinality(I) \in Nat
    <3>1. I \in SUBSET {AgentOf[s] : s \in Requests}
      BY <1>8, <1>9 DEF Idlers, WellFormed, Retention
    <3> QED  BY <3>1, FiniteAgents, FS_Subset, FS_CardinalityType
  <2>2. I \in SUBSET Users(v)
    BY <1>8, <1>9 DEF Idlers, Users, WellFormed, Accounted
  <2>3. Idlers(w) = I \ excess
    <3>1. ASSUME NEW a \in I, v.idle[a] \in X PROVE a \in excess
      BY <1>9, <1>10, <3>1 DEF Idlers, WellFormed
    <3>2. \A a \in excess : v.idle[a] \in X
      OBVIOUS
    <3> HIDE DEF X, excess
    <3> QED  BY <1>10, <1>13, <3>1, <3>2 DEF Idlers
  <2>4. CASE Cardinality(I) <= NumBlocks
    <3>1. Idlers(w) \in SUBSET I
      BY <2>3
    <3>2. Cardinality(Idlers(w)) <= Cardinality(I) /\ Cardinality(Idlers(w)) \in Nat
      BY <2>1, <3>1, FS_Subset, FS_CardinalityType
    <3> QED  BY <2>1, <2>4, <3>2, CapacityAssumption
  <2>5. CASE Cardinality(I) > NumBlocks
    <3> DEFINE n == Cardinality(I) - NumBlocks
    <3>1. n \in Nat /\ n <= Cardinality(I)
      BY <2>1, <2>5, CapacityAssumption
    <3> HIDE DEF I, n
    <3>2. Cardinality(First(v.order, I, n)) = n
      BY <1>9, <2>1, <2>2, <3>1, FirstCount DEF Accounted
    <3>3. excess = First(v.order, I, n)
      BY DEF n
    <3> HIDE DEF excess
    <3>4. I \cap excess = excess
      BY <1>10
    <3>5. Cardinality(I \ excess) = Cardinality(I) - Cardinality(I \cap excess)
      BY <2>1, FS_Difference
    <3>6. Cardinality(I \ excess) = Cardinality(I) - n
      BY <3>2, <3>3, <3>4, <3>5
    <3> QED  BY <2>1, <2>3, <3>6, CapacityAssumption DEF n
  <2> QED  BY <2>1, <2>4, <2>5, CapacityAssumption
<1>16. w.live \in SUBSET t.live
  BY <1>6, <1>7, <1>13
<1> HIDE DEF w
<1>17. \A s \in w.live : s = r \/ t.idle[AgentOf[s]] = s => w.idle[AgentOf[s]] = s
  BY <1>14
<1> QED  BY <1>12, <1>15, <1>16, <1>17 DEF w

-----------------------------------------------------------------------------
(* The invariant about contexts.                                           *)

Finished == {r \in Requests : phase[r] = "finished"}

\* The agents are those of the contexts, a finished request has a context only
\* as its agent's idle turn, and idle turns are bounded.
AInv ==
  /\ Accounted(retention)
  /\ Settled(retention, Finished)
  /\ RetainedBounded

LEMMA InitAInv == Init => AInv
<1> SUFFICES ASSUME Init PROVE AInv
  OBVIOUS
<1>1. Accounted(retention)
  <2>1. Users(retention) = {} /\ retention.order = {}
    BY DEF Init, NoRetention, Users
  <2> QED  BY <2>1, EmptyOrder DEF Init, NoRetention, Accounted
<1>2. RetainedBounded
  <2>1. Idlers(retention) = {}
    BY DEF Init, NoRetention, Idlers
  <2>2. Cardinality(Idlers(retention)) = 0
    BY <2>1, FS_EmptySet
  <2> QED  BY <2>2, CapacityAssumption DEF RetainedBounded, Idlers
<1> QED  BY <1>1, <1>2 DEF AInv, Init, NoRetention, Settled

LEMMA ForgetSettled ==
  ASSUME NEW t, WellFormed(t), NEW R \in SUBSET Requests, NEW F, Settled(t, F)
  PROVE  Settled(Forget(t, R), F)
<1>1. \A s \in t.live : AgentOf[s] \in Agents
  BY DEF WellFormed, Retention
<1> QED  BY <1>1 DEF Forget, Settled

\* A call by a running request leaves the finished requests' contexts settled.
LEMMA CallContexts ==
  ASSUME IInv, AInv, NEW r \in Requests, phase[r] = "running", NEW K \in SUBSET Keys,
         NEW needed \in [Keys -> SUBSET Units]
  PROVE  LET t == Retain(retention, r, K, needed)
         IN  /\ WellFormed(t) /\ Accounted(t) /\ Settled(t, Finished)
             /\ t.live = (retention.live \cup {r}) \ Replaced(retention, r, K)
             /\ t.keys[r] = K
<1> DEFINE t == Retain(retention, r, K, needed)
           S == Replaced(retention, r, K)
<1>1. WellFormed(retention) /\ Accounted(retention) /\ \A a \in Agents : retention.idle[a] # r
  BY RunningIsNotIdle DEF IInv, AInv
<1>2. WellFormed(t)
  BY RetainCall
<1>3. /\ Accounted(t)
      /\ t.live = (retention.live \cup {r}) \ S
      /\ t.keys[r] = K
      /\ \A a \in Agents : t.idle[a] = IF retention.idle[a] \in S THEN NoRequest
                                                               ELSE retention.idle[a]
  BY <1>1, RetainAccounted, SMTT(60)
<1> HIDE DEF t, S
<1>4. Settled(t, Finished)
  <2> SUFFICES ASSUME NEW s \in t.live, s \in Finished PROVE t.idle[AgentOf[s]] = s
    BY DEF Settled
  <2>1. s \in retention.live /\ s \notin S
    BY <1>3 DEF Finished
  <2>2. AgentOf[s] \in Agents /\ retention.idle[AgentOf[s]] = s
    BY <2>1 DEF AInv, Settled, Finished
  <2> QED  BY <1>3, <2>1, <2>2
<1> QED  BY <1>2, <1>3, <1>4 DEF t, S

\* A step that adds no idle turn keeps their bound.
LEMMA BoundedKept ==
  ASSUME IInv, RetainedBounded, KeepsIdle(retention, retention')
  PROVE  RetainedBounded'
<1> DEFINE I == Idlers(retention)
           J == Idlers(retention')
<1>1. J \in SUBSET I
  BY DEF KeepsIdle, Idlers
<1>2. IsFiniteSet(I)
  <2>1. I \in SUBSET {AgentOf[s] : s \in Requests}
    BY DEF IInv, Idlers, WellFormed, Retention
  <2> QED  BY <2>1, FiniteAgents, FS_Subset
<1>3. Cardinality(I) <= NumBlocks
  BY DEF RetainedBounded, Idlers
<1> HIDE DEF I, J
<1>4. Cardinality(J) <= Cardinality(I) /\ Cardinality(J) \in Nat /\ Cardinality(I) \in Nat
  BY <1>1, <1>2, FS_Subset, FS_CardinalityType
<1>5. Cardinality(J) <= NumBlocks
  BY <1>3, <1>4, CapacityAssumption
<1> QED  BY <1>5 DEF RetainedBounded, Idlers, J

LEMMA FinishContexts ==
  ASSUME IInv, AInv, NEW r \in Requests, OnRequestFinished(r)
  PROVE  AInv'
<1>1. /\ WellFormed(retention) /\ Accounted(retention) /\ \A a \in Agents : retention.idle[a] # r
      /\ Settled(retention, Finished) /\ RetainedBounded
  BY RunningIsNotIdle DEF IInv, AInv, OnRequestFinished
<1>2. Finished' = Finished \cup {r}
  BY DEF OnRequestFinished, Finished, IInv, TypeOK
<1>3. CASE r \notin retention.live
  <2>1. retention' = retention
    BY <1>3 DEF OnRequestFinished
  <2> QED  BY <1>1, <1>2, <1>3, <2>1 DEF AInv, Settled, RetainedBounded, Accounted, Users
<1>4. CASE r \in retention.live /\ Servable(retention, r)
  <2>1. retention' = Keep(retention, r)
    BY <1>4 DEF OnRequestFinished
  <2>2. /\ Accounted(retention')
        /\ retention'.live \in SUBSET retention.live
        /\ \A s \in retention'.live \ {r} :
             retention.idle[AgentOf[s]] = s => retention'.idle[AgentOf[s]] = s
        /\ r \in retention'.live => retention'.idle[AgentOf[r]] = r
        /\ Cardinality(Idlers(retention')) <= NumBlocks
    BY <1>1, <1>4, <2>1, KeepAccounted
  <2>3. Settled(retention', Finished')
    BY <1>1, <1>2, <2>2 DEF Settled
  <2> QED  BY <2>2, <2>3 DEF AInv, RetainedBounded, Idlers
<1>5. CASE r \in retention.live /\ ~Servable(retention, r)
  <2>1. retention' = Forget(retention, {r})
    BY <1>5 DEF OnRequestFinished
  <2>2. Accounted(retention') /\ Settled(retention', Finished) /\ KeepsIdle(retention, retention')
    BY <1>1, <2>1, ForgetAccounted, ForgetSettled, ForgetWellFormed
  <2>3. r \notin retention'.live
    BY <2>1 DEF Forget
  <2>4. RetainedBounded'
    BY <1>1, <2>2, BoundedKept
  <2>5. Settled(retention', Finished')
    BY <1>2, <2>2, <2>3 DEF Settled
  <2> QED  BY <2>2, <2>4, <2>5 DEF AInv
<1> QED  BY <1>3, <1>4, <1>5

-----------------------------------------------------------------------------
(* The invariant about rows and transfers.                                 *)

Read(k) == \E r \in Requests : k \in loading[r]
Written(k) == \E r \in Requests : \E J \in storing[r] : k \in J

\* A row is read or written only while resident, never both at once, and by
\* one store job at a time; ref_cnt says which; only idle rows are evictable.
RInv ==
  /\ Cardinality(blocks) <= NumBlocks
  /\ Members(evictable) = {k \in blocks : ~Read(k) /\ ~Written(k)}
  /\ \A k \in Keys : Read(k) \/ Written(k) => k \in blocks
  /\ \A k \in Keys : ~(Read(k) /\ Written(k))
  /\ \A k \in Keys : Written(k) => refCnt[k] = -1
  /\ \A k \in Keys : ~Written(k) => refCnt[k] = Cardinality(Readers(k))
  /\ \A r, s \in Requests : \A J \in storing[r], L \in storing[s] :
       J \cap L # {} => r = s /\ J = L
  /\ CompleteRowsAreWhole

LEMMA InitRInv == Init => RInv
<1> SUFFICES ASSUME Init PROVE RInv
  OBVIOUS
<1>1. \A k \in Keys : ~Read(k) /\ ~Written(k) /\ Readers(k) = {}
  BY DEF Init, Read, Written, Readers
<1>2. Members(evictable) = {}
  BY DEF Init, Members
<1>3. \A k \in Keys : refCnt[k] = Cardinality(Readers(k))
  BY <1>1, FS_EmptySet DEF Init
<1>4. Cardinality(blocks) <= NumBlocks
  BY FS_EmptySet, CapacityAssumption DEF Init
<1>5. CompleteRowsAreWhole
  BY DEF Init, CompleteRowsAreWhole
<1> QED  BY <1>1, <1>2, <1>3, <1>4, <1>5 DEF Init, RInv

\* The invariant says what the run checks, in terms of sets of transfers.
LEMMA RInvSuffices == IInv /\ RInv => TransfersPinRows
<1> SUFFICES ASSUME IInv, RInv PROVE TransfersPinRows
  OBVIOUS
<1>1. \A k \in Keys : Read(k) <=> Readers(k) # {}
  BY DEF Read, Readers
<1>2. ASSUME NEW k \in Keys
      PROVE  /\ Written(k) <=> Writers(k) # {}
             /\ Written(k) => \E w : Writers(k) = {w}
  <2>1. ASSUME NEW r \in Requests, NEW J \in storing[r], k \in J
        PROVE  Writers(k) = {<<r, J>>}
    <3>1. J \in SUBSET Keys
      BY DEF IInv, TypeOK
    <3>2. <<r, J>> \in Writers(k)
      BY <2>1, <3>1 DEF Writers
    <3>3. ASSUME NEW w \in Writers(k) PROVE w = <<r, J>>
      <4>1. w = <<w[1], w[2]>> /\ w[1] \in Requests /\ w[2] \in storing[w[1]] /\ k \in w[2]
        BY DEF Writers
      <4>2. w[1] = r /\ w[2] = J
        BY <2>1, <4>1 DEF RInv
      <4> QED  BY <4>1, <4>2
    <3> QED  BY <3>2, <3>3
  <2>2. ASSUME Writers(k) # {} PROVE Written(k)
    <3>1. PICK w \in Writers(k) : TRUE
      BY <2>2
    <3>2. w[1] \in Requests /\ w[2] \in storing[w[1]] /\ k \in w[2]
      BY DEF Writers
    <3> QED  BY <3>2 DEF Written
  <2>3. Written(k) => \E w : Writers(k) = {w}
    BY <2>1 DEF Written
  <2> QED  BY <2>2, <2>3
<1>3. Members(evictable) = {k \in blocks : Readers(k) = {} /\ Writers(k) = {}}
  <2>1. \A k \in blocks : k \in Keys
    BY DEF IInv, TypeOK
  <2> QED  BY <1>1, <1>2, <2>1 DEF RInv
<1>4. ASSUME NEW k \in Keys
      PROVE  /\ Readers(k) \cup {w[1] : w \in Writers(k)} # {} => k \in blocks
             /\ refCnt[k] = IF Writers(k) = {} THEN Cardinality(Readers(k)) ELSE -1
             /\ Writers(k) # {} => Readers(k) = {} /\ Cardinality(Writers(k)) = 1
  <2>1. Readers(k) \cup {w[1] : w \in Writers(k)} # {} => Read(k) \/ Written(k)
    BY <1>1, <1>2
  <2>2. Writers(k) # {} => Cardinality(Writers(k)) = 1
    <3>1. \A w : Cardinality({w}) = 1
      BY FS_Singleton
    <3> QED  BY <1>2, <3>1
  <2>3. refCnt[k] = IF Writers(k) = {} THEN Cardinality(Readers(k)) ELSE -1
    BY <1>2 DEF RInv
  <2>4. Writers(k) # {} => Readers(k) = {}
    BY <1>1, <1>2 DEF RInv
  <2> QED  BY <2>1, <2>2, <2>3, <2>4 DEF RInv
<1> QED  BY <1>3, <1>4 DEF RInv, TransfersPinRows

\* Steps that leave rows and transfers alone.
LEMMA QuietRows ==
  ASSUME RInv, UNCHANGED <<rows, loading, storing>>
  PROVE  RInv'
BY DEF RInv, rows, Read, Written, Readers, CompleteRowsAreWhole

\* Only finitely many loads read a row.
LEMMA ReadersFinite ==
  ASSUME NEW k
  PROVE  IsFiniteSet(Readers(k)) /\ Cardinality(Readers(k)) \in Nat
<1>1. Readers(k) \in SUBSET Requests
  BY DEF Readers
<1> QED  BY <1>1, RequestAssumption, FS_Subset, FS_CardinalityType

LEMMA PrepareLoadRows ==
  ASSUME IInv, RInv, NEW r \in Requests, NEW K \in SUBSET OffloadKeys[r], PrepareLoad(r, K)
  PROVE  RInv'
<1>1. /\ K \in SUBSET Keys /\ loading[r] = {} /\ \A k \in K : k \in blocks /\ refCnt[k] >= 0
      /\ refCnt' = [k \in Keys |-> IF k \in K THEN refCnt[k] + 1 ELSE refCnt[k]]
      /\ evictable' = Drop(evictable, {k \in K : refCnt[k] = 0})
      /\ loading' = [loading EXCEPT ![r] = K]
      /\ UNCHANGED <<blocks, available, complete, storing>>
  BY DEF PrepareLoad, Hit, HasContent
<1>2. \A k \in K : ~Written(k) /\ refCnt[k] = Cardinality(Readers(k))
  BY <1>1 DEF RInv
<1>3. \A k : Written(k)' <=> Written(k)
  BY <1>1 DEF Written
<1>4. \A k \in Keys : /\ k \in K => Readers(k)' = Readers(k) \cup {r} /\ r \notin Readers(k) /\ Read(k)'
                      /\ k \notin K => Readers(k)' = Readers(k) /\ (Read(k)' <=> Read(k))
  BY <1>1 DEF Readers, Read, IInv, TypeOK
<1>5. Members(evictable') = {k \in blocks' : ~Read(k)' /\ ~Written(k)'}
  <2>1. Members(evictable') = Members(evictable) \ {k \in K : refCnt[k] = 0}
    BY <1>1, DropMembers DEF IInv, TypeOK
  <2>2. \A k \in K : k \in Members(evictable) => refCnt[k] = 0
    <3>1. \A k \in K : k \in Members(evictable) => Readers(k) = {}
      BY DEF RInv, Read, Readers
    <3> QED  BY <1>2, <3>1, FS_EmptySet
  <2>3. Members(evictable') = Members(evictable) \ K
    BY <2>1, <2>2
  <2>4. \A k \in blocks : k \in Keys
    BY DEF IInv, TypeOK
  <2> QED  BY <1>1, <1>3, <1>4, <2>3, <2>4 DEF RInv
<1>6. \A k \in Keys : ~Written(k)' => refCnt'[k] = Cardinality(Readers(k)')
  <2>1. ASSUME NEW k \in K PROVE Cardinality(Readers(k)') = Cardinality(Readers(k)) + 1
    <3>1. Readers(k)' = Readers(k) \cup {r} /\ r \notin Readers(k) /\ IsFiniteSet(Readers(k))
      BY <1>1, <1>4, ReadersFinite
    <3>2. Cardinality(Readers(k) \cup {r}) = Cardinality(Readers(k)) + 1
      BY <3>1, FS_AddElement
    <3> QED  BY <3>1, <3>2
  <2> QED  BY <1>1, <1>2, <1>3, <1>4, <2>1 DEF RInv
<1>7. CompleteRowsAreWhole'
  BY <1>1 DEF RInv, CompleteRowsAreWhole
<1>8. \A k \in Keys : Written(k)' => refCnt'[k] = -1
  BY <1>1, <1>2, <1>3 DEF RInv
<1> QED  BY <1>1, <1>2, <1>3, <1>4, <1>5, <1>6, <1>7, <1>8 DEF RInv

LEMMA CompleteLoadRows ==
  ASSUME IInv, RInv, NEW r \in Requests, CompleteLoad(r)
  PROVE  RInv'
<1> DEFINE K == loading[r]
           idle == {k \in K : refCnt[k] = 1}
<1>1. /\ refCnt' = [k \in Keys |-> IF k \in K THEN refCnt[k] - 1 ELSE refCnt[k]]
      /\ evictable' = PutAllLast(evictable, idle)
      /\ loading' = [loading EXCEPT ![r] = {}]
      /\ UNCHANGED <<blocks, available, complete, storing>>
  BY DEF CompleteLoad
<1>2. K \in SUBSET Keys /\ \A k \in K : /\ Read(k) /\ ~Written(k) /\ k \in blocks /\ r \in Readers(k)
                                        /\ refCnt[k] = Cardinality(Readers(k))
  <2>1. K \in SUBSET Keys
    BY DEF IInv, TypeOK
  <2>2. \A k \in K : Read(k) /\ r \in Readers(k)
    BY DEF Read, Readers
  <2> QED  BY <2>1, <2>2 DEF RInv
<1>3. \A k : Written(k)' <=> Written(k)
  BY <1>1 DEF Written
<1>4. \A k \in Keys : /\ k \in K => Readers(k)' = Readers(k) \ {r}
                      /\ k \notin K => Readers(k)' = Readers(k)
                      /\ Read(k) <=> Readers(k) # {}
                      /\ Read(k)' <=> Readers(k)' # {}
  BY <1>1 DEF Readers, Read, IInv, TypeOK
<1> HIDE DEF K
<1>5. \A k \in K : Cardinality(Readers(k)') = Cardinality(Readers(k)) - 1
  BY <1>2, <1>4, ReadersFinite, FS_RemoveElement
<1>6. \A k \in K : k \in idle <=> ~Read(k)'
  <2>1. \A k \in K : Readers(k)' \in SUBSET Readers(k) /\ IsFiniteSet(Readers(k)')
    BY <1>2, <1>4, ReadersFinite, FS_RemoveElement
  <2>2. \A k \in K : Cardinality(Readers(k)') = 0 <=> Readers(k)' = {}
    BY <2>1, FS_EmptySet
  <2> QED  BY <1>2, <1>4, <1>5, <2>2, ReadersFinite
<1>7. Members(evictable') = {k \in blocks' : ~Read(k)' /\ ~Written(k)'}
  <2>1. idle \in SUBSET Keys /\ Keys \in SUBSET Int /\ evictable \in SUBSET (Keys \X Keys)
    BY <1>2 DEF IInv, TypeOK
  <2>2. Members(evictable') = Members(evictable) \cup idle
    <3>1. evictable' = PutAllLast(evictable, idle)
      BY <1>1
    <3> HIDE DEF idle
    <3>2. Members(PutAllLast(evictable, idle)) = Members(evictable) \cup idle
      BY <2>1, PutAllLastMembers
    <3> QED  BY <3>1, <3>2
  <2>3. \A k \in blocks : k \in Keys
    BY DEF IInv, TypeOK
  <2>4. \A k \in K : k \notin Members(evictable)
    BY <1>2 DEF RInv
  <2>5. \A k \in Keys \ K : k \notin idle /\ (Read(k)' <=> Read(k))
    BY <1>4
  <2> HIDE DEF idle
  <2>6. \A k \in K : k \in Members(evictable') <=> ~Read(k)' /\ ~Written(k)'
    BY <1>2, <1>3, <1>6, <2>2, <2>4
  <2>7. \A k \in Keys \ K : k \in Members(evictable') <=> k \in blocks /\ ~Read(k)' /\ ~Written(k)'
    BY <1>3, <2>2, <2>5 DEF RInv
  <2>8. Members(evictable') \in SUBSET Keys
    BY <2>1, <2>2, <2>3 DEF RInv
  <2> QED  BY <1>1, <1>2, <2>3, <2>6, <2>7, <2>8
<1>8. \A k \in Keys : ~Written(k)' => refCnt'[k] = Cardinality(Readers(k)')
  BY <1>1, <1>2, <1>3, <1>4, <1>5 DEF RInv
<1>9. CompleteRowsAreWhole'
  BY <1>1 DEF RInv, CompleteRowsAreWhole
<1>10. \A k \in Keys : Read(k)' => Read(k)
  BY <1>4
<1>11. \A k \in Keys : Written(k)' => refCnt'[k] = -1
  BY <1>1, <1>2, <1>3 DEF RInv
<1> QED  BY <1>1, <1>3, <1>7, <1>8, <1>9, <1>10, <1>11 DEF RInv

\* A job ends: its rows are no longer written, no other row changes hands.
LEMMA JobEnds ==
  ASSUME IInv, RInv, NEW r \in Requests, NEW J \in storing[r], loading' = loading,
         storing' = [storing EXCEPT ![r] = storing[r] \ {J}]
  PROVE  /\ J \in SUBSET Keys
         /\ \A k : Readers(k)' = Readers(k) /\ (Read(k)' <=> Read(k))
         /\ \A k \in J : ~Written(k)' /\ Written(k) /\ ~Read(k) /\ Readers(k) = {} /\ k \in blocks
         /\ \A k \in Keys \ J : Written(k)' <=> Written(k)
         /\ \A q, s \in Requests : \A M \in storing'[q], L \in storing'[s] :
              M \cap L # {} => q = s /\ M = L
<1>1. J \in SUBSET Keys
  BY DEF IInv, TypeOK
<1>2. \A s \in Requests : storing'[s] = IF s = r THEN storing[s] \ {J} ELSE storing[s]
  BY DEF IInv, TypeOK
<1>3. \A k : Readers(k)' = Readers(k) /\ (Read(k)' <=> Read(k))
  BY DEF Readers, Read
<1>4. ASSUME NEW k \in J
      PROVE  ~Written(k)' /\ Written(k) /\ ~Read(k) /\ Readers(k) = {} /\ k \in blocks
  <2>1. Written(k) /\ k \in Keys
    BY <1>1 DEF Written
  <2>2. ~Read(k) /\ k \in blocks
    BY <2>1 DEF RInv
  <2>3. ASSUME NEW s \in Requests, NEW L \in storing'[s], k \in L PROVE FALSE
    <3>1. L \in storing[s] /\ (s = r => L # J) /\ J \cap L # {}
      BY <1>2, <2>3
    <3> QED  BY <3>1 DEF RInv
  <2> QED  BY <2>1, <2>2, <2>3 DEF Written, Read, Readers
<1>5. \A k \in Keys \ J : Written(k)' <=> Written(k)
  BY <1>2 DEF Written
<1>6. \A q, s \in Requests : \A M \in storing'[q], L \in storing'[s] :
        M \cap L # {} => q = s /\ M = L
  BY <1>2 DEF RInv
<1> QED  BY <1>1, <1>3, <1>4, <1>5, <1>6

LEMMA CompleteStoreRows ==
  ASSUME IInv, RInv, NEW r \in Requests, NEW J \in storing[r], CompleteStore(r, J)
  PROVE  RInv'
<1>1. /\ refCnt' = [k \in Keys |-> IF k \in J THEN 0 ELSE refCnt[k]]
      /\ evictable' = PutAllLast(evictable, J)
      /\ storing' = [storing EXCEPT ![r] = storing[r] \ {J}]
      /\ UNCHANGED <<blocks, available, complete, loading>>
  BY DEF CompleteStore
<1>2. /\ J \in SUBSET Keys
      /\ \A k : Readers(k)' = Readers(k) /\ (Read(k)' <=> Read(k))
      /\ \A k \in J : ~Written(k)' /\ Written(k) /\ ~Read(k) /\ Readers(k) = {} /\ k \in blocks
      /\ \A k \in Keys \ J : Written(k)' <=> Written(k)
      /\ \A q, s \in Requests : \A M \in storing'[q], L \in storing'[s] :
           M \cap L # {} => q = s /\ M = L
  BY <1>1, JobEnds
<1>3. Members(evictable') = {k \in blocks' : ~Read(k)' /\ ~Written(k)'}
  <2>1. evictable \in SUBSET (Keys \X Keys) /\ Keys \in SUBSET Int
    BY DEF IInv, TypeOK
  <2>2. Members(evictable') = Members(evictable) \cup J
    BY <1>1, <1>2, <2>1, PutAllLastMembers, SMTT(30)
  <2>3. \A k \in blocks : k \in Keys
    BY DEF IInv, TypeOK
  <2> QED  BY <1>1, <1>2, <2>2, <2>3 DEF RInv
<1>4. \A k \in Keys : ~Written(k)' => refCnt'[k] = Cardinality(Readers(k)')
  BY <1>1, <1>2, FS_EmptySet DEF RInv
<1>5. CompleteRowsAreWhole'
  BY <1>1 DEF RInv, CompleteRowsAreWhole
<1>6. \A k \in Keys : Written(k)' => refCnt'[k] = -1
  BY <1>1, <1>2 DEF RInv
<1>7. \A k \in Keys : (Read(k)' \/ Written(k)' => k \in blocks') /\ ~(Read(k)' /\ Written(k)')
  BY <1>1, <1>2 DEF RInv
<1> QED  BY <1>1, <1>2, <1>3, <1>4, <1>5, <1>6, <1>7 DEF RInv

LEMMA FailStoreRows ==
  ASSUME IInv, RInv, NEW r \in Requests, NEW J \in storing[r], FailStore(r, J)
  PROVE  RInv'
<1>1. /\ blocks' = blocks \ J
      /\ refCnt' = [k \in Keys |-> IF k \in J THEN 0 ELSE refCnt[k]]
      /\ available' = RemovedAvailable(J)
      /\ complete' = complete \ J
      /\ evictable' = Drop(evictable, J)
      /\ storing' = [storing EXCEPT ![r] = storing[r] \ {J}]
      /\ loading' = loading
  BY DEF FailStore
<1>2. /\ J \in SUBSET Keys
      /\ \A k : Readers(k)' = Readers(k) /\ (Read(k)' <=> Read(k))
      /\ \A k \in J : ~Written(k)' /\ Written(k) /\ ~Read(k) /\ Readers(k) = {} /\ k \in blocks
      /\ \A k \in Keys \ J : Written(k)' <=> Written(k)
      /\ \A q, s \in Requests : \A M \in storing'[q], L \in storing'[s] :
           M \cap L # {} => q = s /\ M = L
  BY <1>1, JobEnds
<1>3. Members(evictable') = {k \in blocks' : ~Read(k)' /\ ~Written(k)'}
  <2>1. Members(evictable') = Members(evictable) \ J
    BY <1>1, DropMembers DEF IInv, TypeOK
  <2>2. \A k \in blocks : k \in Keys
    BY DEF IInv, TypeOK
  <2> QED  BY <1>1, <1>2, <2>1, <2>2 DEF RInv
<1>4. \A k \in Keys : ~Written(k)' => refCnt'[k] = Cardinality(Readers(k)')
  BY <1>1, <1>2, FS_EmptySet DEF RInv
<1>5. CompleteRowsAreWhole'
  BY <1>1 DEF RInv, CompleteRowsAreWhole, RemovedAvailable, IInv, TypeOK
<1>6. \A k \in Keys : Written(k)' => refCnt'[k] = -1
  BY <1>1, <1>2 DEF RInv
<1>7. \A k \in Keys : (Read(k)' \/ Written(k)' => k \in blocks') /\ ~(Read(k)' /\ Written(k)')
  BY <1>1, <1>2 DEF RInv
<1>8. Cardinality(blocks') <= NumBlocks
  <2>1. IsFiniteSet(blocks) /\ blocks' \in SUBSET blocks
    BY <1>1, FS_Subset DEF IInv, TypeOK
  <2>2. /\ Cardinality(blocks') <= Cardinality(blocks)
        /\ Cardinality(blocks') \in Nat /\ Cardinality(blocks) \in Nat
    BY <2>1, FS_Subset, FS_CardinalityType
  <2> QED  BY <2>2, CapacityAssumption DEF RInv
<1> QED  BY <1>2, <1>3, <1>4, <1>5, <1>6, <1>7, <1>8 DEF RInv

LEMMA ResetRows == ResetCache => RInv'
<1> SUFFICES ASSUME ResetCache PROVE RInv'
  OBVIOUS
<1>1. \A k : ~Read(k)' /\ ~Written(k)' /\ Readers(k)' = {}
  BY DEF ResetCache, Read, Written, Readers
<1>2. Members(evictable') = {}
  BY DEF ResetCache, Members
<1>3. \A k \in Keys : refCnt'[k] = Cardinality(Readers(k)')
  BY <1>1, FS_EmptySet DEF ResetCache
<1>4. Cardinality(blocks') <= NumBlocks
  BY FS_EmptySet, CapacityAssumption DEF ResetCache
<1>5. CompleteRowsAreWhole'
  BY DEF ResetCache, CompleteRowsAreWhole
<1> QED  BY <1>1, <1>2, <1>3, <1>4, <1>5 DEF ResetCache, RInv

-----------------------------------------------------------------------------
(* A store that is admitted.                                               *)

\* The working sets after the store's call, and the rows it will write.
AfterCall(r, K) == Retain(retention, r, retention.keys[r] \cup K, need[r])
ToWrite(K, f) == NewKeys(K) \cup Upgrades(K, f)

\* The plan evicts only idle rows.
LEMMA PlanEvictsIdle ==
  ASSUME NEW t, NEW r, NEW K
  PROVE  Plan(t, r, K).evict \subseteq Members(evictable)
<1>1. \A R : Reclaimable(t, K, R) \subseteq Members(evictable)
  BY DEF Reclaimable
<1>2. First(evictable, Reclaimable(t, K, {}), Deficit(K)) \subseteq Reclaimable(t, K, {})
  BY FirstTyping
<1> QED  BY <1>1, <1>2 DEF Plan

\* A store makes room by evicting E, fills U and writes W: what it evicts is idle
\* and none of the keys stored; what it writes is not in transfer, and is either
\* missing or a partial row.
Makes(r, K, E, U, W) ==
  /\ E \in SUBSET (blocks \ K) /\ \A k \in E : ~Read(k) /\ ~Written(k)
  /\ W \in SUBSET K /\ W # {} /\ W \cap blocks = U
  /\ \A k \in W : ~Read(k) /\ ~Written(k) /\ Readers(k) = {} /\ k \notin complete
  /\ Cardinality(E) >= Deficit(K)
  /\ blocks' = (blocks \ E) \cup W
  /\ refCnt' = [k \in Keys |-> IF k \in W THEN -1 ELSE refCnt[k]]
  /\ evictable' = Drop(evictable, E \cup U)
  /\ storing' = [storing EXCEPT ![r] = storing[r] \cup {W}]
  /\ \A k \in Keys : /\ k \notin W \cup E => available'[k] = available[k]
                     /\ k \in U => available[k] \subseteq available'[k]
  /\ complete' = (complete \ E) \cup {k \in W : available'[k] = Content[k]}

LEMMA StoreEffect ==
  ASSUME IInv, RInv, NEW r \in Requests, phase[r] = "running", NEW K \in SUBSET OffloadKeys[r],
         NEW f \in Choices(K), StoreAdmitted(r, K, f)
  PROVE  Makes(r, K, Plan(AfterCall(r, K), r, K).evict, Upgrades(K, f), ToWrite(K, f))
<1> DEFINE t == AfterCall(r, K)
           plan == Plan(t, r, K)
           upgrades == Upgrades(K, f)
           W == ToWrite(K, f)
           content(k) == IF k \in upgrades THEN available[k] \cup f[k] ELSE f[k]
<1>1. /\ \A k \in upgrades : refCnt[k] = 0
      /\ W # {} /\ Cardinality(plan.evict) >= Deficit(K)
      /\ blocks' = (blocks \ plan.evict) \cup W
      /\ refCnt' = [k \in Keys |-> IF k \in W THEN -1 ELSE refCnt[k]]
      /\ available' = [k \in Keys |-> IF k \in W THEN content(k)
                                                 ELSE RemovedAvailable(plan.evict)[k]]
      /\ complete' = (complete \ plan.evict) \cup {k \in W : content(k) = Content[k]}
      /\ evictable' = Drop(evictable, plan.evict \cup upgrades)
      /\ storing' = [storing EXCEPT ![r] = storing[r] \cup {W}]
  BY DEF StoreAdmitted, AfterCall, ToWrite
<1>2. K \in SUBSET Keys /\ need[r] \in [Keys -> SUBSET Units] /\ retention.keys[r] \cup K \in SUBSET Keys
  BY DEF IInv, TypeOK, Retention
<1>3. WellFormed(t)
  BY <1>2, RetainCall DEF AfterCall
<1>4. W \in SUBSET K /\ W \cap blocks = upgrades /\ \A k \in W : k \notin complete
  BY DEF ToWrite, NewKeys, Upgrades, RInv, CompleteRowsAreWhole
<1>5. ASSUME NEW k \in W PROVE ~Read(k) /\ ~Written(k) /\ Readers(k) = {}
  <2>1. k \in Keys
    BY <1>2, <1>4
  <2>2. CASE k \notin blocks
    BY <2>1, <2>2 DEF RInv, Read, Readers
  <2>3. CASE k \in blocks
    <3>1. refCnt[k] = 0
      BY <1>1, <1>4, <2>3
    <3>2. ~Written(k) /\ Cardinality(Readers(k)) = 0
      BY <2>1, <3>1 DEF RInv
    <3>3. Readers(k) = {}
      BY <3>2, ReadersFinite, FS_EmptySet
    <3> QED  BY <3>2, <3>3 DEF Read, Readers
  <2> QED  BY <2>2, <2>3
<1> HIDE DEF t
<1>6. plan.evict \in SUBSET (Keys \ K)
  <2>1. evictable \in SUBSET (Keys \X Keys)
    BY DEF IInv, TypeOK
  <2> QED  BY <1>2, <1>3, <2>1, PlanRespectsReferences
<1>7. plan.evict \subseteq Members(evictable)
  BY PlanEvictsIdle
<1> HIDE DEF plan, W, upgrades
<1>8. plan.evict \in SUBSET (blocks \ K) /\ \A k \in plan.evict : ~Read(k) /\ ~Written(k)
  BY <1>6, <1>7 DEF RInv
<1>9. \A k \in Keys : /\ k \notin W \cup plan.evict => available'[k] = available[k]
                      /\ k \in upgrades => available[k] \subseteq available'[k]
                      /\ k \in W => available'[k] = content(k)
  BY <1>1, <1>4 DEF RemovedAvailable
<1>10. complete' = (complete \ plan.evict) \cup {k \in W : available'[k] = Content[k]}
  BY <1>1, <1>2, <1>4, <1>9
<1> QED  BY <1>1, <1>4, <1>5, <1>8, <1>9, <1>10 DEF t, plan, W, upgrades, Makes

LEMMA StoreAdmittedRows ==
  ASSUME IInv, RInv, NEW r \in Requests, phase[r] = "running", NEW K \in SUBSET OffloadKeys[r],
         NEW f \in Choices(K), StoreAdmitted(r, K, f), loading' = loading
  PROVE  RInv'
<1> DEFINE E == Plan(AfterCall(r, K), r, K).evict
           U == Upgrades(K, f)
           W == ToWrite(K, f)
<1>1. /\ E \in SUBSET (blocks \ K) /\ \A k \in E : ~Read(k) /\ ~Written(k)
      /\ W \in SUBSET K /\ W # {} /\ W \cap blocks = U
      /\ \A k \in W : ~Read(k) /\ ~Written(k) /\ Readers(k) = {} /\ k \notin complete
      /\ Cardinality(E) >= Deficit(K)
      /\ blocks' = (blocks \ E) \cup W
      /\ refCnt' = [k \in Keys |-> IF k \in W THEN -1 ELSE refCnt[k]]
      /\ evictable' = Drop(evictable, E \cup U)
      /\ storing' = [storing EXCEPT ![r] = storing[r] \cup {W}]
      /\ \A k \in Keys : k \notin W \cup E => available'[k] = available[k]
      /\ complete' = (complete \ E) \cup {k \in W : available'[k] = Content[k]}
  <2>1. Makes(r, K, E, U, W)
    BY StoreEffect
  <2> HIDE DEF E, U, W
  <2> QED  BY <2>1 DEF Makes
<1>2. NewKeys(K) = W \ blocks
  BY DEF NewKeys, ToWrite, Upgrades
<1> HIDE DEF E, U, W
<1>3. blocks \in SUBSET Keys /\ K \in SUBSET Keys /\ evictable \in SUBSET (Keys \X Keys)
  BY DEF IInv, TypeOK
<1>4. \A s \in Requests : storing'[s] = IF s = r THEN storing[r] \cup {W} ELSE storing[s]
  BY <1>1 DEF IInv, TypeOK
<1>5. \A k : /\ Readers(k)' = Readers(k) /\ (Read(k)' <=> Read(k))
             /\ Written(k)' <=> Written(k) \/ k \in W
  BY <1>4 DEF Readers, Read, Written
<1>6. Members(evictable') = {k \in blocks' : ~Read(k)' /\ ~Written(k)'}
  <2>1. Members(evictable') = Members(evictable) \ (E \cup U)
    BY <1>1, <1>3, DropMembers, ZenonT(60)
  <2> QED  BY <1>1, <1>5, <2>1 DEF RInv
<1>7. \A q, s \in Requests : \A M \in storing'[q], L \in storing'[s] :
        M \cap L # {} => q = s /\ M = L
  <2>1. \A q \in Requests : \A M \in storing[q] : M \cap W = {}
    BY <1>1 DEF Written
  <2> QED  BY <1>4, <2>1 DEF RInv
\* The tier has room: the plan covered the deficit.
<1>8. Cardinality(blocks') <= NumBlocks
  <2> DEFINE A == blocks \ E
             N == NewKeys(K)
  <2>1. IsFiniteSet(blocks) /\ IsFiniteSet(A) /\ IsFiniteSet(N) /\ IsFiniteSet(E)
    BY <1>1, <1>2, <1>3, FS_Subset
  <2>2. blocks \cap E = E /\ A \cap N = {} /\ blocks' = A \cup N
    BY <1>1, <1>2
  <2>3. Cardinality(A) = Cardinality(blocks) - Cardinality(blocks \cap E)
    BY <2>1, FS_Difference
  <2> HIDE DEF A, N
  <2>4. Cardinality(A \cup N) = Cardinality(A) + Cardinality(N) - Cardinality(A \cap N)
    BY <2>1, FS_Union
  <2>5. Cardinality(A \cap N) = 0
    BY <2>2, FS_EmptySet
  <2>6. /\ Cardinality(A) \in Nat /\ Cardinality(N) \in Nat
        /\ Cardinality(E) \in Nat /\ Cardinality(blocks) \in Nat
    BY <2>1, FS_CardinalityType
  <2>7. Cardinality(E) >= Cardinality(N) - (NumBlocks - Cardinality(blocks))
    BY <1>1 DEF Deficit, N
  <2>8. Cardinality(A) = Cardinality(blocks) - Cardinality(E)
    BY <2>2, <2>3
  <2>9. Cardinality(blocks') = Cardinality(A) + Cardinality(N)
    BY <2>2, <2>4, <2>5, <2>6
  <2> QED  BY <2>6, <2>7, <2>8, <2>9, CapacityAssumption
<1>9. CompleteRowsAreWhole'
  <2>1. \A k \in complete : k \in blocks /\ available[k] = Content[k]
    BY DEF RInv, CompleteRowsAreWhole
  <2>2. \A k \in blocks : available[k] = Content[k] => k \in complete
    BY DEF RInv, CompleteRowsAreWhole
  <2>3. ASSUME NEW k PROVE k \in complete' <=> k \in blocks' /\ available'[k] = Content[k]
    <3>1. CASE k \in W
      BY <1>1, <3>1
    <3>2. CASE k \in E
      BY <1>1, <3>2
    <3>3. CASE k \notin W \cup E
      BY <1>1, <1>3, <2>1, <2>2, <3>3
    <3> QED  BY <3>1, <3>2, <3>3
  <2> QED  BY <2>3 DEF CompleteRowsAreWhole
<1>10. \A k \in Keys : /\ Written(k)' => refCnt'[k] = -1
                       /\ ~Written(k)' => refCnt'[k] = Cardinality(Readers(k)')
                       /\ Read(k)' \/ Written(k)' => k \in blocks'
                       /\ ~(Read(k)' /\ Written(k)')
  BY <1>1, <1>5 DEF RInv
<1> QED  BY <1>6, <1>7, <1>8, <1>9, <1>10 DEF RInv

-----------------------------------------------------------------------------
(* What a step may never do: the bodies of the action properties.          *)

KeepsData ==
  \A r \in retention.live \cap retention'.live :
    \A k \in blocks \cap retention.keys[r] \cap retention'.keys[r] :
      k \in blocks' /\ available[k] \subseteq available'[k]

ReplacesOwn ==
  (blocks' = blocks /\ storing' = storing /\ phase' = phase /\ retention'.live # {}) =>
    \A s \in Lost :
      /\ retention.idle[AgentOf[s]] = s
      /\ \E r \in retention'.live : AgentOf[r] = AgentOf[s] /\ retention'.keys[r] # {}

\* A call that moves no data replaces at most the idle turn of its own agent.
LEMMA CallReplaces ==
  ASSUME IInv, AInv, NEW r \in Requests, phase[r] = "running", NEW K \in SUBSET Keys,
         NEW needed \in [Keys -> SUBSET Units]
  PROVE  retention' = Retain(retention, r, K, needed) => ReplacesOwn
<1> DEFINE w == Retain(retention, r, K, needed)
<1>1. WellFormed(retention) /\ \A a \in Agents : retention.idle[a] # r
  BY RunningIsNotIdle DEF IInv
<1>2. /\ WellFormed(w) /\ Accounted(w) /\ Settled(w, Finished)
      /\ w.live = (retention.live \cup {r}) \ Replaced(retention, r, K)
      /\ w.keys[r] = K
  BY CallContexts, ZenonT(60)
<1> HIDE DEF w
<1> SUFFICES ASSUME retention' = w, NEW s \in Lost
             PROVE  /\ retention.idle[AgentOf[s]] = s
                    /\ \E q \in retention'.live : AgentOf[q] = AgentOf[s] /\ retention'.keys[q] # {}
  BY DEF ReplacesOwn, w
<1>3. s \in Replaced(retention, r, K)
  BY <1>2 DEF Lost
<1>4. K # {} /\ s = retention.idle[AgentOf[r]] /\ s # NoRequest /\ AgentOf[r] \in Agents
  BY <1>3 DEF Replaced
<1>5. AgentOf[s] = AgentOf[r] /\ r # s
  BY <1>1, <1>4 DEF WellFormed
<1>6. r \in retention'.live
  BY <1>1, <1>2, <1>4 DEF Replaced
<1> QED  BY <1>2, <1>4, <1>5, <1>6

\* A failed store takes rows only from under contexts that it forgets.
LEMMA FailStoreKeepsData ==
  ASSUME IInv, NEW r \in Requests, NEW J \in storing[r], FailStore(r, J)
  PROVE  KeepsData
<1> DEFINE R == UNION {retention.references[k] : k \in J}
<1>1. /\ retention' = Forget(retention, R) /\ blocks' = blocks \ J
      /\ available' = RemovedAvailable(J)
  BY DEF FailStore
<1> SUFFICES ASSUME NEW s \in retention.live \cap retention'.live,
                    NEW k \in blocks \cap retention.keys[s]
             PROVE  k \in blocks' /\ available[k] \subseteq available'[k]
  BY DEF KeepsData
<1>2. k \in Keys /\ s \notin R
  BY <1>1 DEF Forget, IInv, TypeOK
<1>3. s \in retention.references[k]
  BY <1>2 DEF IInv, WellFormed
<1>4. k \notin J
  BY <1>2, <1>3
<1> QED  BY <1>1, <1>2, <1>4 DEF RemovedAvailable

\* A store evicts rows only from under contexts that it releases, and adds to
\* the rows it fills.
LEMMA StoreKeepsData ==
  ASSUME IInv, RInv, NEW r \in Requests, phase[r] = "running", NEW K \in SUBSET OffloadKeys[r],
         NEW f \in Choices(K), StoreAdmitted(r, K, f)
  PROVE  KeepsData
<1> DEFINE t == AfterCall(r, K)
           V == Plan(t, r, K).victims
           E == Plan(t, r, K).evict
           U == Upgrades(K, f)
           W == ToWrite(K, f)
           R == RequestsOf(t, V)
<1>1. Makes(r, K, E, U, W)
  BY StoreEffect
<1>2. retention' = Forget(t, R)
  BY DEF StoreAdmitted, AfterCall
<1>3. WellFormed(t)
  <2>1. need[r] \in [Keys -> SUBSET Units] /\ retention.keys[r] \cup K \in SUBSET Keys
    BY DEF IInv, TypeOK, Retention
  <2> QED  BY <2>1, RetainCall DEF AfterCall
<1> HIDE DEF t
<1>4. \A k \in E : t.references[k] \subseteq R
  <2>1. evictable \in SUBSET (Keys \X Keys) /\ K \in SUBSET Keys
    BY DEF IInv, TypeOK
  <2> QED  BY <1>3, <2>1, PlanRespectsReferences
<1> HIDE DEF V, E, U, W, R
<1> SUFFICES ASSUME NEW s \in retention.live \cap retention'.live,
                    NEW k \in blocks \cap retention.keys[s] \cap retention'.keys[s]
             PROVE  k \in blocks' /\ available[k] \subseteq available'[k]
  BY DEF KeepsData
<1>5. k \in Keys /\ s \in t.live \ R /\ s \in Requests
  BY <1>2, <1>3 DEF Forget, IInv, TypeOK, WellFormed, Retention
<1>6. s \in t.references[k]
  BY <1>2, <1>3, <1>5 DEF WellFormed, Forget
<1>7. k \notin E
  BY <1>4, <1>5, <1>6
<1> QED  BY <1>1, <1>5, <1>7 DEF Makes

\* An admitted store starts a job that was not in flight.
LEMMA StoreStarts ==
  ASSUME IInv, RInv, NEW r \in Requests, phase[r] = "running", NEW K \in SUBSET OffloadKeys[r],
         NEW f \in Choices(K), StoreAdmitted(r, K, f)
  PROVE  /\ \A s \in Requests : Starts(s) <=> s = r
         /\ storing' # storing
<1> DEFINE W == ToWrite(K, f)
           E == Plan(AfterCall(r, K), r, K).evict
<1>0. Makes(r, K, E, Upgrades(K, f), W)
  BY StoreEffect
<1> HIDE DEF W, E
<1>1. /\ W # {} /\ \A k \in W : ~Written(k)
      /\ storing' = [storing EXCEPT ![r] = storing[r] \cup {W}]
  BY <1>0 DEF Makes
<1>2. W \notin storing[r]
  BY <1>1 DEF Written
<1>3. \A s \in Requests : storing'[s] = IF s = r THEN storing[r] \cup {W} ELSE storing[s]
  BY <1>1 DEF IInv, TypeOK
<1> QED  BY <1>2, <1>3 DEF Starts

-----------------------------------------------------------------------------
(* What a store under pressure releases.                                   *)

\* The working sets of the other agents' contexts, as a call of r leaves them.
Others(t, r) ==
  /\ WellFormed(t) /\ Accounted(t)
  /\ \A s \in retention.live \ t.live : AgentOf[s] = AgentOf[r]
  /\ \A a \in Agents \ {AgentOf[r]} : t.agents[a] = retention.agents[a]
  /\ \A a, b \in Agents \ {AgentOf[r]} : <<a, b>> \in t.order <=> <<a, b>> \in retention.order
  /\ \A s \in t.live : AgentOf[s] # AgentOf[r] => s \in retention.live /\ t.keys[s] = retention.keys[s]

LEMMA CallOthers ==
  ASSUME IInv, AInv, NEW r \in Requests, phase[r] = "running", NEW K \in SUBSET OffloadKeys[r]
  PROVE  Others(AfterCall(r, K), r)
<1> DEFINE M == retention.keys[r] \cup K
           t == Retain(retention, r, M, need[r])
           S == Replaced(retention, r, M)
<1>1. M \in SUBSET Keys /\ need[r] \in [Keys -> SUBSET Units]
  BY DEF IInv, TypeOK, Retention
<1>2. WellFormed(retention) /\ Accounted(retention) /\ \A a \in Agents : retention.idle[a] # r
  BY RunningIsNotIdle DEF IInv, AInv
<1> HIDE DEF M
<1>3. WellFormed(t)
  BY <1>1, RetainCall
<1>4. /\ Accounted(t)
      /\ t.live = (retention.live \cup {r}) \ S
      /\ t.keys[r] = M
      /\ \A s \in Requests \ ({r} \cup S) : t.keys[s] = retention.keys[s]
      /\ \A a \in Agents : t.idle[a] = IF retention.idle[a] \in S THEN NoRequest ELSE retention.idle[a]
      /\ \A a \in Agents \ {AgentOf[r]} : t.agents[a] = retention.agents[a]
      /\ \A a, b \in Agents \ {AgentOf[r]} : <<a, b>> \in t.order <=> <<a, b>> \in retention.order
  BY <1>1, <1>2, RetainAccounted, SMTT(60)
<1>5. \A s \in S : AgentOf[s] = AgentOf[r]
  BY <1>2 DEF Replaced, WellFormed
<1> HIDE DEF t, S
<1>6. \A s \in retention.live \ t.live : AgentOf[s] = AgentOf[r]
  BY <1>4, <1>5
<1>7. \A s \in t.live : AgentOf[s] # AgentOf[r] => s \in retention.live /\ t.keys[s] = retention.keys[s]
  <2>1. \A s \in t.live : s \in Requests
    BY <1>3 DEF WellFormed, Retention
  <2> QED  BY <1>4, <1>5, <2>1
<1>8. Others(t, r)
  BY <1>3, <1>4, <1>6, <1>7 DEF Others
<1> QED  BY <1>8 DEF t, M, AfterCall

\* The victims are the other agents up to some most recent one, and fewer of
\* them would not have freed enough rows.
LEMMA VictimsAreLeast ==
  ASSUME NEW t, WellFormed(t), Accounted(t), NEW r \in Requests, NEW K \in SUBSET Keys
  PROVE  LET plan == Plan(t, r, K)
             others == Users(t) \ {AgentOf[r]}
         IN  /\ plan.victims \in SUBSET others
             /\ \A a \in plan.victims, b \in others : <<b, a>> \in t.order => b \in plan.victims
             /\ \A a \in plan.victims : (\A b \in plan.victims : <<b, a>> \in t.order) =>
                  ~(Cardinality(Reclaimable(t, K, RequestsOf(t, plan.victims \ {a}))) >= Deficit(K))
<1> DEFINE others == Users(t) \ {AgentOf[r]}
           enough(A) == Cardinality(Reclaimable(t, K, RequestsOf(t, A))) >= Deficit(K)
           V == Victims(t, r, K)
<1>1. IsOrder(t.order, Users(t)) /\ Members(t.order) = Users(t)
  BY OrderMembers DEF Accounted
<1>2. V = {v \in others : \A u \in UpTo(t.order, others, v) \ {v} : ~enough(UpTo(t.order, others, u))}
  BY <1>1 DEF Victims
<1>3. CASE Cardinality(Reclaimable(t, K, {})) >= Deficit(K)
  <2>1. Plan(t, r, K).victims = {}
    BY <1>3 DEF Plan
  <2> QED  BY <2>1
<1>4. CASE ~(Cardinality(Reclaimable(t, K, {})) >= Deficit(K))
  <2>1. Plan(t, r, K).victims = V
    BY <1>4 DEF Plan
  <2>2. ~enough({})
    <3>1. RequestsOf(t, {}) = {}
      BY DEF RequestsOf
    <3> QED  BY <1>4, <3>1
  <2> HIDE DEF enough, V, others
  <2>3. others \in SUBSET Users(t) /\ IsFiniteSet(others)
    <3>1. others \in SUBSET {AgentOf[s] : s \in Requests}
      BY DEF others, Users, Accounted, WellFormed, Retention
    <3> QED  BY <3>1, FiniteAgents, FS_Subset DEF others
  <2>4. ASSUME NEW a \in V, NEW b \in others, <<b, a>> \in t.order PROVE b \in V
    <3> SUFFICES ASSUME NEW u \in UpTo(t.order, others, b) \ {b}
                 PROVE  ~enough(UpTo(t.order, others, u))
      BY <1>2
    <3>1. u \in others /\ <<u, b>> \in t.order /\ a \in others
      BY <1>2 DEF UpTo
    <3>2. <<u, a>> \in t.order
      BY <1>1, <2>3, <2>4, <3>1 DEF IsOrder
    <3>3. u # a
      BY <1>1, <2>3, <2>4, <3>1 DEF IsOrder
    <3> QED  BY <1>2, <3>1, <3>2, <3>3 DEF UpTo
  <2>5. ASSUME NEW a \in V, \A b \in V : <<b, a>> \in t.order PROVE ~enough(V \ {a})
    <3>1. CASE V \ {a} = {}
      BY <2>2, <3>1
    <3>2. CASE V \ {a} # {}
      <4>1. V \ {a} \in SUBSET Users(t) /\ IsFiniteSet(V \ {a})
        <5>1. V \ {a} \in SUBSET others
          BY <1>2
        <5> QED  BY <2>3, <5>1, FS_Subset
      <4>2. PICK u \in V \ {a} : \A b \in V \ {a} : <<b, u>> \in t.order
        BY <1>1, <3>2, <4>1, MostRecent, SMTT(30)
      <4>3. UpTo(t.order, others, u) = V \ {a}
        <5>1. u \in others /\ a \in others /\ \A b \in V : b \in others
          BY <1>2
        <5>2. \A b \in UpTo(t.order, others, u) : b \in V
          BY <2>4, <4>2 DEF UpTo
        <5>3. a \notin UpTo(t.order, others, u)
          BY <1>1, <2>3, <2>5, <4>2, <5>1 DEF UpTo, IsOrder
        <5> QED  BY <4>2, <5>1, <5>2, <5>3 DEF UpTo
      <4>4. u \in UpTo(t.order, others, a) \ {a}
        BY <1>2, <2>5, <4>2 DEF UpTo
      <4> QED  BY <1>2, <4>3, <4>4
    <3> QED  BY <3>1, <3>2
  <2>6. V \in SUBSET others
    BY <1>2
  <2> QED  BY <2>1, <2>4, <2>5, <2>6 DEF others, enough
<1> QED  BY <1>3, <1>4

\* What a store of r releases, as PressureReleasesWholeAgents states it.
ReleasesWhole(r) ==
  LET me == AgentOf[r]
      released == {AgentOf[s] : s \in Lost} \ {me}
      needless(a) == {k \in blocks \ blocks' : retention.references[k] \cap
                                               retention.agents[a] # {}}
  IN  /\ \A s \in retention'.live : AgentOf[s] \notin released
      /\ \A a \in released, b \in Agents \ {me} :
           <<b, a>> \in retention.order => b \in released
      /\ \A a \in released :
           (\A b \in released : <<b, a>> \in retention.order) =>
             Cardinality(blocks') + Cardinality(needless(a)) > NumBlocks

\* Releasing agent a as the last one freed the rows that only its requests,
\* besides those of the agents before it, referred to.
LEMMA LastFrees ==
  ASSUME NEW r \in Requests, NEW t, Others(t, r), NEW K \in SUBSET Keys,
         WellFormed(retention), Accounted(retention),
         NEW V \in SUBSET (Users(t) \ {AgentOf[r]}), NEW a \in V,
         NEW k \in Reclaimable(t, K, RequestsOf(t, V)),
         retention.references[k] \cap retention.agents[a] = {}, k \in Keys
  PROVE  k \in Reclaimable(t, K, RequestsOf(t, V \ {a}))
<1>1. t.references[k] \subseteq RequestsOf(t, V) /\ k \in Members(evictable) \ K
  BY DEF Reclaimable
<1>2. ASSUME NEW s \in t.references[k] PROVE s \in RequestsOf(t, V \ {a})
  <2>1. s \in t.live /\ k \in t.keys[s]
    BY <1>2 DEF Others, WellFormed
  <2>2. PICK b \in V : s \in t.agents[b]
    BY <1>1, <1>2 DEF RequestsOf
  <2>3. b \in Agents /\ b # AgentOf[r] /\ AgentOf[s] = b
    BY <2>2 DEF Others, Accounted, Users
  <2>4. s \in retention.live /\ k \in retention.keys[s]
    BY <2>1, <2>3 DEF Others
  <2>5. s \in retention.references[k] /\ s \in retention.agents[b]
    BY <2>3, <2>4 DEF WellFormed, Accounted
  <2>6. b # a
    BY <2>5
  <2> QED  BY <2>2, <2>6 DEF RequestsOf
<1> QED  BY <1>1, <1>2 DEF Reclaimable

LEMMA StoreReleases ==
  ASSUME IInv, AInv, RInv, NEW r \in Requests, phase[r] = "running",
         NEW K \in SUBSET OffloadKeys[r], NEW f \in Choices(K), StoreAdmitted(r, K, f)
  PROVE  ReleasesWhole(r)
<1> DEFINE t == AfterCall(r, K)
           V == Plan(t, r, K).victims
           E == Plan(t, r, K).evict
           U == Upgrades(K, f)
           W == ToWrite(K, f)
           R == RequestsOf(t, V)
           others == Users(t) \ {AgentOf[r]}
           released == {AgentOf[s] : s \in Lost} \ {AgentOf[r]}
           needless(a) == {k \in blocks \ blocks' : retention.references[k] \cap
                                                    retention.agents[a] # {}}
<1>1. Makes(r, K, E, U, W) /\ Others(t, r)
  BY StoreEffect, CallOthers
<1>2. retention' = Forget(t, R)
  BY DEF StoreAdmitted, AfterCall
<1>3. K \in SUBSET Keys /\ WellFormed(t) /\ Accounted(t) /\ WellFormed(retention) /\ Accounted(retention)
  BY <1>1 DEF Others, IInv, AInv
<1>4. V # {} => E = Reclaimable(t, K, R)
  BY DEF Plan
<1>5. NewKeys(K) = W \ blocks
  BY DEF NewKeys, ToWrite, Upgrades
<1> HIDE DEF t, E, U, W
<1>6. /\ V \in SUBSET others
      /\ \A a \in V, b \in others : <<b, a>> \in t.order => b \in V
      /\ \A a \in V : (\A b \in V : <<b, a>> \in t.order) =>
           ~(Cardinality(Reclaimable(t, K, RequestsOf(t, V \ {a}))) >= Deficit(K))
  BY <1>3, VictimsAreLeast
<1> HIDE DEF V
\* The agents that lose a context are the victims, who lose them all.
<1>7. released = V /\ \A s \in retention'.live : AgentOf[s] \notin V
  <2>1. retention'.live = t.live \ R /\ t.live \in SUBSET Requests
    BY <1>2, <1>3 DEF Forget, WellFormed, Retention
  <2>2. \A s \in t.live : s \in R <=> AgentOf[s] \in V
    <3>1. \A s \in t.live, a \in Agents : s \in t.agents[a] <=> a = AgentOf[s]
      BY <1>3 DEF Accounted
    <3>2. \A a \in V : a \in Agents
      BY <1>6 DEF Users
    <3> QED  BY <2>1, <3>1, <3>2 DEF RequestsOf
  <2>3. ASSUME NEW s \in Lost, AgentOf[s] # AgentOf[r] PROVE AgentOf[s] \in V
    <3>1. s \in retention.live /\ s \in t.live
      BY <1>1, <2>3 DEF Lost, Others
    <3> QED  BY <2>1, <2>2, <2>3, <3>1 DEF Lost
  <2>4. ASSUME NEW a \in V PROVE a \in released
    <3>1. a \in Agents /\ a # AgentOf[r] /\ t.agents[a] # {}
      BY <1>6 DEF Users
    <3>2. PICK s \in t.live : AgentOf[s] = a
      BY <1>3, <3>1 DEF Accounted
    <3>3. s \in retention.live /\ s \in R
      BY <1>1, <2>2, <3>1, <3>2 DEF Others
    <3>4. s \in Lost
      BY <2>1, <3>3 DEF Lost
    <3> QED  BY <3>1, <3>2, <3>4
  <2> QED  BY <2>1, <2>2, <2>3, <2>4
<1> HIDE DEF R
<1>8. \A a, b \in Agents \ {AgentOf[r]} : <<b, a>> \in t.order <=> <<b, a>> \in retention.order
  BY <1>1 DEF Others
<1>9. \A a \in V, b \in Agents \ {AgentOf[r]} : <<b, a>> \in retention.order => b \in V
  <2>1. \A a, b : <<b, a>> \in t.order => b \in Users(t)
    BY <1>3 DEF Accounted, IsOrder
  <2>2. \A a \in V : a \in Agents \ {AgentOf[r]}
    BY <1>6 DEF Users
  <2> QED  BY <1>6, <1>8, <2>1, <2>2
<1>10. ASSUME NEW a \in V, \A b \in V : <<b, a>> \in retention.order
       PROVE  Cardinality(blocks') + Cardinality(needless(a)) > NumBlocks
  <2> DEFINE N == needless(a)
             F == Reclaimable(t, K, RequestsOf(t, V \ {a}))
             A == NewKeys(K)
  <2>1. ~(Cardinality(F) >= Deficit(K))
    <3>1. \A b \in V : b \in Agents \ {AgentOf[r]}
      BY <1>6 DEF Users
    <3>2. \A b \in V : <<b, a>> \in t.order
      BY <1>8, <1>10, <3>1
    <3> QED  BY <1>6, <3>2
  <2>2. blocks \in SUBSET Keys /\ E \in SUBSET blocks /\ blocks \ blocks' = E
    BY <1>1 DEF Makes, IInv, TypeOK
  <2>3. E \ N \in SUBSET F
    <3>1. E = Reclaimable(t, K, RequestsOf(t, V))
      BY <1>4 DEF R
    <3>2. ASSUME NEW k \in E, k \notin N PROVE k \in F
      <4>1. retention.references[k] \cap retention.agents[a] = {} /\ k \in Keys
        BY <2>2, <3>2
      <4> QED  BY <1>1, <1>3, <1>6, <3>1, <4>1, LastFrees
    <3> QED  BY <3>2
  <2>4. N \in SUBSET E
    BY <2>2
  <2>5. F \in SUBSET Keys
    <3>1. F \in SUBSET Members(evictable)
      BY DEF Reclaimable
    <3>2. Members(evictable) \in SUBSET blocks
      BY DEF RInv
    <3> HIDE DEF F
    <3> QED  BY <2>2, <3>1, <3>2
  <2> HIDE DEF N, F
  <2>6. IsFiniteSet(E) /\ IsFiniteSet(N) /\ IsFiniteSet(F) /\ IsFiniteSet(blocks) /\ IsFiniteSet(A)
        /\ IsFiniteSet(E \ N) /\ IsFiniteSet(blocks \ E)
    <3>1. A \in SUBSET Keys
      BY <1>3 DEF NewKeys
    <3> HIDE DEF A
    <3> QED  BY <2>2, <2>4, <2>5, <3>1, FS_Subset
  <2>7. /\ Cardinality(E) \in Nat /\ Cardinality(N) \in Nat /\ Cardinality(F) \in Nat
        /\ Cardinality(blocks) \in Nat /\ Cardinality(A) \in Nat
    BY <2>6, FS_CardinalityType
  <2>8. Cardinality(E) - Cardinality(N) <= Cardinality(F)
    <3>1. Cardinality(E \ N) = Cardinality(E) - Cardinality(E \cap N)
      BY <2>6, FS_Difference
    <3>2. E \cap N = N
      BY <2>4
    <3>3. Cardinality(E \ N) <= Cardinality(F)
      BY <2>3, <2>6, FS_Subset
    <3> QED  BY <3>1, <3>2, <3>3
  <2>9. Cardinality(blocks') = Cardinality(blocks) - Cardinality(E) + Cardinality(A)
    <3> DEFINE B == blocks \ E
    <3>1. B \cap A = {} /\ blocks' = B \cup A /\ blocks \cap E = E
      BY <1>1, <1>5, <2>2 DEF Makes
    <3>2. Cardinality(B) = Cardinality(blocks) - Cardinality(blocks \cap E)
      BY <2>6, FS_Difference
    <3>3. Cardinality(B) = Cardinality(blocks) - Cardinality(E) /\ IsFiniteSet(B)
      BY <2>6, <3>1, <3>2
    <3> HIDE DEF B, A
    <3>4. Cardinality(B \cup A) = Cardinality(B) + Cardinality(A) - Cardinality(B \cap A)
      BY <2>6, <3>3, FS_Union
    <3>5. Cardinality(B \cap A) = 0
      BY <3>1, FS_EmptySet
    <3> QED  BY <2>7, <3>1, <3>3, <3>4, <3>5
  <2>10. Cardinality(F) < Cardinality(A) - (NumBlocks - Cardinality(blocks))
    <3> HIDE DEF A
    <3>1. Deficit(K) = Cardinality(A) - (NumBlocks - Cardinality(blocks))
      BY DEF Deficit, A
    <3> QED  BY <2>1, <2>7, <3>1, CapacityAssumption
  <2> HIDE DEF A
  <2>11. Cardinality(blocks') + Cardinality(N) > NumBlocks
    BY <2>7, <2>8, <2>9, <2>10, CapacityAssumption
  <2> QED  BY <2>11 DEF N
<1> HIDE DEF needless
<1>11. \A a \in released : (\A b \in released : <<b, a>> \in retention.order) =>
         Cardinality(blocks') + Cardinality(needless(a)) > NumBlocks
  BY <1>7, <1>10
<1> HIDE DEF released
<1> QED  BY <1>7, <1>9, <1>11 DEF ReleasesWhole, released, needless

-----------------------------------------------------------------------------
(* Every step keeps the accounts.                                          *)

FullInv == IInv /\ AInv /\ RInv

\* The bodies of the three action properties.
Moves ==
  /\ KeepsData
  /\ ReplacesOwn
  /\ \A r \in Requests : Starts(r) => ReleasesWhole(r)

\* A step that moves no data takes nothing from a row and starts no job.
LEMMA QuietMoves ==
  ASSUME UNCHANGED <<blocks, available>>, \A s \in Requests : storing'[s] \subseteq storing[s],
         ReplacesOwn
  PROVE  Moves
<1>1. KeepsData
  BY DEF KeepsData
<1>2. \A s \in Requests : ~Starts(s)
  BY DEF Starts
<1> QED  BY <1>1, <1>2 DEF Moves

\* Steps that give or take no context leave the accounts of contexts.
LEMMA SameContexts ==
  ASSUME AInv, UNCHANGED <<retention, phase>>
  PROVE  AInv' /\ ReplacesOwn
<1>1. AInv'
  BY DEF AInv, Accounted, Settled, Users, Finished, RetainedBounded
<1>2. Lost = {}
  BY DEF Lost
<1> QED  BY <1>1, <1>2 DEF ReplacesOwn

LEMMA NewRequestAccounts ==
  ASSUME FullInv, NEW r \in Requests, OnNewRequest(r)
  PROVE  AInv' /\ RInv' /\ Moves
<1>1. /\ phase[r] = "new" /\ phase' = [phase EXCEPT ![r] = "running"]
      /\ retention' = Touch(retention, r) /\ UNCHANGED <<rows, loading, storing>>
  BY DEF OnNewRequest
<1>2. WellFormed(retention) /\ Accounted(retention) /\ retention \in Retention
  BY DEF FullInv, IInv, AInv, WellFormed
<1>3. retention'.live = retention.live \cup {r} /\ retention'.idle = retention.idle
  BY <1>1, <1>2 DEF Touch, Retention
<1>4. Finished' = Finished /\ r \notin Finished
  BY <1>1 DEF FullInv, IInv, TypeOK, Finished
<1>5. Settled(retention', Finished')
  BY <1>3, <1>4 DEF Settled, FullInv, AInv
<1>6. Accounted(retention')
  BY <1>1, <1>2, TouchAccounted
<1>7. RetainedBounded'
  BY <1>3, <1>2 DEF FullInv, AInv, RetainedBounded
<1>8. ReplacesOwn
  BY <1>3 DEF ReplacesOwn, Lost
<1>9. RInv'
  BY <1>1, QuietRows DEF FullInv
<1>10. Moves
  BY <1>1, <1>8, QuietMoves DEF rows
<1> QED  BY <1>5, <1>6, <1>7, <1>9, <1>10 DEF AInv

\* A call of a running request, whatever it does to the rows.
LEMMA CallAccounts ==
  ASSUME FullInv, NEW r \in Requests, phase[r] = "running", NEW K \in SUBSET Keys,
         NEW needed \in [Keys -> SUBSET Units], phase' = phase,
         KeepsIdle(retention, retention')
  PROVE  retention' = Retain(retention, r, K, needed) => AInv' /\ ReplacesOwn
<1> DEFINE w == Retain(retention, r, K, needed)
<1>1. IInv /\ AInv
  BY DEF FullInv
<1>2. /\ WellFormed(w) /\ Accounted(w) /\ Settled(w, Finished)
      /\ w.live = (retention.live \cup {r}) \ Replaced(retention, r, K)
      /\ w.keys[r] = K
  BY <1>1, CallContexts, ZenonT(60)
<1>3. retention' = w => ReplacesOwn
  BY <1>1, CallReplaces
<1> HIDE DEF w
<1>4. RetainedBounded'
  BY <1>1, BoundedKept DEF AInv
<1>5. Finished' = Finished
  BY DEF Finished
<1>6. retention' = w => AInv'
  BY <1>2, <1>4, <1>5 DEF AInv
<1> QED  BY <1>3, <1>6 DEF w

LEMMA RetainAccounts ==
  ASSUME FullInv, NEW r \in Requests, NEW K \in SUBSET OffloadKeys[r],
         NEW N \in Choices(K), RetainContext(r, K, N), KeepsIdle(retention, retention')
  PROVE  AInv' /\ RInv' /\ Moves
<1>1. need' \in [Requests -> [Keys -> SUBSET Units]] /\ K \in SUBSET Keys
  BY DEF FullInv, IInv, TypeOK, RetainContext, Choices
<1>2. /\ phase[r] = "running" /\ phase' = phase /\ retention' = Retain(retention, r, K, need'[r])
      /\ UNCHANGED <<rows, loading, storing>>
  BY DEF RetainContext
<1>3. need'[r] \in [Keys -> SUBSET Units]
  BY <1>1
<1>4. AInv' /\ ReplacesOwn
  BY <1>1, <1>2, <1>3, CallAccounts
<1>5. RInv'
  BY <1>2, QuietRows DEF FullInv
<1> QED  BY <1>2, <1>4, <1>5, QuietMoves DEF rows

LEMMA PrepareLoadAccounts ==
  ASSUME FullInv, NEW r \in Requests, NEW K \in SUBSET OffloadKeys[r], PrepareLoad(r, K),
         KeepsIdle(retention, retention')
  PROVE  AInv' /\ RInv' /\ Moves
<1>1. need[r] \in [Keys -> SUBSET Units] /\ retention.keys[r] \cup K \in SUBSET Keys
  BY DEF FullInv, IInv, TypeOK, Retention
<1>2. /\ phase[r] = "running" /\ phase' = phase /\ UNCHANGED <<blocks, available, storing>>
      /\ retention' = Retain(retention, r, retention.keys[r] \cup K, need[r])
  BY DEF PrepareLoad
<1>3. AInv' /\ ReplacesOwn
  BY <1>1, <1>2, CallAccounts
<1>4. RInv'
  BY PrepareLoadRows DEF FullInv
<1> QED  BY <1>2, <1>3, <1>4, QuietMoves

LEMMA StoreNothingAccounts ==
  ASSUME FullInv, NEW r \in Requests, phase[r] = "running", NEW K \in SUBSET OffloadKeys[r],
         NEW f \in Choices(K), StoreNothing(r, K, f), UNCHANGED <<phase, need, loading>>,
         KeepsIdle(retention, retention')
  PROVE  AInv' /\ RInv' /\ Moves
<1>1. need[r] \in [Keys -> SUBSET Units] /\ retention.keys[r] \cup K \in SUBSET Keys
  BY DEF FullInv, IInv, TypeOK, Retention
<1>2. /\ UNCHANGED <<rows, storing>>
      /\ retention' = Retain(retention, r, retention.keys[r] \cup K, need[r])
  BY DEF StoreNothing
<1>3. AInv' /\ ReplacesOwn
  BY <1>1, <1>2, CallAccounts
<1>4. RInv'
  BY <1>2, QuietRows DEF FullInv
<1> QED  BY <1>2, <1>3, <1>4, QuietMoves DEF rows

\* What the call of a store leaves before it makes room is well formed, counts
\* what is live, and keeps of the finished requests only the idle ones.
LEMMA AfterCallContexts ==
  ASSUME IInv, AInv, NEW r \in Requests, phase[r] = "running",
         NEW K, retention.keys[r] \cup K \in SUBSET Keys
  PROVE  WellFormed(AfterCall(r, K)) /\ Accounted(AfterCall(r, K))
         /\ Settled(AfterCall(r, K), Finished)
<1> DEFINE M == retention.keys[r] \cup K
           n == need[r]
           w == Retain(retention, r, M, n)
<1>1. AfterCall(r, K) = w
  BY DEF AfterCall
<1>2. M \in SUBSET Keys
  OBVIOUS
<1>3. n \in [Keys -> SUBSET Units]
  BY DEF IInv, TypeOK
<1> HIDE DEF M, n
<1>4. /\ WellFormed(w) /\ Accounted(w) /\ Settled(w, Finished)
      /\ w.live = (retention.live \cup {r}) \ Replaced(retention, r, M)
      /\ w.keys[r] = M
  BY <1>2, <1>3, CallContexts, ZenonT(60)
<1> HIDE DEF w
<1> QED  BY <1>1, <1>4

LEMMA StoreAdmittedAccounts ==
  ASSUME FullInv, NEW r \in Requests, phase[r] = "running", NEW K \in SUBSET OffloadKeys[r],
         NEW f \in Choices(K), StoreAdmitted(r, K, f), UNCHANGED <<phase, need, loading>>,
         KeepsIdle(retention, retention')
  PROVE  AInv' /\ RInv' /\ Moves
<1> DEFINE t == AfterCall(r, K)
           R == RequestsOf(t, Plan(t, r, K).victims)
<1>1. need[r] \in [Keys -> SUBSET Units] /\ retention.keys[r] \cup K \in SUBSET Keys
      /\ IInv /\ AInv /\ RInv
  BY DEF FullInv, IInv, TypeOK, Retention
<1>2. WellFormed(t) /\ Accounted(t) /\ Settled(t, Finished)
  BY <1>1, AfterCallContexts
<1>3. retention' = Forget(t, R)
  BY DEF StoreAdmitted, AfterCall
<1>4. R \in SUBSET Requests
  <2>1. evictable \in SUBSET (Keys \X Keys) /\ K \in SUBSET Keys
    BY <1>1 DEF IInv, TypeOK
  <2> HIDE DEF t
  <2> QED  BY <1>2, <2>1, PlanRespectsReferences
<1> HIDE DEF t, R
<1>5. Accounted(retention') /\ Settled(retention', Finished) /\ Finished' = Finished
  BY <1>2, <1>3, <1>4, ForgetAccounted, ForgetSettled DEF Finished
<1>6. RetainedBounded'
  BY <1>1, BoundedKept DEF AInv
<1>7. RInv'
  BY <1>1, StoreAdmittedRows
<1>8. KeepsData
  BY <1>1, StoreKeepsData
<1>9. ReplacesOwn /\ \A s \in Requests : Starts(s) => s = r
  BY <1>1, StoreStarts DEF ReplacesOwn
<1>10. ReleasesWhole(r)
  BY <1>1, StoreReleases
<1> QED  BY <1>5, <1>6, <1>7, <1>8, <1>9, <1>10 DEF AInv, Moves

LEMMA CompleteLoadAccounts ==
  ASSUME FullInv, NEW r \in Requests, CompleteLoad(r)
  PROVE  AInv' /\ RInv' /\ Moves
<1>1. UNCHANGED <<retention, phase, blocks, available, storing>>
  BY DEF CompleteLoad
<1>2. AInv' /\ ReplacesOwn
  BY <1>1, SameContexts DEF FullInv
<1>3. RInv'
  BY CompleteLoadRows DEF FullInv
<1> QED  BY <1>1, <1>2, <1>3, QuietMoves

LEMMA CompleteStoreAccounts ==
  ASSUME FullInv, NEW r \in Requests, NEW J \in storing[r], CompleteStore(r, J)
  PROVE  AInv' /\ RInv' /\ Moves
<1>1. UNCHANGED <<retention, phase, blocks, available>>
  BY DEF CompleteStore
<1>2. AInv' /\ ReplacesOwn
  BY <1>1, SameContexts DEF FullInv
<1>3. RInv'
  BY CompleteStoreRows DEF FullInv
<1>4. \A s \in Requests : storing'[s] \subseteq storing[s]
  BY DEF CompleteStore, FullInv, IInv, TypeOK
<1> QED  BY <1>1, <1>2, <1>3, <1>4, QuietMoves

LEMMA FailStoreAccounts ==
  ASSUME FullInv, NEW r \in Requests, NEW J \in storing[r], FailStore(r, J),
         KeepsIdle(retention, retention')
  PROVE  AInv' /\ RInv' /\ Moves
<1> DEFINE R == UNION {retention.references[k] : k \in J}
<1>1. /\ retention' = Forget(retention, R) /\ phase' = phase
      /\ storing' = [storing EXCEPT ![r] = storing[r] \ {J}]
  BY DEF FailStore
<1>2. IInv /\ AInv /\ RInv /\ WellFormed(retention)
  BY DEF FullInv, IInv
<1>3. R \in SUBSET Requests
  BY <1>2 DEF IInv, TypeOK, Retention
<1> HIDE DEF R
<1>4. Accounted(retention') /\ Settled(retention', Finished) /\ Finished' = Finished
  BY <1>1, <1>2, <1>3, ForgetAccounted, ForgetSettled DEF Finished, AInv
<1>5. RetainedBounded'
  BY <1>2, BoundedKept DEF AInv
<1>6. RInv' /\ KeepsData
  BY <1>2, FailStoreRows, FailStoreKeepsData
<1>7. \A s \in Requests : storing'[s] = IF s = r THEN storing[r] \ {J} ELSE storing[s]
  BY <1>1, <1>2 DEF IInv, TypeOK
<1>8. ReplacesOwn /\ \A s \in Requests : ~Starts(s)
  BY <1>7 DEF ReplacesOwn, Starts
<1> QED  BY <1>4, <1>5, <1>6, <1>8 DEF AInv, Moves

LEMMA FinishAccounts ==
  ASSUME FullInv, NEW r \in Requests, OnRequestFinished(r)
  PROVE  AInv' /\ RInv' /\ Moves
<1>1. /\ phase[r] = "running" /\ phase' = [phase EXCEPT ![r] = "finished"]
      /\ UNCHANGED <<rows, loading, storing>>
  BY DEF OnRequestFinished
<1>2. AInv'
  BY FinishContexts DEF FullInv
<1>3. RInv'
  BY <1>1, QuietRows DEF FullInv
<1>4. phase' # phase
  BY <1>1 DEF FullInv, IInv, TypeOK
<1>5. ReplacesOwn
  BY <1>4 DEF ReplacesOwn
<1> QED  BY <1>1, <1>2, <1>3, <1>5, QuietMoves DEF rows

LEMMA ResetAccounts ==
  ASSUME FullInv, ResetCache
  PROVE  AInv' /\ RInv' /\ Moves
<1>1. retention' = NoRetention /\ \A s \in Requests : storing'[s] = {}
  BY DEF ResetCache
<1>2. retention'.live = {} /\ Users(retention') = {} /\ retention'.order = {} /\ Idlers(retention') = {}
      /\ \A a \in Agents : retention'.agents[a] = {}
  BY <1>1 DEF NoRetention, Users, Idlers
<1>3. Accounted(retention') /\ Settled(retention', Finished')
  BY <1>2, EmptyOrder DEF Accounted, Settled
<1>4. RetainedBounded'
  <2>1. Cardinality(Idlers(retention')) = 0
    BY <1>2, FS_EmptySet
  <2> QED  BY <2>1, CapacityAssumption DEF RetainedBounded, Idlers
<1>5. RInv'
  BY ResetRows
<1>6. Moves
  BY <1>1, <1>2 DEF Moves, KeepsData, ReplacesOwn, Starts
<1> QED  BY <1>3, <1>4, <1>5, <1>6 DEF AInv

LEMMA AccountsStep ==
  ASSUME FullInv, [Next]_vars
  PROVE  FullInv' /\ [Moves]_vars
<1> DEFINE Goal == AInv' /\ RInv' /\ [Moves]_vars
<1>1. IInv /\ IInv' /\ (KeepsIdle(retention, retention') \/ \E r \in Requests : OnRequestFinished(r))
  BY NextStep DEF FullInv
<1>2. ASSUME NEW r \in Requests, OnRequestFinished(r) PROVE Goal
  BY <1>2, FinishAccounts
<1> SUFFICES ASSUME KeepsIdle(retention, retention') PROVE Goal
  BY <1>1, <1>2 DEF FullInv
<1>3. ASSUME NEW r \in Requests, OnNewRequest(r) PROVE Goal
  BY <1>3, NewRequestAccounts
<1>4. ASSUME NEW r \in Requests, CompleteLoad(r) PROVE Goal
  BY <1>4, CompleteLoadAccounts
<1>5. ASSUME NEW r \in Requests, NEW K \in SUBSET OffloadKeys[r], PrepareLoad(r, K) PROVE Goal
  BY <1>5, PrepareLoadAccounts
<1>6. ASSUME NEW r \in Requests, NEW K \in SUBSET OffloadKeys[r], NEW f \in Choices(K),
             RetainContext(r, K, f) PROVE Goal
  BY <1>6, RetainAccounts
<1>7. ASSUME NEW r \in Requests, NEW K \in SUBSET OffloadKeys[r], NEW f \in Choices(K),
             PrepareStore(r, K, f) PROVE Goal
  <2>1. phase[r] = "running" /\ UNCHANGED <<phase, need, loading>>
    BY <1>7 DEF PrepareStore
  <2>2. CASE StoreNothing(r, K, f)
    BY <2>1, <2>2, StoreNothingAccounts
  <2>3. CASE StoreAdmitted(r, K, f)
    BY <2>1, <2>3, StoreAdmittedAccounts
  <2> QED  BY <1>7, <2>2, <2>3 DEF PrepareStore
<1>8. ASSUME NEW r \in Requests, NEW J \in storing[r], CompleteStore(r, J) PROVE Goal
  BY <1>8, CompleteStoreAccounts
<1>9. ASSUME NEW r \in Requests, NEW J \in storing[r], FailStore(r, J) PROVE Goal
  BY <1>9, FailStoreAccounts
<1>10. ASSUME ResetCache PROVE Goal
  BY <1>10, ResetAccounts
<1>11. ASSUME UNCHANGED vars PROVE Goal
  <2>1. AInv'
    BY <1>11, SameContexts DEF vars, FullInv
  <2>2. RInv'
    BY <1>11, QuietRows DEF vars, FullInv
  <2> QED  BY <1>11, <2>1, <2>2
<1> HIDE DEF Goal
<1>12. CASE \E r \in Requests : \E K \in SUBSET OffloadKeys[r] :
              \/ PrepareLoad(r, K)
              \/ \E f \in Choices(K) : RetainContext(r, K, f) \/ PrepareStore(r, K, f)
  BY <1>5, <1>6, <1>7, <1>12
<1>13. CASE \E r \in Requests : \E J \in storing[r] : CompleteStore(r, J) \/ FailStore(r, J)
  BY <1>8, <1>9, <1>13
<1>14. CASE \E r \in Requests : OnNewRequest(r) \/ CompleteLoad(r) \/ OnRequestFinished(r)
  BY <1>2, <1>3, <1>4, <1>14
<1> QED  BY <1>10, <1>11, <1>12, <1>13, <1>14 DEF Next

-----------------------------------------------------------------------------
(* Theorems.                                                               *)

\* The accounts are right in every state of every execution.
THEOREM AccountsInvariance == Spec => []FullInv
<1>1. Init => FullInv
  BY InitIInv, InitAInv, InitRInv DEF FullInv
<1>2. FullInv /\ [Next]_vars => FullInv'
  BY AccountsStep
<1> QED  BY <1>1, <1>2, PTL DEF Spec

\* No context is leaked, and only an agent's idle turn outlives its request.
THEOREM ContextsAreAccounted == Spec => []ContextsAreAccountedFor
<1>1. FullInv => ContextsAreAccountedFor
  <2> SUFFICES ASSUME FullInv PROVE ContextsAreAccountedFor
    OBVIOUS
  <2>1. IsOrder(retention.order, Users(retention)) /\ Members(retention.order) = Users(retention)
    BY OrderMembers DEF FullInv, AInv, Accounted
  <2>2. \A a, b \in Users(retention) : (<<a, b>> \in retention.order) # (<<b, a>> \in retention.order)
                                       \/ a = b
    BY <2>1 DEF IsOrder
  <2>3. \A r \in retention.live : phase[r] = "finished" <=> retention.idle[AgentOf[r]] = r
    <3>1. \A r \in retention.live : r \in Requests /\ AgentOf[r] \in Agents /\ r # NoRequest
      BY DEF FullInv, IInv, WellFormed, Retention
    <3> QED  BY <3>1 DEF FullInv, AInv, IInv, Settled, Finished
  <2> QED  BY <2>1, <2>2, <2>3 DEF FullInv, AInv, Accounted, Users, ContextsAreAccountedFor
<1> QED  BY <1>1, AccountsInvariance, PTL

\* The turns kept for resumption never outnumber the tier's chunks.
THEOREM RetainedTurnsAreBounded == Spec => []RetainedBounded
<1>1. FullInv => RetainedBounded
  BY DEF FullInv, AInv
<1> QED  BY <1>1, AccountsInvariance, PTL

\* ref_cnt counts the transfers of each row, transfers never collide on a row,
\* the tier fits its slots, and exactly the idle rows can be evicted.
THEOREM TransfersArePinned == Spec => []TransfersPinRows
<1>1. FullInv => TransfersPinRows
  BY RInvSuffices DEF FullInv
<1> QED  BY <1>1, AccountsInvariance, PTL

\* A row is advertised as canonical exactly when it holds its whole content.
THEOREM CompleteRowsHoldAll == Spec => []CompleteRowsAreWhole
<1>1. FullInv => CompleteRowsAreWhole
  BY DEF FullInv, RInv
<1> QED  BY <1>1, AccountsInvariance, PTL

\* No step takes data from under a context that survives it.
THEOREM ContextsAreUndisturbed == Spec => ContextsKeepTheirData
<1>1. FullInv /\ [Next]_vars => [KeepsData]_vars
  BY AccountsStep DEF Moves
<1> QED  BY <1>1, AccountsInvariance, PTL DEF Spec, ContextsKeepTheirData, KeepsData

\* A step that moves no data drops no turn but the one its caller replaces.
THEOREM DeclinedStoresCostNothing == Spec => OnlyOwnTurnIsReplaced
<1>1. FullInv /\ [Next]_vars => [ReplacesOwn]_vars
  BY AccountsStep DEF Moves
<1> QED  BY <1>1, AccountsInvariance, PTL DEF Spec, OnlyOwnTurnIsReplaced, ReplacesOwn

\* Pressure releases agents whole, least recently used first, and none in vain.
THEOREM ReleasesAreNeeded == Spec => PressureReleasesWholeAgents
<1>1. FullInv /\ [Next]_vars => [\A r \in Requests : Starts(r) => ReleasesWhole(r)]_vars
  BY AccountsStep DEF Moves
<1> QED  BY <1>1, AccountsInvariance, PTL DEF Spec, PressureReleasesWholeAgents, ReleasesWhole

=============================================================================
