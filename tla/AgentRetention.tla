--------------------------- MODULE AgentRetention ---------------------------
(***************************************************************************)
(* What the CPU tier promises the agents that share it, whatever its rows, *)
(* transfers and eviction order do: an agent's last finished turn, once    *)
(* retained, stays whole in the tier until it is dropped as a whole.       *)
(***************************************************************************)
CONSTANTS Agents, Keys, Units

VARIABLES
  held,      \* the content the tier holds (or is receiving) under each key
  retained   \* the content each agent's retained turn needs, none if it has none

Nothing == [k \in Keys |-> {}]
Covers(h, turn) == \A k \in Keys : turn[k] \subseteq h[k]

Init ==
  /\ held = Nothing
  /\ retained = [a \in Agents |-> Nothing]

\* Any set of turns is dropped, and content that no remaining turn needs may
\* leave the tier, change or arrive.
Change ==
  /\ retained' \in [Agents -> [Keys -> SUBSET Units]]
  /\ held' \in [Keys -> SUBSET Units]
  /\ \A a \in Agents : retained'[a] \in {retained[a], Nothing}
  /\ \A a \in Agents : Covers(held', retained'[a])

\* Agent a's turn ends and is retained, since the tier holds all it needs; of
\* the other agents' turns, some may be dropped to bound their number.
Finish(a) ==
  /\ held' = held
  /\ retained' \in [Agents -> [Keys -> SUBSET Units]]
  /\ Covers(held, retained'[a])
  /\ \A b \in Agents \ {a} : retained'[b] \in {retained[b], Nothing}

Next == Change \/ \E a \in Agents : Finish(a)

Spec == Init /\ [][Next]_<<held, retained>>
=============================================================================
