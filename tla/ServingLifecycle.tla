-------------------------- MODULE ServingLifecycle --------------------------
(***************************************************************************)
(* start.sh and stop.sh (src/scripts/run-agent.sh, stop-agent.sh).         *)
(*                                                                         *)
(* No lock keeps two commands apart: what they share is what docker and    *)
(* the file system hold under fixed names.  A command is a sequence of     *)
(* steps, each of which reads or changes that state once; between two      *)
(* steps anything else may happen, and any step may be the last.           *)
(***************************************************************************)
EXTENDS Naturals, Sequences, FiniteSets

CONSTANTS Shells,     \* terminals, each running one command at a time
          Foreigners, \* names that something else on the host may take
          MaxStarts,  \* bound: starts of one behaviour
          MaxFaults,  \* bound: kills, interrupts and failing docker calls
          Nobody, Foreign, Earlier

Containers == {"backend", "bridge", "ingress"}
Objects == Containers \union {"socket"}

ASSUME ForeignersAssumption == Foreigners \subseteq Objects \union {"port", "volume"}
ASSUME BoundsAssumption == MaxStarts \in Nat /\ MaxFaults \in Nat
ASSUME MakersAssumption ==
    Cardinality({Nobody, Foreign, Earlier}) = 3 /\ {Nobody, Foreign, Earlier} \intersect Shells = {}

VARIABLES
    maker,   \* who made each object: a start that still runs, an earlier one, ...
    running, \* containers whose State.Running is true
    ready,   \* of those, the ones that serve: the bridge has its socket, the ingress listens
    volume,  \* the cache volume
    foreignListener, \* another process listens on the port
    pc, todo,
    made,    \* the *_created flags of a start
    alone, seen, trouble, \* history, only recorded: see Begin
    starts, faults

world == <<maker, running, ready, volume, foreignListener>>
history == <<alone, seen, trouble>>
bounds == <<starts, faults>>
vars == <<world, pc, todo, made, history, bounds>>

Ended == {"none", "healthy", "stopped", "failed", "killed"}
\* The steps of a start before its EXIT trap is set, and those it covers.
Unguarded == {"look", "socket", "volume", "createVolume", "initVolume", "statVolume"}
Guarded == {"runBackend", "waitBackend", "runBridge", "waitBridge",
            "runIngress", "waitIngress", "assert"}
StartSteps == Unguarded \union Guarded \union {"cleaning", "cleanMade"}
StopSteps == {"survey", "stopping", "removing", "removeSocket", "verify"}

Present(o) == maker[o] # Nobody
Owned(o) == maker[o] \notin {Nobody, Foreign}
OwnedObjects == {o \in Objects : Owned(o)}
Listener == foreignListener \/ "ingress" \in ready
Active(p) == pc[p] \notin Ended
Stopping == \E p \in Shells : pc[p] \in StopSteps

\* assert_running_profile: the three containers run as this profile starts them.
ProfileHolds == OwnedObjects = Objects /\ running = Containers /\ ready = Containers

TypeOK ==
    /\ maker \in [Objects -> Shells \union {Nobody, Foreign, Earlier}]
    /\ ready \subseteq running /\ running \subseteq OwnedObjects
    /\ volume \in {"absent", "fresh", "empty", "used", "foreign"}
    /\ foreignListener \in BOOLEAN
    /\ pc \in [Shells -> Ended \union StartSteps \union StopSteps]
    /\ todo \in [Shells -> Seq(Containers)]
    /\ made \in [Shells -> SUBSET Containers]
    /\ alone \in [Shells -> BOOLEAN] /\ seen \in [Shells -> SUBSET Objects]
    /\ trouble \in [Shells -> SUBSET {"left", "stuck"}]
    /\ starts \in 0..MaxStarts /\ faults \in 0..MaxFaults

Init ==
    /\ maker = [o \in Objects |-> Nobody]
    /\ running = {} /\ ready = {}
    /\ volume \in {"absent", "used"} \union (IF "volume" \in Foreigners THEN {"foreign"} ELSE {})
    /\ foreignListener = FALSE
    /\ pc = [p \in Shells |-> "none"] /\ todo = [p \in Shells |-> <<>>]
    /\ made = [p \in Shells |-> {}]
    /\ alone = [p \in Shells |-> FALSE] /\ seen = [p \in Shells |-> {}]
    /\ trouble = [p \in Shells |-> {}]
    /\ starts = 0 /\ faults = 0

-----------------------------------------------------------------------------
\* How a command moves on.

\* A plausible mistake: the order in which they were started.
StartOrder == <<"backend", "bridge", "ingress">>

\* The bridge lives in the network of the backend, which is removed after it.
RemovalOrder == <<"ingress", "bridge", "backend">>
StopOrder == <<"backend", "ingress", "bridge">>

Goto(p, step) == pc' = [pc EXCEPT ![p] = step]

Fault == faults < MaxFaults /\ faults' = faults + 1

\* The command exits; what it made stays behind as an earlier command's.
\* objects is the makers as the last step leaves them.
End(p, how, objects) ==
    /\ Goto(p, how)
    /\ maker' = [o \in Objects |-> IF objects[o] = p THEN Earlier ELSE objects[o]]
    /\ todo' = [todo EXCEPT ![p] = <<>>]
    /\ made' = [made EXCEPT ![p] = {}]
    /\ alone' = [alone EXCEPT ![p] = FALSE]
    /\ seen' = [seen EXCEPT ![p] = {}]
    /\ trouble' = [trouble EXCEPT ![p] = {}]

Exits(p, how) == End(p, how, maker) /\ UNCHANGED <<running, ready, volume, foreignListener, starts>>

\* The EXIT trap: its steps are what this start made, in this order.
EntersCleanup(p) ==
    /\ Goto(p, "cleaning")
    /\ todo' = [todo EXCEPT ![p] = RemovalOrder]

Moves(p, step) == Goto(p, step) /\ UNCHANGED <<world, todo, made, history, bounds>>
Fails(p) == EntersCleanup(p) /\ UNCHANGED <<world, made, history, bounds>>

Without(o) == [maker EXCEPT ![o] = Nobody]

\* A command begins: was it the only one, and what did it find.
Begins(p, step) ==
    /\ ~Active(p)
    /\ Goto(p, step)
    /\ alone' = [q \in Shells |-> q = p /\ \A r \in Shells : ~Active(r)]
    /\ seen' = [seen EXCEPT ![p] = OwnedObjects]
    /\ UNCHANGED <<world, todo, made, trouble, faults>>

-----------------------------------------------------------------------------
\* start.sh

BeginStart(p) ==
    /\ starts < MaxStarts /\ starts' = starts + 1
    /\ Begins(p, "look")

\* An owned backend is validated, anything else in the way refuses the start.
Look(p) ==
    /\ pc[p] = "look"
    /\ \/ /\ Present("backend")
          /\ Exits(p, IF ProfileHolds THEN "healthy" ELSE "failed") /\ UNCHANGED faults
       \/ /\ ~Present("backend")
          /\ Present("bridge") \/ Present("ingress") \/ Listener
          /\ Exits(p, "failed") /\ UNCHANGED faults
       \/ /\ ~(Present("backend") \/ Present("bridge") \/ Present("ingress") \/ Listener)
          /\ Moves(p, "socket")

CheckSocket(p) ==
    /\ pc[p] = "socket"
    /\ \/ Present("socket") /\ Exits(p, "failed") /\ UNCHANGED faults
       \/ ~Present("socket") /\ Moves(p, "volume")

\* The labels decide whose volume it is.
CheckVolume(p) ==
    /\ pc[p] = "volume"
    /\ \/ volume = "absent" /\ Moves(p, "createVolume")
       \/ volume \in {"fresh", "empty", "used"} /\ Moves(p, "statVolume")
       \/ volume = "foreign" /\ Exits(p, "failed") /\ UNCHANGED faults

\* A new volume belongs to root; docker volume create takes one that is there
\* by now as it is.
CreateVolume(p) ==
    /\ pc[p] = "createVolume"
    /\ \/ /\ volume' = IF volume = "absent" THEN "fresh" ELSE volume
          /\ Goto(p, "initVolume")
          /\ UNCHANGED <<maker, running, ready, foreignListener, todo, made, history, bounds>>
       \/ Fault /\ Exits(p, "failed")

\* The init container refuses a volume with content; docker may fail to run it.
InitVolume(p) ==
    /\ pc[p] = "initVolume"
    /\ \/ /\ volume \in {"fresh", "empty"}
          /\ volume' = "empty"
          /\ Goto(p, "statVolume")
          /\ UNCHANGED <<maker, running, ready, foreignListener, todo, made, history, bounds>>
       \/ volume \notin {"fresh", "empty"} /\ Exits(p, "failed") /\ UNCHANGED faults
       \/ Fault /\ Exits(p, "failed")

\* A plausible mistake: a volume with the right labels is trusted.
VolumeTrusted(p) == pc[p] = "statVolume" /\ Moves(p, "runBackend")

StatVolume(p) ==
    /\ pc[p] = "statVolume"
    /\ \/ volume \in {"empty", "used"} /\ Moves(p, "runBackend")
       \/ volume \notin {"empty", "used"} /\ Exits(p, "failed") /\ UNCHANGED faults
       \/ Fault /\ Exits(p, "failed")

\* docker run: the name is taken; the container starts and its flag is set; or
\* a container is left that no flag records, because it could not be started
\* or because a signal ends the script once docker run returns.  The bridge
\* cannot start without the network of a running backend.
RunContainer(p, n, step, next) ==
    /\ pc[p] = step
    /\ \/ Present(n) /\ Fails(p)
       \/ /\ ~Present(n)
          /\ n = "bridge" => "backend" \in running
          /\ maker' = [maker EXCEPT ![n] = p]
          /\ running' = running \union {n}
          /\ volume' = IF "backend" \in running' /\ volume = "empty" THEN "used" ELSE volume
          /\ made' = [made EXCEPT ![p] = @ \union {n}]
          /\ Goto(p, next)
          /\ UNCHANGED <<ready, foreignListener, todo, history, bounds>>
       \/ /\ ~Present(n)
          /\ maker' = [maker EXCEPT ![n] = p]
          /\ \/ n = "bridge" /\ "backend" \notin running /\ UNCHANGED <<running, faults>>
             \/ Fault /\ UNCHANGED running
             \/ Fault /\ (n = "bridge" => "backend" \in running) /\ running' = running \union {n}
          /\ volume' = IF "backend" \in running' /\ volume = "empty" THEN "used" ELSE volume
          /\ trouble' = [trouble EXCEPT ![p] = @ \union {"left"}]
          /\ EntersCleanup(p)
          /\ UNCHANGED <<ready, foreignListener, made, alone, seen, starts>>
       \/ Fault /\ EntersCleanup(p) /\ UNCHANGED <<world, made, history, starts>>

RunBackend(p) == RunContainer(p, "backend", "runBackend", "waitBackend")
RunBridge(p) == RunContainer(p, "bridge", "runBridge", "waitBridge")
RunIngress(p) == RunContainer(p, "ingress", "runIngress", "waitIngress")

\* A plausible mistake: the log is followed without a deadline.
WaitForever(p, n, step, next) ==
    /\ pc[p] = step
    /\ \/ n \in ready /\ Moves(p, next)
       \/ n \notin ready /\ UNCHANGED vars

\* The wait for the exact readiness event ends with it, or with the deadline.
WaitFor(p, n, step, next) ==
    /\ pc[p] = step
    /\ \/ n \in ready /\ (n = "bridge" => Present("socket")) /\ Moves(p, next)
       \/ Fails(p)

WaitBackend(p) == WaitFor(p, "backend", "waitBackend", "runBridge")
WaitBridge(p) == WaitFor(p, "bridge", "waitBridge", "runIngress")
WaitIngress(p) == WaitFor(p, "ingress", "waitIngress", "assert")

\* A plausible mistake: the trap is taken back before the profile is asserted.
AssertUntrapped(p) ==
    pc[p] = "assert" /\ Exits(p, IF ProfileHolds THEN "healthy" ELSE "failed") /\ UNCHANGED faults

AssertProfile(p) ==
    /\ pc[p] = "assert"
    /\ \/ ProfileHolds /\ Exits(p, "healthy") /\ UNCHANGED faults
       \/ ~ProfileHolds /\ Fails(p)

Drops(p) == todo' = [todo EXCEPT ![p] = Tail(@)]

\* A plausible mistake: the identity is not looked at again.
CleansByName(p) ==
    /\ pc[p] = "cleaning" /\ todo[p] # <<>>
    /\ IF Head(todo[p]) \in made[p] THEN Goto(p, "cleanMade") /\ UNCHANGED todo
                                   ELSE Drops(p) /\ UNCHANGED pc
    /\ UNCHANGED <<world, made, history, bounds>>

\* cleanup_failed_start, the next container: passed over unless this start's flag
\* says it made it, and preserved when it is not the project's any more.
CheckMade(p) ==
    /\ pc[p] = "cleaning" /\ todo[p] # <<>>
    /\ IF Head(todo[p]) \in made[p] /\ maker[Head(todo[p])] # Foreign
       THEN Goto(p, "cleanMade") /\ UNCHANGED todo
       ELSE Drops(p) /\ UNCHANGED pc
    /\ UNCHANGED <<world, made, history, bounds>>

\* A plausible mistake: a running container is removed without being stopped.
CleansRunning(p) ==
    /\ pc[p] = "cleanMade" /\ Goto(p, "cleaning") /\ Drops(p)
    /\ maker' = Without(Head(todo[p]))
    /\ UNCHANGED <<running, ready, volume, foreignListener, made, history, bounds>>

\* What has the name by then is stopped and removed, whichever start made it; a
\* failing call is counted and the next container is taken.  Only docker inspect
\* is not guarded: where it fails, or the container went before it, set -e ends
\* the cleanup.
CleanContainer(p) ==
    /\ pc[p] = "cleanMade"
    /\ LET n == Head(todo[p])
       IN  \/ /\ n = "backend" /\ Present(n) => ~Present("bridge")
              /\ maker' = Without(n)
              /\ running' = running \ {n} /\ ready' = ready \ {n}
              /\ Goto(p, "cleaning") /\ Drops(p)
              /\ UNCHANGED <<volume, foreignListener, made, history, bounds>>
           \/ /\ Present(n)
              /\ Fault \/ (n = "backend" /\ Present("bridge") /\ UNCHANGED faults)
              /\ \E stopped \in SUBSET {n} :
                    running' = running \ stopped /\ ready' = ready \ stopped
              /\ trouble' = [trouble EXCEPT ![p] = @ \union {"stuck"}]
              /\ Goto(p, "cleaning") /\ Drops(p)
              /\ UNCHANGED <<maker, volume, foreignListener, made, alone, seen, starts>>
           \/ /\ Fault \/ (~Present(n) /\ UNCHANGED faults)
              /\ Exits(p, "failed")

\* ... and then the socket, if its type, owner and mode are the bridge's.
CleanSocket(p) ==
    /\ pc[p] = "cleaning" /\ todo[p] = <<>>
    /\ End(p, "failed", IF Owned("socket") THEN Without("socket") ELSE maker)
    /\ UNCHANGED <<running, ready, volume, foreignListener, bounds>>

-----------------------------------------------------------------------------
\* stop.sh

BeginStop(p) == Begins(p, "survey") /\ UNCHANGED starts

\* Plausible mistake: a dead ingress is expected to listen.
DeadIngressRefused ==
    /\ \A o \in Objects : maker[o] # Foreign
    /\ IF Present("ingress") THEN Listener ELSE ~foreignListener

\* Every object is resolved and validated before any is touched.
Recognised ==
    /\ \A o \in Objects : maker[o] # Foreign
    /\ IF "ingress" \in running THEN Listener ELSE ~foreignListener

Survey(p) ==
    /\ pc[p] = "survey"
    /\ \/ ~Recognised /\ Exits(p, "failed") /\ UNCHANGED faults
       \/ /\ Recognised /\ \A n \in Containers : ~Present(n)
          /\ IF maker["socket"] = Foreign THEN End(p, "failed", maker)
                                         ELSE End(p, "stopped", Without("socket"))
          /\ UNCHANGED <<running, ready, volume, foreignListener, bounds>>
       \/ /\ Recognised /\ \E n \in Containers : Present(n)
          /\ Goto(p, "stopping")
          /\ todo' = [todo EXCEPT ![p] = StopOrder]
          /\ UNCHANGED <<world, made, history, bounds>>

\* stop_exact: the relays stay up until the backend has drained.
StopContainer(p) ==
    /\ pc[p] = "stopping"
    /\ LET n == Head(todo[p])
       IN  \/ /\ running' = running \ {n} /\ ready' = ready \ {n}
              /\ IF Len(todo[p]) > 1
                 THEN pc' = pc /\ todo' = [todo EXCEPT ![p] = Tail(@)]
                 ELSE /\ Goto(p, "removing")
                      /\ todo' = [todo EXCEPT ![p] = RemovalOrder]
              /\ UNCHANGED <<maker, volume, foreignListener, made, history, bounds>>
           \/ n \in running /\ Fault /\ Exits(p, "failed")

\* remove_stopped_exact: a container that runs again ends the command.
RemoveContainer(p) ==
    /\ pc[p] = "removing"
    /\ LET n == Head(todo[p])
           removable == n = "backend" => ~Present("bridge")
       IN  \/ /\ n \notin running /\ (Present(n) => removable)
              /\ maker' = Without(n)
              /\ Goto(p, IF Len(todo[p]) > 1 THEN "removing" ELSE "removeSocket")
              /\ todo' = [todo EXCEPT ![p] = Tail(@)]
              /\ UNCHANGED <<running, ready, volume, foreignListener, made, history, bounds>>
           \/ /\ n \in running \/ (Present(n) /\ ~removable)
              /\ Exits(p, "failed") /\ UNCHANGED faults
           \/ Present(n) /\ Fault /\ Exits(p, "failed")

RemoveSocket(p) ==
    /\ pc[p] = "removeSocket"
    /\ IF maker["socket"] = Foreign
       THEN Exits(p, "failed") /\ UNCHANGED faults
       ELSE /\ maker' = Without("socket")
            /\ Goto(p, "verify")
            /\ UNCHANGED <<running, ready, volume, foreignListener, todo, made, history, bounds>>

Verify(p) ==
    /\ pc[p] = "verify"
    /\ Exits(p, IF Listener \/ \E n \in Containers : Present(n) THEN "failed" ELSE "stopped")
    /\ UNCHANGED faults

-----------------------------------------------------------------------------
\* What else happens.

\* A kill or a power cut: no trap runs.  A signal the shell sees runs the trap.
Kill(p) == Active(p) /\ Fault /\ Exits(p, "killed")

Interrupt(p) ==
    /\ Fault
    /\ \/ pc[p] \in (Unguarded \union StopSteps) /\ Exits(p, "failed")
       \/ pc[p] \in Guarded /\ EntersCleanup(p) /\ UNCHANGED <<world, made, history, starts>>

Becomes(n) ==
    /\ n \in running \ ready
    /\ n = "bridge" => ~Present("socket")
    /\ n = "ingress" => ~foreignListener
    /\ ready' = ready \union {n}
    /\ maker' = IF n = "bridge" THEN [maker EXCEPT !["socket"] = maker["bridge"]] ELSE maker
    /\ UNCHANGED <<running, volume, foreignListener, pc, todo, made, history, bounds>>

Dies(n) ==
    /\ n \in running
    /\ running' = running \ {n} /\ ready' = ready \ {n}
    /\ UNCHANGED <<maker, volume, foreignListener, pc, todo, made, history, bounds>>

\* Something else takes a name, also one whose container of ours no longer
\* runs, while no stop and no removal of a cleanup is under way: those look
\* at an object first and then name it.  It goes when no command runs.
ForeignArrives(o) ==
    /\ ~Stopping /\ (\A p \in Shells : pc[p] # "cleanMade") /\ o \in Foreigners
    /\ \/ /\ o \in Objects /\ o \notin running
          /\ maker' = [maker EXCEPT ![o] = Foreign]
          /\ UNCHANGED foreignListener
       \/ /\ o = "port" /\ ~Listener
          /\ foreignListener' = TRUE /\ UNCHANGED maker
    /\ UNCHANGED <<running, ready, volume, pc, todo, made, history, bounds>>

ForeignLeaves ==
    /\ \A p \in Shells : ~Active(p)
    /\ foreignListener' = FALSE
    /\ maker' = [o \in Objects |-> IF maker[o] = Foreign THEN Nobody ELSE maker[o]]
    /\ UNCHANGED <<running, ready, volume, pc, todo, made, history, bounds>>

Proceeds(p) ==
    \/ Look(p) \/ CheckSocket(p) \/ CheckVolume(p) \/ CreateVolume(p) \/ InitVolume(p) \/ StatVolume(p)
    \/ RunBackend(p) \/ WaitBackend(p) \/ RunBridge(p) \/ WaitBridge(p)
    \/ RunIngress(p) \/ WaitIngress(p) \/ AssertProfile(p)
    \/ CheckMade(p) \/ CleanContainer(p) \/ CleanSocket(p)
    \/ Survey(p) \/ StopContainer(p) \/ RemoveContainer(p) \/ RemoveSocket(p) \/ Verify(p)

Next ==
    \/ \E p \in Shells : BeginStart(p) \/ BeginStop(p) \/ Proceeds(p) \/ Kill(p) \/ Interrupt(p)
    \/ \E n \in Containers : Becomes(n) \/ Dies(n)
    \/ \E o \in Foreigners : ForeignArrives(o)
    \/ ForeignLeaves

Spec == Init /\ [][Next]_vars

\* A command goes on; a container that runs comes to serve or dies; whoever wants
\* the stack down runs stop.sh again after one that failed.
Fairness ==
    /\ \A p \in Shells : WF_vars(Proceeds(p)) /\ WF_vars(BeginStop(p))
    /\ \A n \in Containers : WF_vars(n \notin ready /\ (Becomes(n) \/ Dies(n)))

FairSpec == Spec /\ Fairness

-----------------------------------------------------------------------------
(***************************************************************************)
(* Properties.                                                             *)
(***************************************************************************)
Ends(p) == Active(p) /\ pc'[p] \in Ended

\* What a command found, with the socket that a bridge it found may have made since.
Found(p) == seen[p] \union (IF "bridge" \in seen[p] THEN {"socket"} ELSE {})
\* Something that is not the project's stands where its stack would.
InTheWay == foreignListener \/ \E o \in Objects : maker[o] = Foreign
Unchanged(p) == seen[p] \subseteq OwnedObjects' /\ OwnedObjects' \subseteq Found(p)

\* What is not the project's is never stopped or removed by a command, whatever
\* commands overlap ("never kills an unknown process", README.md:85), and a stop
\* that runs alone beside it changes nothing at all: the contradiction is met
\* before the first change, never with the stack half torn down
\* (stop-agent.sh:16-18).
ForeignUntouched ==
    [][\A p \in Shells :
          /\ pc'[p] # pc[p] \/ todo'[p] # todo[p] =>
                \A o \in Objects : maker[o] = Foreign => maker'[o] = Foreign
          /\ (/\ Ends(p) /\ pc[p] \in StopSteps /\ alone[p]
              /\ \E o \in Objects : maker[o] = Foreign) => Unchanged(p)]_vars

\* A start that runs alone keeps every object it found, however it ends, and one
\* that fails leaves nothing of its own (README.md:77-78, :89-90), provided docker
\* started or refused each container as a whole and could inspect, stop and
\* remove them, and no signal came while it was starting one.
StartKeepsToItsOwn ==
    [][\A p \in Shells : Ends(p) /\ pc[p] \in StartSteps /\ alone[p] =>
          /\ \A o \in seen[p] : maker'[o] # Nobody
          /\ pc'[p] = "failed" /\ pc[p] # "cleanMade" /\ trouble[p] = {} =>
                OwnedObjects' \subseteq Found(p)]_vars

\* Whatever overlapping, killed and failed commands left behind, one stop that
\* runs alone, is not killed and meets no failing docker call clears it all.
\* The one case it refuses is an ingress that runs but does not listen yet.
OneStopClears ==
    [][\A p \in Shells :
          (/\ Ends(p) /\ pc[p] \in StopSteps /\ alone[p] /\ faults' = faults
           /\ ~InTheWay) =>
          \/ pc'[p] = "stopped" /\ OwnedObjects' = {}
          \/ pc[p] = "survey" /\ "ingress" \in running \ ready /\ Unchanged(p)]_vars

\* Whoever made the volume, and however far that start came: no backend runs on
\* one that it cannot write, also when two starts make it together.
BackendHasItsVolume == "backend" \in running => volume = "used"

\* Every command ends: a start at its deadline at the latest, a stop once the
\* backend has drained.
CommandsEnd == \A p \in Shells : Active(p) ~> ~Active(p)

\* Once nobody starts it again and nothing else stands in the way, repeated
\* stops bring the stack down for good, also when starts were killed, docker
\* calls failed and other programs came and went before.
EventuallyCleared == <>[]~InTheWay => <>[](OwnedObjects = {})
=============================================================================
